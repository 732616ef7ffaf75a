---------------------------- MODULE Continuity ----------------------------
(***************************************************************************)
(* What one session leaves to the next: the task ledger of a run           *)
(* (packages/core/src/tasks.ts), and the host sessions and the briefing     *)
(* built from the controller's record (handoff.ts).  Sessions of any host  *)
(* work on the same ledger, at the same time if the client opened two      *)
(* terminals, and may stop without a word.  The run itself moves on under   *)
(* them (Lifecycle): only its state is kept here.                          *)
(***************************************************************************)
EXTENDS Naturals, FiniteSets, FiniteSetsExt, SequencesExt

CONSTANTS
  Tasks,
  Plans,      \* the task lists sessions describe, sequences over Tasks
  Sessions,
  Transitions,   \* pairs of states: the transitions of the run (state-machine.json)
  NoTask, NoSession

ASSUME ContinuityConstantsOK ==
  /\ Plans \subseteq Seq(Tasks) /\ \A plan \in Plans : IsInjective(plan)
  /\ NoTask \notin Tasks /\ NoSession \notin Sessions
  /\ Transitions \subseteq STRING \X STRING

VARIABLES
  runState,  \* runs.state
  ledger,    \* run_tasks, sequence 0 before the row is inserted
  refused,   \* a plan was rolled back because a sequence was taken
  sessions,  \* host_sessions: not started, open (ended_at NULL), ended
  working,   \* sessions whose host is still running
  pending    \* what a call of a session has read and will write

continuityVars == <<runState, ledger, refused, sessions, working, pending>>

NoCall == [status |-> "none", tasks |-> {}]
Absent == [seq |-> 0, status |-> "PENDING", evidence |-> FALSE, by |-> NoSession]
Planned == {t \in Tasks : ledger[t].seq > 0}

ContinuityTypeOK ==
  /\ \A t \in Tasks :
       /\ ledger[t].seq \in Nat
       /\ ledger[t].status \in {"PENDING", "IN_PROGRESS", "DONE", "BLOCKED"}
       /\ ledger[t].evidence \in BOOLEAN
       /\ ledger[t].by \in Sessions \cup {NoSession}
  /\ \A t, u \in Planned : ledger[t].seq = ledger[u].seq => t = u
  /\ refused \in BOOLEAN
  /\ sessions \in [Sessions -> {"none", "open", "ended"}]
  /\ working \subseteq Sessions
  /\ runState \in {"RECEIVED"} \cup {move[2] : move \in Transitions}
  /\ pending \in [Sessions -> [status : {"none", "IN_PROGRESS", "PENDING"}, tasks : SUBSET Tasks]]
  /\ \A s \in Sessions : pending[s] # NoCall => s \in working /\ pending[s].tasks \subseteq Planned

ContinuityInit ==
  /\ runState = "RECEIVED"
  /\ ledger = [t \in Tasks |-> Absent]
  /\ refused = FALSE
  /\ sessions = [s \in Sessions |-> "none"]
  /\ working = {}
  /\ pending = [s \in Sessions |-> NoCall]

\* The run moves on, whatever the sessions do.
MoveRun(state) ==
  /\ <<runState, state>> \in Transitions
  /\ runState' = state
  /\ UNCHANGED <<ledger, refused, sessions, working, pending>>

-----------------------------------------------------------------------------
(* The task ledger *)

Unfinished == {t \in Planned : ledger[t].status # "DONE"}
FirstOf(S) == IF S = {} THEN NoTask ELSE CHOOSE t \in S : \A u \in S : ledger[t].seq <= ledger[u].seq

NextUnclaimed == FirstOf({t \in Planned : ledger[t].status = "PENDING"})

\* next(): the first task, in order, that is not finished.
NextTask == FirstOf(Unfinished)

\* A new row gets the number of rows there were and its place in this plan.
SequenceOf(plan, t) == Cardinality(Planned) + (CHOOSE i \in DOMAIN plan : plan[i] = t)

\* plan(): one transaction, which UNIQUE(run_id, sequence) may undo.
Plan(plan) ==
  LET new == ToSet(plan) \ Planned
      taken == {ledger[t].seq : t \in Planned} IN
  /\ IF \E t \in new : SequenceOf(plan, t) \in taken
     THEN refused' = TRUE /\ UNCHANGED ledger
     ELSE /\ ledger' = [t \in Tasks |-> IF t \in new
                          THEN [Absent EXCEPT !.seq = SequenceOf(plan, t)] ELSE ledger[t]]
          /\ UNCHANGED refused
  /\ UNCHANGED <<runState, sessions, working, pending>>

Set(t, row) ==
  /\ ledger' = [ledger EXCEPT ![t] = row]
  /\ UNCHANGED <<runState, refused, sessions, working>>

\* Two calls read first and write later, without a transaction: claim(),
\* whoever holds the task, and releaseAbandoned(), for the claims of u.
Read(s, status, tasks) ==
  /\ s \in working /\ pending[s] = NoCall /\ tasks # {}
  /\ pending' = [pending EXCEPT ![s] = [status |-> status, tasks |-> tasks]]
  /\ UNCHANGED <<runState, ledger, refused, sessions, working>>

Claim(t, s) == t \in Unfinished /\ Read(s, "IN_PROGRESS", {t})

ReleaseAbandoned(s, u) ==
  Read(s, "PENDING", {t \in Planned : ledger[t].status = "IN_PROGRESS" /\ ledger[t].by = u})

\* The UPDATE of the next task a call read, whatever became of its row: the
\* evidence stays, and a release lifts the claim and leaves the name.
Write(s, t) ==
  /\ pending[s] # NoCall /\ t = FirstOf(pending[s].tasks)
  /\ Set(t, [ledger[t] EXCEPT !.status = pending[s].status,
                              !.by = IF pending[s].status = "IN_PROGRESS" THEN s ELSE @])
  /\ pending' = [pending EXCEPT ![s] =
       IF pending[s].tasks = {t} THEN NoCall
       ELSE [status |-> pending[s].status, tasks |-> pending[s].tasks \ {t}]]

\* finish(): needs a reference, not a claim.
Finish(t, s) ==
  /\ s \in working /\ t \in Planned
  /\ Set(t, [ledger[t] EXCEPT !.status = "DONE", !.evidence = TRUE, !.by = s])
  /\ UNCHANGED pending

\* block(): of a finished task too, whose evidence stays in the row.
Block(t) ==
  /\ working # {} /\ t \in Planned
  /\ Set(t, [ledger[t] EXCEPT !.status = "BLOCKED", !.by = NoSession])
  /\ UNCHANGED pending

-----------------------------------------------------------------------------
(* Sessions and briefings *)

\* The runs a briefing tells of.  NEEDS_REPAIR is not among them.
OpenStates == {"RECEIVED", "SCOPED", "RUNNING", "VERIFYING", "BLOCKED", "PAUSED",
  "READY_FOR_REVIEW", "AWAITING_RELEASE_APPROVAL", "DEPLOYING"}

\* buildHandoff of the one run: the counts and the task to resume.
Handoff == [nothingInProgress |-> runState \notin OpenStates,
            total |-> Cardinality(Planned),
            done |-> Cardinality(Planned \ Unfinished),
            next |-> NextTask]

\* renderHandoff: the one task the briefing says to pick up.
PickUp(handoff) ==
  IF handoff.nothingInProgress \/ handoff.total = 0 THEN NoTask ELSE handoff.next

\* A bare cm: the briefing is built (PickUp(Handoff)), then the session's row
\* is written and the host started.
StartSession(s) ==
  /\ sessions[s] = "none"
  /\ sessions' = [sessions EXCEPT ![s] = "open"]
  /\ working' = working \cup {s}
  /\ UNCHANGED <<runState, ledger, refused, pending>>

\* The host ends, and what it was about to write is never written; only if cm
\* is still there is the row closed.
EndSession(s, recorded) ==
  /\ s \in working
  /\ working' = working \ {s}
  /\ sessions' = IF recorded THEN [sessions EXCEPT ![s] = "ended"] ELSE sessions
  /\ pending' = [pending EXCEPT ![s] = NoCall]
  /\ UNCHANGED <<runState, ledger, refused>>

ContinuityNext ==
  \/ \E plan \in Plans : Plan(plan)
  \/ \E t \in Tasks : Block(t) \/ \E s \in Sessions : Claim(t, s) \/ Write(s, t) \/ Finish(t, s)
  \/ \E s, u \in Sessions : ReleaseAbandoned(s, u)
  \/ \E s \in Sessions : StartSession(s) \/ \E recorded \in BOOLEAN : EndSession(s, recorded)
  \/ \E move \in Transitions : MoveRun(move[2])

ContinuitySpec == ContinuityInit /\ [][ContinuityNext]_continuityVars

-----------------------------------------------------------------------------
(* Properties *)

Abandoned == {t \in Planned : ledger[t].status = "IN_PROGRESS" /\ ledger[t].by \notin working}

\* Whatever sessions planned again, took over, blocked, wrote late or left
\* half-done: the next briefing of a run it tells of passes over no task
\* without evidence, and so none that a dead session still holds (tasks.ts:3-9).
ResumesUnfinished ==
  runState \in OpenStates =>
    LET next == PickUp(Handoff) IN
    /\ \A t \in Abandoned : next # NoTask /\ ledger[next].seq <= ledger[t].seq
    /\ \A t \in Planned : (next = NoTask \/ ledger[t].seq < ledger[next].seq)
                            => ledger[t].status = "DONE" /\ ledger[t].evidence

\* handoff.ts:152, "There is no unfinished run to continue": not said of a run
\* with an abandoned task that may still go on.  A run that NEEDS_REPAIR is not
\* told of, and its half-done task is passed over.
UnfinishedRunIsBriefed ==
  (\E move \in Transitions : move[1] = runState) /\ Abandoned # {} => ~Handoff.nothingInProgress

\* tasks.ts:53: planning again is additive, so it is never refused.  Rows are
\* numbered by their place in the new plan, and leave gaps a later plan hits.
PlanningIsAdditive == ~refused
=============================================================================
