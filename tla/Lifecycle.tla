----------------------------- MODULE Lifecycle -----------------------------
(***************************************************************************)
(* The run lifecycle of packages/core/src/lifecycle.ts over the transition *)
(* table of contracts/state-machine.json and the row constraints of        *)
(* contracts/storage/controller.sql, on top of the attempts and leases of  *)
(* Leases.  A run's row, its contract revisions, sealed candidates, latest *)
(* control intent, questions and budget reservation decide the guards.     *)
(*                                                                         *)
(* Contract and candidate identities are abstracted to revisions: contract *)
(* revision n of the run's project, and the candidate of this run sealed   *)
(* for revision n; 0 stands for NULL.  Events, outbox and message rows are *)
(* append-only records no guard reads and are left out.                    *)
(***************************************************************************)
EXTENDS Leases

CONSTANTS
  Questions, QuestionRun, \* question ids and [Questions -> Runs]
  Callers,         \* callers that read a run and act on what they read
  InjectedGuards,  \* guards a deployment supplies through options.guards
  MaxRevision,     \* bound on contract revisions
  MaxVersion       \* bound on a run's state_version

ASSUME LifecycleConstantsOK ==
  /\ QuestionRun \in [Questions -> Runs]
  /\ MaxRevision \in Nat
  /\ MaxVersion \in Nat \ {0}

VARIABLES
  runs,       \* the row of each run, state "NONE" before createRun
  contracts,  \* contracts[p]: the revisions recorded for project p
  sealed,     \* sealed[r]: the revisions run r has a sealed candidate for
  intent,     \* the action of the run's latest control intent
  questions,  \* client_questions.status, "ABSENT" before askQuestion
  reserved,   \* the runs with a RESERVED budget reservation
  seen        \* what a caller last read: << >> or <<run, row>>

runVars == <<runs, contracts, sealed, intent, questions, reserved, seen>>
lifecycleVars == <<leaseVars, runVars>>

Reviewed == {"READY_FOR_REVIEW", "AWAITING_RELEASE_APPROVAL", "DEPLOYING",
             "RELEASED", "ROLLED_BACK"}
Unscoped == {"RECEIVED", "BLOCKED", "PAUSED", "CANCELLED", "FAILED"}
States == Reviewed \cup Unscoped \cup {"SCOPED", "RUNNING", "VERIFYING", "NEEDS_REPAIR"}

Row == [state : States \cup {"NONE"}, version : 0..MaxVersion,
        revision : 0..MaxRevision, candidate : 0..MaxRevision]
Intents == {"none", "pause", "resume", "cancel", "block", "block_unexplained"}

LifecycleTypeOK ==
  /\ LeaseTypeOK
  /\ runs \in [Runs -> Row]
  /\ \A r \in Runs : runs[r].state = "NONE" <=> runs[r].version = 0
  /\ contracts \in [Projects -> SUBSET (1..MaxRevision)]
  /\ sealed \in [Runs -> SUBSET (1..MaxRevision)]
  /\ intent \in [Runs -> Intents]
  /\ questions \in [Questions -> {"ABSENT", "OPEN", "SUPERSEDED", "ANSWERED"}]
  /\ reserved \subseteq Runs
  /\ seen \in [Callers -> {<< >>} \cup (Runs \X Row)]

LifecycleInit ==
  /\ LeaseInit
  /\ runs = [r \in Runs |-> [state |-> "NONE", version |-> 0, revision |-> 0, candidate |-> 0]]
  /\ contracts = [p \in Projects |-> {}]
  /\ sealed = [r \in Runs |-> {}]
  /\ intent = [r \in Runs |-> "none"]
  /\ questions = [q \in Questions |-> "ABSENT"]
  /\ reserved = {}
  /\ seen = [c \in Callers |-> << >>]

Exists(r) == runs[r].state # "NONE"
Recorded(r) == contracts[ProjectOf[r]]
HasQuestion(r, st) == \E q \in Questions : QuestionRun[q] = r /\ questions[q] = st

-----------------------------------------------------------------------------
(* The transition table.  Every pair of states has at most one rule, so the *)
(* actor of a rule is left out: another actor finds no rule at all.         *)

Interruptible == {"SCOPED", "RUNNING", "VERIFYING", "NEEDS_REPAIR",
                  "READY_FOR_REVIEW", "AWAITING_RELEASE_APPROVAL"}

Rules ==
  {<<"RECEIVED", "SCOPED", "contract_valid">>,
   <<"SCOPED", "RUNNING", "authorized_and_budgeted">>,
   <<"RUNNING", "VERIFYING", "candidate_sealed">>,
   <<"VERIFYING", "NEEDS_REPAIR", "evidence_rejected">>,
   <<"NEEDS_REPAIR", "RUNNING", "repair_budget_and_progress">>,
   <<"VERIFYING", "READY_FOR_REVIEW", "current_authenticated_evidence">>,
   <<"READY_FOR_REVIEW", "RUNNING", "new_client_requirement_revision">>,
   <<"AWAITING_RELEASE_APPROVAL", "RUNNING", "new_client_requirement_revision">>,
   <<"READY_FOR_REVIEW", "AWAITING_RELEASE_APPROVAL", "release_checks_and_specialist_review">>,
   <<"AWAITING_RELEASE_APPROVAL", "DEPLOYING", "current_scoped_approval_consumed">>,
   <<"DEPLOYING", "RELEASED", "deployment_and_smoke_verified">>,
   <<"DEPLOYING", "ROLLED_BACK", "authorized_recovery_verified">>,
   <<"RELEASED", "ROLLED_BACK", "authorized_recovery_verified">>,
   <<"ROLLED_BACK", "RUNNING", "new_repair_run_authorized">>}
  \cup ({"RECEIVED"} \cup Interruptible) \X {"PAUSED"} \X {"pause_requested"}
  \cup ({"RECEIVED"} \cup Interruptible) \X {"BLOCKED"} \X {"material_blocker"}
  \cup ({"RECEIVED", "PAUSED", "BLOCKED"} \cup Interruptible) \X {"CANCELLED"}
         \X {"cancel_requested_and_leases_revoked"}
  \cup {"RECEIVED", "RUNNING", "VERIFYING", "DEPLOYING"} \X {"FAILED"}
         \X {"unrecoverable_failure_recorded"}
  \cup {<<from, resume[1], resume[2]>> : from \in {"PAUSED", "BLOCKED"}, resume \in
         {<<"RECEIVED", "precontract_input_resolved">>,
          <<"SCOPED", "contract_reconciled_before_work">>,
          <<"RUNNING", "reconciled_authorized_and_budgeted">>,
          <<"VERIFYING", "candidate_reconciled_for_reverification">>,
          <<"READY_FOR_REVIEW", "current_authenticated_evidence">>,
          <<"AWAITING_RELEASE_APPROVAL", "release_checks_and_specialist_review">>}}

\* The guards of lifecycle.ts over the stored records and the revision and
\* candidate that are to be written; for a candidate bound to NULL the guard
\* looks at the row's.  A guard the file does not define holds only where it
\* is injected, and then whenever the injected code says so.
Guard(r, guard, revision, candidate) ==
  \/ guard = "contract_valid" /\ revision \in Recorded(r)
  \/ /\ guard = "authorized_and_budgeted"
     /\ runs[r].revision >= 1 /\ r \in reserved
  \/ /\ guard = "candidate_sealed"
     /\ (IF candidate = 0 THEN runs[r].candidate ELSE candidate) \in sealed[r]
  \/ guard = "pause_requested" /\ intent[r] = "pause"
  \/ guard = "material_blocker" /\ intent[r] = "block"
  \/ guard = "cancel_requested_and_leases_revoked" /\ intent[r] = "cancel"
  \/ /\ guard = "precontract_input_resolved"
     /\ intent[r] = "resume" \/ HasQuestion(r, "ANSWERED")
  \/ /\ guard = "new_client_requirement_revision"
     /\ revision > runs[r].revision /\ revision \in Recorded(r)
  \/ guard \in InjectedGuards

-----------------------------------------------------------------------------
(* Writing the run's row *)

RowLegalWithoutReview(r, row, recorded) ==
  /\ row.revision = 0 => row.state \in Unscoped
  /\ row.revision # 0 => row.revision \in recorded
  /\ row.candidate # 0 => row.candidate \in sealed[r]

\* The CHECK and FOREIGN KEY constraints of table runs; a row that breaks one
\* makes the transaction fail as a whole.
RowLegal(r, row, recorded) ==
  /\ row.state \in Reviewed => row.candidate # 0
  /\ row.revision = 0 => row.state \in Unscoped
  /\ row.revision # 0 => row.revision \in recorded
  /\ row.candidate # 0 => row.candidate \in sealed[r]

UpdatedKeepsVersion(r, state, revision, candidate) ==
  [state |-> state, version |-> runs[r].version,
   revision |-> revision, candidate |-> candidate]

\* The row after an UPDATE: the version goes up by one.
Updated(r, state, revision, candidate) ==
  [state |-> state, version |-> runs[r].version + 1,
   revision |-> revision, candidate |-> candidate]

\* A transition writes what the request binds, whether or not the guard of
\* its rule looks at it.
Transition(r, rule, revision, candidate, expected) ==
  LET row == Updated(r, rule[2], revision, candidate) IN
  /\ runs[r].version < MaxVersion
  /\ Guard(r, rule[3], revision, candidate)
  /\ runs[r].version = expected
  /\ RowLegal(r, row, Recorded(r))
  /\ runs' = [runs EXCEPT ![r] = row]
  /\ UNCHANGED <<leaseVars, contracts, sealed, intent, questions, reserved>>

RulesFrom(state) == {rule \in Rules : rule[1] = state}

SomeTransition(r, expected) ==
  \E rule \in RulesFrom(runs[r].state), revision, candidate \in 0..MaxRevision :
    Transition(r, rule, revision, candidate, expected)

-----------------------------------------------------------------------------
(* Handlers *)

\* createRun; a replay of the key returns the row and changes nothing.
CreateRun(r) ==
  /\ ~Exists(r)
  /\ runs' = [runs EXCEPT ![r] = Updated(r, "RECEIVED", 0, 0)]
  /\ UNCHANGED <<leaseVars, contracts, sealed, intent, questions, reserved, seen>>

RecordContract(p, revision) ==
  /\ contracts' = [contracts EXCEPT ![p] = @ \cup {revision}]
  /\ UNCHANGED <<leaseVars, runs, sealed, intent, questions, reserved, seen>>

\* sealCandidate for the revision of the contract it is called with.
SealCandidate(r, revision) ==
  /\ Exists(r)
  /\ sealed' = [sealed EXCEPT ![r] = @ \cup {revision}]
  /\ UNCHANGED <<leaseVars, runs, contracts, intent, questions, reserved, seen>>

CancelMarksAttempts(r, action) ==
  /\ Exists(r)
  /\ intent' = [intent EXCEPT ![r] = action]
  /\ IF action = "cancel"
     THEN /\ status' = [a \in Attempts |-> IF RunOf[a] = r THEN "REVOKED" ELSE status[a]]
          /\ UNCHANGED <<lease_epoch, leases>>
     ELSE UNCHANGED leaseVars
  /\ UNCHANGED <<runs, contracts, sealed, questions, reserved, seen>>

\* requestControl: the newest intent wins; a cancel fences the run's attempts
\* in the same transaction and the state stays what it was.
RequestControl(r, action) ==
  /\ Exists(r)
  /\ intent' = [intent EXCEPT ![r] = action]
  /\ IF action = "cancel" THEN FenceRun(r) ELSE UNCHANGED leaseVars
  /\ UNCHANGED <<runs, contracts, sealed, questions, reserved, seen>>

Advances(r, revision) == revision > runs[r].revision

\* applyRequirementRevision: record the contract, fence the run's attempts,
\* drop the candidate and move the row to the new revision in its state.
ApplyRevision(r, revision, expected) ==
  LET row == Updated(r, runs[r].state, revision, 0) IN
  /\ Exists(r)
  /\ runs[r].version < MaxVersion
  /\ Advances(r, revision)
  /\ runs[r].version = expected
  /\ RowLegal(r, row, Recorded(r) \cup {revision})
  /\ contracts' = [contracts EXCEPT ![ProjectOf[r]] = @ \cup {revision}]
  /\ FenceRun(r)
  /\ runs' = [runs EXCEPT ![r] = row]
  /\ UNCHANGED <<sealed, intent, questions, reserved>>

\* askQuestion: behind an OPEN question of the run the new one is stored as
\* SUPERSEDED.
AskQuestion(q) ==
  /\ Exists(QuestionRun[q])
  /\ questions[q] = "ABSENT"
  /\ questions' = [questions EXCEPT ![q] =
                    IF HasQuestion(QuestionRun[q], "OPEN") THEN "SUPERSEDED" ELSE "OPEN"]
  /\ UNCHANGED <<leaseVars, runs, contracts, sealed, intent, reserved, seen>>

AnswerQuestion(q) ==
  /\ questions[q] = "OPEN"
  /\ questions' = [questions EXCEPT ![q] = "ANSWERED"]
  /\ UNCHANGED <<leaseVars, runs, contracts, sealed, intent, reserved, seen>>

\* The budget broker reserves for the run, or settles its last reservation.
BudgetMoves(r) ==
  /\ Exists(r)
  /\ reserved' = IF r \in reserved THEN reserved \ {r} ELSE reserved \cup {r}
  /\ UNCHANGED <<leaseVars, runs, contracts, sealed, intent, questions, seen>>

\* getRun: the caller keeps the row it read.
Read(c, r) ==
  /\ Exists(r)
  /\ seen' = [seen EXCEPT ![c] = <<r, runs[r]>>]
  /\ UNCHANGED <<leaseVars, runs, contracts, sealed, intent, questions, reserved>>

\* A call that names the version the caller read, whatever happened since:
\* it commits, or it is refused as STATE_VERSION_CONFLICT or by its guard.
ActOnRead(c) ==
  /\ seen[c] # << >>
  /\ LET r == seen[c][1] expected == seen[c][2].version IN
     \/ SomeTransition(r, expected)
     \/ \E revision \in 1..MaxRevision : ApplyRevision(r, revision, expected)
     \/ UNCHANGED <<leaseVars, runs, contracts, sealed, intent, questions, reserved>>
  /\ seen' = [seen EXCEPT ![c] = << >>]

\* A call by a caller that read the row in the same turn.
ActNow(r) ==
  /\ \/ SomeTransition(r, runs[r].version)
     \/ \E revision \in 1..MaxRevision : ApplyRevision(r, revision, runs[r].version)
  /\ UNCHANGED seen

\* The attempt and lease handlers; an attempt's row needs its run's row.
LeaseStep ==
  /\ \/ \E a \in Attempts : Exists(RunOf[a]) /\ CreateAttempt(a)
     \/ \E a \in Attempts : Admit(a)
     \/ \E t \in Tasks : Claim(t) \/ Reassign(t)
     \/ \E a \in Attempts, wanted \in SUBSET Paths : ClaimWriteScope(a, wanted)
     \/ \E expired \in SUBSET LeasesOf(Attempts) : Reconcile(expired)
  /\ UNCHANGED runVars

LifecycleNext ==
  \/ \E r \in Runs : CreateRun(r) \/ BudgetMoves(r) \/ ActNow(r)
  \/ \E q \in Questions : AskQuestion(q) \/ AnswerQuestion(q)
  \/ \E p \in Projects, revision \in 1..MaxRevision : RecordContract(p, revision)
  \/ \E r \in Runs, revision \in 1..MaxRevision : SealCandidate(r, revision)
  \/ \E r \in Runs, action \in Intents \ {"none"} : RequestControl(r, action)
  \/ \E c \in Callers, r \in Runs : Read(c, r)
  \/ \E c \in Callers : ActOnRead(c)
  \/ LeaseStep

LifecycleSpec == LifecycleInit /\ [][LifecycleNext]_lifecycleVars

-----------------------------------------------------------------------------
(* Properties *)

\* A decision made on a row commits only if the run still has that very row:
\* no interleaved transition, revision or return to an earlier state goes
\* unnoticed by the version check (lifecycle.ts:1-4, compare-and-swap).
CommitsFromRowRead ==
  [][\A c \in Callers :
       seen[c] # << >> /\ seen'[c] = << >> /\ runs' # runs
         => runs[seen[c][1]] = seen[c][2]]_lifecycleVars

\* While a run is in review its row is what it was: a revision of the
\* requirements in place would drop the candidate and is refused whole
\* (applyRequirementRevision against the CHECK on table runs).  Only a
\* transition to another state of review may replace what is reviewed, because
\* its caller bound another candidate, and then by one that was sealed in this
\* very run, at a revision its project has recorded.
ReviewKeepsCandidate ==
  [][\A r \in Runs : runs[r].state \in Reviewed
       => /\ runs'[r].state = runs[r].state => runs'[r] = runs[r]
          /\ runs'[r].state \in Reviewed
               => runs'[r].candidate \in sealed[r] /\ runs'[r].revision \in Recorded(r)]_lifecycleVars

\* lifecycle.ts:34: a transition may bind the records the target state
\* requires and the values are still validated, so that what is approved is
\* what was reviewed.  The values are written for every rule and only two
\* guards look at them, so READY_FOR_REVIEW -> AWAITING_RELEASE_APPROVAL may
\* take another candidate, sealed for another revision.
ReviewedRowFrozen ==
  [][\A r \in Runs : {runs[r].state, runs'[r].state} \subseteq Reviewed
       => /\ runs'[r].revision = runs[r].revision
          /\ runs'[r].candidate = runs[r].candidate]_lifecycleVars

\* When a run takes a new revision without changing its state, no epoch of its
\* attempts is accepted afterwards and the candidate is dropped
\* (lifecycle.ts:477-478).
RevisionFences ==
  [][\A r \in Runs :
       runs'[r].state = runs[r].state /\ runs'[r].revision # runs[r].revision
         => /\ runs'[r].candidate = 0
            /\ \A a \in Attempts, e \in 1..MaxEpoch :
                 RunOf[a] = r => ~CheckFence(a, e)']_lifecycleVars

\* contracts/state-machine.json:347: new requirements during active work
\* revoke the leases and no stale attempt can integrate.  The transition from
\* review back to RUNNING takes a new revision and leaves the leases alone.
NewRequirementsFence ==
  [][\A r \in Runs :
       runs[r].state \in Interruptible /\ runs'[r].revision > runs[r].revision
       => \A a \in Attempts, e \in 1..MaxEpoch :
            RunOf[a] = r => ~CheckFence(a, e)']_lifecycleVars
=============================================================================
