---------------------------- MODULE Verification ----------------------------
(***************************************************************************)
(* The protected verifier: packages/verifier.  The policy store (policy.ts *)
(* over contracts/storage/verifier.sql) freezes policies and binds one     *)
(* approved execution definition to each check id; the coordinator         *)
(* (coordinator.ts) runs the required checks of a candidate's policy one   *)
(* after the other, awaiting each execution (executor.ts); the verdict     *)
(* (verdict.ts) is derived from the evidence a call returned.              *)
(*                                                                         *)
(* Calls run in one process and interleave at the awaits only.  A job      *)
(* stands for its (project, idempotency key), a policy for its digest.     *)
(* Envelopes and issuer keys, timestamps and environment profiles are left *)
(* out; of an execution only what decides its status is kept.              *)
(***************************************************************************)
EXTENDS Naturals, FiniteSets

CONSTANTS
  Checks, Defs, CheckOf,  \* check ids, definition digests, the check of each
  NoDef,
  Policies,
  DefIn,                  \* DefIn[p][c]: the definition policy p lists for c
  Required,               \* Required[p]: the checks p lists as required
  VersionOf,              \* the (project, policy_id, revision) of a policy
  Candidates, PolicyOf,   \* candidates and the policy each one names
  NoCandidate,
  Keys,                   \* idempotency keys
  Calls                   \* concurrent calls of verify

Listed(p) == {c \in Checks : DefIn[p][c] # NoDef}

ASSUME VerificationConstantsOK ==
  /\ CheckOf \in [Defs -> Checks] /\ NoDef \notin Defs
  /\ DefIn \in [Policies -> [Checks -> Defs \cup {NoDef}]]
  /\ \A p \in Policies : Required[p] \subseteq Listed(p)
  /\ \A p \in Policies : \A c \in Listed(p) : CheckOf[DefIn[p][c]] = c
  /\ PolicyOf \in [Candidates -> Policies] /\ NoCandidate \notin Candidates
  /\ Keys # {} /\ Candidates # {} /\ Checks # {}

VARIABLES
  frozen,        \* rows of policy_versions
  bound,         \* bound[c]: the execution definition of check id c
  jobOf, status, \* of each key: the candidate of its job, and the job's status
  executions,    \* executions[k][d]: result of check_executions (k, d)
  pc, key, cand, \* of each call: where it is, its job, its candidate
  todo, check,   \* checks it still has to run, and the one it runs
  argv,          \* the definition it resolved for that check
  child,         \* the child process of the execution it awaits
  results,       \* results[s][c]: what the call observed, "NONE" if nothing
  ran            \* ran[s][c]: the definition resolved for what results[s][c] records

storeVars == <<frozen, bound, jobOf, status, executions>>
callVars == <<pc, key, cand, todo, check, argv, child, results, ran>>
verVars == <<storeVars, callVars>>

\* FAILED stands for every status but PASSED: a failure, an unreadable report,
\* a timeout, an environment that is not ready.
Statuses == {"PASSED", "FAILED"}
Nothing == [c \in Checks |-> "NONE"]
AnyKey == CHOOSE k \in Keys : TRUE
AnyCandidate == CHOOSE c \in Candidates : TRUE
AnyCheck == CHOOSE c \in Checks : TRUE

VerTypeOK ==
  /\ frozen \subseteq Policies
  /\ bound \in [Checks -> Defs \cup {NoDef}]
  /\ jobOf \in [Keys -> Candidates \cup {NoCandidate}]
  /\ status \in [Keys -> {"NONE", "RUNNING", "COMPLETE", "REJECTED"}]
  /\ executions \in [Keys -> [Defs -> Statuses \cup {"NONE"}]]
  /\ pc \in [Calls -> {"idle", "executing", "done"}]
  /\ key \in [Calls -> Keys] /\ cand \in [Calls -> Candidates]
  /\ todo \in [Calls -> SUBSET Checks] /\ check \in [Calls -> Checks]
  /\ argv \in [Calls -> Defs \cup {NoDef}]
  /\ child \in [Calls -> {"none", "running", "killed", "held"}]
  /\ results \in [Calls -> [Checks -> Statuses \cup {"NONE"}]]
  /\ ran \in [Calls -> [Checks -> Defs \cup {NoDef}]]
  /\ \A k \in Keys : status[k] = "NONE" <=> jobOf[k] = NoCandidate
  /\ \A s \in Calls : pc[s] = "executing" => check[s] \in todo[s]

VerInit ==
  /\ frozen = {} /\ bound = [c \in Checks |-> NoDef]
  /\ jobOf = [k \in Keys |-> NoCandidate] /\ status = [k \in Keys |-> "NONE"]
  /\ executions = [k \in Keys |-> [d \in Defs |-> "NONE"]]
  /\ pc = [s \in Calls |-> "idle"]
  /\ key = [s \in Calls |-> AnyKey] /\ cand = [s \in Calls |-> AnyCandidate]
  /\ todo = [s \in Calls |-> {}] /\ check = [s \in Calls |-> AnyCheck]
  /\ argv = [s \in Calls |-> NoDef] /\ child = [s \in Calls |-> "none"]
  /\ results = [s \in Calls |-> Nothing]
  /\ ran = [s \in Calls |-> [c \in Checks |-> NoDef]]

-----------------------------------------------------------------------------
(* The policy store.                                                        *)

\* execution_definitions has one row for a check id: registering replaces it.
registerDefinition(d) ==
  /\ bound' = [bound EXCEPT ![CheckOf[d]] = d]
  /\ UNCHANGED <<frozen, jobOf, status, executions, callVars>>

\* POLICY_VERSION_IMMUTABLE: another policy of the same version is refused.
registerPolicy(p) ==
  /\ \A q \in frozen : VersionOf[q] = VersionOf[p] => q = p
  /\ frozen' = frozen \cup {p}
  /\ UNCHANGED <<bound, jobOf, status, executions, callVars>>

\* The definition bound to the check if it is the policy's, else none: the
\* mismatch and the missing row are PolicyErrors.
resolveAnyDefinition(p, c) == bound[c]
resolve(p, c) == IF bound[c] = DefIn[p][c] THEN bound[c] ELSE NoDef

selectAsRequested(p, requested) == requested
selectChecks(p, requested) == Required[p] \cup (requested \cap Listed(p))

\* recordJob answers a known key of the same candidate with its job, whatever
\* the job's status, and refuses it for another candidate.
AdmitsAny(k, c) == TRUE
Admits(k, c) == jobOf[k] \in {c, NoCandidate}
OpenedLater(k) == status
Opened(k) == [status EXCEPT ![k] = IF jobOf[k] = NoCandidate THEN "RUNNING" ELSE @]

-----------------------------------------------------------------------------
(* A call of verify.                                                        *)

\* What the loop does up to its next await: take the next check of rest and
\* resolve it.  The order of the policy's checks is left open.
Await(s, p, rest) ==
  /\ pc' = [pc EXCEPT ![s] = "executing"]
  /\ todo' = [todo EXCEPT ![s] = rest]
  /\ \E c \in rest :
       /\ check' = [check EXCEPT ![s] = c]
       /\ argv' = [argv EXCEPT ![s] = resolve(p, c)]
       /\ child' = [child EXCEPT ![s] = IF resolve(p, c) = NoDef THEN "none" ELSE "running"]

\* integrity_passed: no result is a blocking finding.
BlockingIgnored(seen) == TRUE
Unblocked(seen) == \A c \in Checks : seen[c] \in {"PASSED", "NONE"}

\* What the loop does when no check is left: finishJob and the evidence.
Return(s, k, seen) ==
  /\ pc' = [pc EXCEPT ![s] = "done"]
  /\ todo' = [todo EXCEPT ![s] = {}]
  /\ check' = [check EXCEPT ![s] = AnyCheck]
  /\ argv' = [argv EXCEPT ![s] = NoDef]
  /\ child' = [child EXCEPT ![s] = "none"]
  /\ status' = [status EXCEPT ![k] = IF Unblocked(seen) THEN "COMPLETE" ELSE "REJECTED"]

\* The policy checks, recordJob and selectChecks, up to the first await.
verify(s, k, c) ==
  LET p == PolicyOf[c] IN
  /\ pc[s] # "executing" /\ p \in frozen /\ Admits(k, c)
  /\ jobOf' = [jobOf EXCEPT ![k] = c]
  /\ key' = [key EXCEPT ![s] = k] /\ cand' = [cand EXCEPT ![s] = c]
  /\ results' = [results EXCEPT ![s] = Nothing]
  /\ ran' = [ran EXCEPT ![s] = [x \in Checks |-> NoDef]]
  /\ \E requested \in SUBSET Checks :
       IF selectChecks(p, requested) = {}
       THEN Return(s, k, Nothing)
       ELSE Await(s, p, selectChecks(p, requested)) /\ status' = Opened(k)
  /\ UNCHANGED <<frozen, bound, executions>>

\* A child killed at its deadline never passes.
StatusOf(how) == IF how = "killed" THEN {"FAILED"} ELSE Statuses

\* The checks left after the present one.
RemainingForever(s) == todo[s]
Remaining(s) == todo[s] \ {check[s]}

\* The awaited execution answers: recordExecution replaces the row of the
\* definition, and the loop goes on.
closeChild(s) ==
  \E st \in StatusOf(child[s]) :
    LET p == PolicyOf[cand[s]]
        k == key[s]
        seen == [results[s] EXCEPT ![check[s]] = st] IN
    /\ pc[s] = "executing" /\ child[s] \in {"running", "killed"}
    /\ results' = [results EXCEPT ![s] = seen]
    /\ ran' = [ran EXCEPT ![s] = [@ EXCEPT ![check[s]] = argv[s]]]
    /\ executions' = [executions EXCEPT ![k] = [@ EXCEPT ![DefIn[p][check[s]]] = st]]
    /\ IF Remaining(s) = {}
       THEN Return(s, k, seen)
       ELSE Await(s, p, Remaining(s)) /\ UNCHANGED status
    /\ UNCHANGED <<frozen, bound, jobOf, key, cand>>

\* The deadline kills the process group.
deadline(s) ==
  /\ child[s] = "running"
  /\ child' = [child EXCEPT ![s] = "killed"]
  /\ UNCHANGED <<storeVars, pc, key, cand, todo, check, argv, results, ran>>

\* The check has started a process in a group of its own that keeps the pipes
\* open and does not end: no 'close' comes, before or after the deadline.
detach(s) ==
  /\ child[s] = "running"
  /\ child' = [child EXCEPT ![s] = "held"]
  /\ UNCHANGED <<storeVars, pc, key, cand, todo, check, argv, results, ran>>

\* The calls of S end without evidence: their locals are gone.
End(S) ==
  /\ pc' = [s \in Calls |-> IF s \in S THEN "idle" ELSE pc[s]]
  /\ key' = [s \in Calls |-> IF s \in S THEN AnyKey ELSE key[s]]
  /\ cand' = [s \in Calls |-> IF s \in S THEN AnyCandidate ELSE cand[s]]
  /\ todo' = [s \in Calls |-> IF s \in S THEN {} ELSE todo[s]]
  /\ check' = [s \in Calls |-> IF s \in S THEN AnyCheck ELSE check[s]]
  /\ argv' = [s \in Calls |-> IF s \in S THEN NoDef ELSE argv[s]]
  /\ child' = [s \in Calls |-> IF s \in S THEN "none" ELSE child[s]]
  /\ results' = [s \in Calls |-> IF s \in S THEN Nothing ELSE results[s]]
  /\ ran' = [s \in Calls |-> IF s \in S THEN [c \in Checks |-> NoDef] ELSE ran[s]]
  /\ UNCHANGED storeVars

\* A check that did not resolve is recorded under a digest of zeros, which the
\* foreign key of check_executions refuses: the call throws, the job stays.
throwUnresolved(s) == pc[s] = "executing" /\ argv[s] = NoDef /\ End({s})

\* The process ends: every call is gone, the rows stay.
restart == (\E s \in Calls : pc[s] # "idle") /\ End(Calls)

VerNext ==
  \/ \E d \in Defs : registerDefinition(d)
  \/ \E p \in Policies : registerPolicy(p)
  \/ \E s \in Calls : \/ \E k \in Keys, c \in Candidates : verify(s, k, c)
                      \/ closeChild(s) \/ throwUnresolved(s) \/ deadline(s) \/ detach(s)
  \/ restart

VerSpec == VerInit /\ [][VerNext]_verVars

\* The timer fires, a killed group closes its pipes, and a call that can go on
\* does.  A check is not assumed to end by itself.
VerFairSpec ==
  /\ VerSpec
  /\ \A s \in Calls : /\ WF_verVars(deadline(s))
                      /\ WF_verVars(child[s] = "killed" /\ closeChild(s))
                      /\ WF_verVars(throwUnresolved(s))

-----------------------------------------------------------------------------
(* Properties.                                                              *)

\* decide: the readiness predicate over the evidence a call returned.
Verified(s) ==
  LET p == PolicyOf[cand[s]] IN
  /\ pc[s] = "done" /\ Unblocked(results[s])
  /\ Required[p] # {}
  /\ \A c \in Required[p] : results[s][c] = "PASSED"
  /\ \A c \in Checks : results[s][c] # "NONE" => DefIn[p][c] # NoDef

\* VERIFIED_FOR_SCOPE means that this very call executed the definition the
\* candidate's policy names for each required check, whatever was registered,
\* replayed or restarted meanwhile: the evidence names the policy's definition
\* even where the store has another one by now.
VerifiedRanPolicy ==
  \A s \in Calls : Verified(s) =>
    \A c \in Required[PolicyOf[cand[s]]] : ran[s][c] = DefIn[PolicyOf[cand[s]]][c]

\* A job becomes COMPLETE only at the end of a call of that job that passed
\* every required check of the job's policy, which is the job's for good.
CompleteIsEarned ==
  [][\A k \in Keys :
       /\ status[k] # "COMPLETE" /\ status'[k] = "COMPLETE" =>
            \E s \in Calls :
              /\ key'[s] = k /\ cand'[s] = jobOf'[k] /\ pc'[s] = "done"
              /\ \A c \in Required[PolicyOf[jobOf'[k]]] : results'[s][c] = "PASSED"
       /\ jobOf[k] # NoCandidate => jobOf'[k] = jobOf[k]]_verVars

\* A call of verify ends, with evidence or with an error, unless a process that
\* left the group of its check holds the pipes: whatever the checks do, and
\* though other calls, registrations and the same key interfere.
CallsEndUnlessHeld ==
  \A s \in Calls : pc[s] = "executing" ~> pc[s] # "executing" \/ child[s] = "held"

\* "own process group, so the deadline can reach the whole tree"
\* (executor.ts:199): every call ends.  The code does not keep this.
CallsEnd == \A s \in Calls : pc[s] = "executing" ~> pc[s] # "executing"
=============================================================================
