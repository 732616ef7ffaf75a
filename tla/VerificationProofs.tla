------------------------- MODULE VerificationProofs -------------------------
(***************************************************************************)
(* Proofs about Verification, for any checks, policies, candidates, keys   *)
(* and concurrent calls.                                                   *)
(***************************************************************************)
EXTENDS Verification, TLAPS

\* A call works for the candidate its job was recorded for.
CallOfItsJob == \A s \in Calls : pc[s] # "idle" => jobOf[key[s]] = cand[s]

\* What is being executed is the definition the candidate's policy names.
ExecutesListed ==
  \A s \in Calls : child[s] \in {"running", "killed"} =>
    argv[s] = DefIn[PolicyOf[cand[s]]][check[s]]

\* So was what has a result.
ResultsOfListed ==
  \A s \in Calls, c \in Checks : results[s][c] # "NONE" =>
    ran[s][c] = DefIn[PolicyOf[cand[s]]][c]

\* A required check has a result or is still to be run.
NothingSkipped ==
  \A s \in Calls : pc[s] # "idle" => \A c \in Required[PolicyOf[cand[s]]] :
    results[s][c] = "NONE" => pc[s] = "executing" /\ c \in todo[s]

\* The inductive invariant.
VerInv == VerTypeOK /\ CallOfItsJob /\ ExecutesListed /\ ResultsOfListed /\ NothingSkipped

\* The locals of no call are well formed.
LEMMA DefaultsTyped == AnyKey \in Keys /\ AnyCandidate \in Candidates /\ AnyCheck \in Checks
  BY VerificationConstantsOK DEF AnyKey, AnyCandidate, AnyCheck

\* resolve answers a definition the policy lists for that check, or none.
LEMMA ResolveListed ==
  ASSUME VerTypeOK, NEW p \in Policies, NEW c \in Checks
  PROVE /\ resolve(p, c) \in Defs \cup {NoDef}
        /\ resolve(p, c) # NoDef => resolve(p, c) = DefIn[p][c]
  BY DEF resolve, VerTypeOK

\* The policy checks of a request and its extras are checks.
LEMMA SelectedAreChecks ==
  ASSUME NEW p \in Policies, NEW requested \in SUBSET Checks
  PROVE /\ selectChecks(p, requested) \in SUBSET Checks
        /\ Required[p] \subseteq selectChecks(p, requested)
  BY VerificationConstantsOK DEF selectChecks, Listed

LEMMA InitInv == VerInit => VerInv
<1> SUFFICES ASSUME VerInit PROVE VerInv
  OBVIOUS
<1>1. VerTypeOK
  BY DefaultsTyped DEF VerInit, VerTypeOK, Nothing, Statuses
<1>2. CallOfItsJob /\ ExecutesListed /\ ResultsOfListed /\ NothingSkipped
  BY DEF VerInit, CallOfItsJob, ExecutesListed, ResultsOfListed, NothingSkipped, Nothing
<1> QED
  BY <1>1, <1>2 DEF VerInv

\* What leaves the calls alone and keeps the candidate of every job.
LEMMA StoreStep ==
  ASSUME VerInv, VerTypeOK', UNCHANGED callVars, UNCHANGED jobOf
  PROVE VerInv'
  BY DEF VerInv, callVars, CallOfItsJob, ExecutesListed, ResultsOfListed, NothingSkipped

LEMMA RegisterDefinitionStep ==
  ASSUME VerInv, NEW d \in Defs, registerDefinition(d)
  PROVE VerInv'
<1>1. VerTypeOK'
  BY DEF VerInv, VerTypeOK, registerDefinition, callVars
<1> QED
  BY <1>1, StoreStep DEF registerDefinition

LEMMA RegisterPolicyStep ==
  ASSUME VerInv, NEW p \in Policies, registerPolicy(p)
  PROVE VerInv'
<1>1. VerTypeOK'
  BY DEF VerInv, VerTypeOK, registerPolicy, callVars
<1> QED
  BY <1>1, StoreStep DEF registerPolicy

\* A call begins: with nothing to run it returns at once, otherwise every
\* selected check is still to be run.
LEMMA VerifyStep ==
  ASSUME VerInv, NEW s \in Calls, NEW k \in Keys, NEW c \in Candidates, verify(s, k, c)
  PROVE VerInv'
<1> DEFINE p == PolicyOf[c]
<1> USE DEF VerInv
<1>1. p \in Policies
  BY VerificationConstantsOK
<1>2. PICK requested \in SUBSET Checks :
        IF selectChecks(p, requested) = {}
        THEN Return(s, k, Nothing)
        ELSE Await(s, p, selectChecks(p, requested)) /\ status' = Opened(k)
  BY DEF verify
<1>3. /\ jobOf' = [jobOf EXCEPT ![k] = c]
      /\ key' = [key EXCEPT ![s] = k] /\ cand' = [cand EXCEPT ![s] = c]
      /\ results' = [results EXCEPT ![s] = Nothing]
      /\ ran' = [ran EXCEPT ![s] = [x \in Checks |-> NoDef]]
      /\ frozen' = frozen /\ bound' = bound /\ executions' = executions
      /\ Admits(k, c)
  BY DEF verify
<1>4. /\ selectChecks(p, requested) \in SUBSET Checks
      /\ Required[p] \subseteq selectChecks(p, requested)
  BY <1>1, SelectedAreChecks
<1> HIDE DEF p
<1>5. CASE selectChecks(p, requested) = {}
  <2>1. Return(s, k, Nothing)
    BY <1>2, <1>5
  <2>2. VerTypeOK'
    <3>1. /\ results' \in [Calls -> [Checks -> Statuses \cup {"NONE"}]]
          /\ ran' \in [Calls -> [Checks -> Defs \cup {NoDef}]]
          /\ jobOf' \in [Keys -> Candidates \cup {NoCandidate}]
          /\ status' \in [Keys -> {"NONE", "RUNNING", "COMPLETE", "REJECTED"}]
      BY <1>3, <2>1 DEF VerTypeOK, Return, Nothing
    <3>2. \A j \in Keys : status'[j] = "NONE" <=> jobOf'[j] = NoCandidate
      BY <1>3, <2>1, VerificationConstantsOK DEF VerTypeOK, Return
    <3>3. /\ pc' \in [Calls -> {"idle", "executing", "done"}] /\ todo' \in [Calls -> SUBSET Checks]
          /\ check' \in [Calls -> Checks] /\ argv' \in [Calls -> Defs \cup {NoDef}]
          /\ child' \in [Calls -> {"none", "running", "killed", "held"}]
          /\ key' \in [Calls -> Keys] /\ cand' \in [Calls -> Candidates]
      BY <1>3, <2>1, DefaultsTyped DEF VerTypeOK, Return
    <3>4. \A q \in Calls : pc'[q] = "executing" => check'[q] \in todo'[q]
      BY <2>1 DEF VerTypeOK, Return
    <3>5. frozen' = frozen /\ bound' = bound /\ executions' = executions
      BY <1>3
    <3> QED
      BY <3>1, <3>2, <3>3, <3>4, <3>5 DEF VerTypeOK
  <2>3. CallOfItsJob'
    BY <1>3, <2>1, VerificationConstantsOK DEF CallOfItsJob, Return, VerTypeOK, Admits
  <2>4. ExecutesListed'
    BY <1>3, <2>1 DEF ExecutesListed, Return, VerTypeOK
  <2>5. ResultsOfListed'
    BY <1>3 DEF ResultsOfListed, VerTypeOK, Nothing
  <2>6. NothingSkipped'
    <3>1. ASSUME NEW x \in Calls, pc'[x] # "idle", NEW d \in Required[PolicyOf[cand'[x]]],
                 results'[x][d] = "NONE"
          PROVE  pc'[x] = "executing" /\ d \in todo'[x]
      <4>1. CASE x = s
        <5>1. cand'[x] = c
          BY <1>3, <4>1 DEF VerTypeOK
        <5>2. d \in {}
          BY <1>4, <1>5, <3>1, <5>1 DEF p
        <5> QED BY <5>2
      <4>2. CASE x # s
        <5>1. cand'[x] = cand[x] /\ results'[x] = results[x]
          BY <1>3, <4>2 DEF VerTypeOK
        <5>2. pc'[x] = pc[x] /\ todo'[x] = todo[x]
          BY <2>1, <4>2 DEF VerTypeOK, Return
        <5> QED BY <3>1, <5>1, <5>2 DEF NothingSkipped
      <4> QED BY <4>1, <4>2
    <3> QED BY <3>1 DEF NothingSkipped
  <2> QED
    BY <2>2, <2>3, <2>4, <2>5, <2>6
<1>6. CASE selectChecks(p, requested) # {}
  <2>1. Await(s, p, selectChecks(p, requested)) /\ status' = Opened(k)
    BY <1>2, <1>6
  <2>2. PICK x \in selectChecks(p, requested) :
          /\ check' = [check EXCEPT ![s] = x]
          /\ argv' = [argv EXCEPT ![s] = resolve(p, x)]
          /\ child' = [child EXCEPT ![s] = IF resolve(p, x) = NoDef THEN "none" ELSE "running"]
    BY <2>1 DEF Await
  <2>3. /\ pc' = [pc EXCEPT ![s] = "executing"]
        /\ todo' = [todo EXCEPT ![s] = selectChecks(p, requested)]
    BY <2>1 DEF Await
  <2>4. /\ resolve(p, x) \in Defs \cup {NoDef}
        /\ resolve(p, x) # NoDef => resolve(p, x) = DefIn[p][x]
    BY <1>1, <1>4, <2>2, ResolveListed
  <2>5. VerTypeOK'
    BY <1>3, <1>4, <2>1, <2>2, <2>3, <2>4, VerificationConstantsOK
       DEF VerTypeOK, Opened, Nothing, Statuses
  <2>6. CallOfItsJob'
    BY <1>3, <2>3, VerificationConstantsOK DEF CallOfItsJob, VerTypeOK, Admits
  <2>7. ExecutesListed'
    BY <1>3, <2>2, <2>4 DEF ExecutesListed, VerTypeOK, p
  <2>8. ResultsOfListed'
    BY <1>3 DEF ResultsOfListed, VerTypeOK, Nothing
  <2>9. NothingSkipped'
    BY <1>3, <1>4, <2>3 DEF NothingSkipped, VerTypeOK, p
  <2> QED
    BY <2>5, <2>6, <2>7, <2>8, <2>9
<1> QED
  BY <1>5, <1>6

\* An execution answers; the call resolves its next check or returns.
LEMMA CloseChildStep ==
  ASSUME VerInv, NEW s \in Calls, closeChild(s)
  PROVE VerInv'
<1> DEFINE p == PolicyOf[cand[s]]
           k == key[s]
           rest == todo[s] \ {check[s]}
<1> USE DEF VerInv
<1>1. PICK st \in StatusOf(child[s]) :
        LET seen == [results[s] EXCEPT ![check[s]] = st] IN
        /\ pc[s] = "executing" /\ child[s] \in {"running", "killed"}
        /\ results' = [results EXCEPT ![s] = seen]
        /\ ran' = [ran EXCEPT ![s] = [@ EXCEPT ![check[s]] = argv[s]]]
        /\ executions' = [executions EXCEPT ![k] = [@ EXCEPT ![DefIn[p][check[s]]] = st]]
        /\ IF rest = {}
           THEN Return(s, k, seen)
           ELSE Await(s, p, rest) /\ UNCHANGED status
        /\ UNCHANGED <<frozen, bound, jobOf, key, cand>>
  BY DEF closeChild, Remaining
<1> DEFINE seen == [results[s] EXCEPT ![check[s]] = st]
<1>2. /\ p \in Policies /\ k \in Keys /\ st \in Statuses
      /\ rest \in SUBSET Checks /\ check[s] \in todo[s]
  BY <1>1, VerificationConstantsOK DEF VerTypeOK, StatusOf, Statuses
<1>3. seen \in [Checks -> Statuses \cup {"NONE"}]
  BY <1>2 DEF VerTypeOK
<1>4. ResultsOfListed'
  BY <1>1, <1>2 DEF ResultsOfListed, ExecutesListed, VerTypeOK
<1>5. \A c \in Required[p] : results'[s][c] = "NONE" => c \in rest
  BY <1>1, <1>2, VerificationConstantsOK DEF NothingSkipped, VerTypeOK, Statuses, Listed
<1>6. CASE rest = {}
  <2>1. Return(s, k, seen)
    BY <1>1, <1>6
  <2>2. VerTypeOK'
    <3>1. /\ results' \in [Calls -> [Checks -> Statuses \cup {"NONE"}]]
          /\ ran' \in [Calls -> [Checks -> Defs \cup {NoDef}]]
          /\ executions' \in [Keys -> [Defs -> Statuses \cup {"NONE"}]]
      BY <1>1, <1>2, <1>3 DEF VerTypeOK
    <3>2. \A j \in Keys : status'[j] = "NONE" <=> jobOf'[j] = NoCandidate
      <4>1. jobOf[k] # NoCandidate
        <5>1. pc[s] # "idle"
          BY <1>1
        <5>2. cand[s] \in Candidates /\ jobOf[key[s]] = cand[s]
          BY <5>1 DEF VerTypeOK, CallOfItsJob
        <5> QED
          BY <5>2, VerificationConstantsOK
      <4>2. /\ jobOf' = jobOf /\ status'[k] # "NONE"
            /\ \A j \in Keys \ {k} : status'[j] = status[j]
        BY <1>1, <1>2, <2>1 DEF VerTypeOK, Return
      <4> HIDE DEF k
      <4> QED
        BY <1>2, <4>1, <4>2 DEF VerTypeOK
    <3> QED
      BY <1>1, <1>2, <2>1, <3>1, <3>2, DefaultsTyped DEF VerTypeOK, Return
  <2>3. CallOfItsJob'
    BY <1>1, <2>1 DEF CallOfItsJob, Return, VerTypeOK
  <2>4. ExecutesListed'
    BY <1>1, <2>1 DEF ExecutesListed, Return, VerTypeOK
  <2>5. NothingSkipped'
    BY <1>1, <1>5, <1>6, <2>1 DEF NothingSkipped, Return, VerTypeOK
  <2> QED
    BY <1>4, <2>2, <2>3, <2>4, <2>5
<1>7. CASE rest # {}
  <2>1. Await(s, p, rest) /\ UNCHANGED status
    BY <1>1, <1>7
  <2>2. PICK x \in rest :
          /\ check' = [check EXCEPT ![s] = x]
          /\ argv' = [argv EXCEPT ![s] = resolve(p, x)]
          /\ child' = [child EXCEPT ![s] = IF resolve(p, x) = NoDef THEN "none" ELSE "running"]
    BY <2>1 DEF Await
  <2>3. /\ pc' = [pc EXCEPT ![s] = "executing"]
        /\ todo' = [todo EXCEPT ![s] = rest]
    BY <2>1 DEF Await
  <2>4. /\ resolve(p, x) \in Defs \cup {NoDef}
        /\ resolve(p, x) # NoDef => resolve(p, x) = DefIn[p][x]
    BY <1>2, <2>2, ResolveListed
  <2>5. VerTypeOK'
    <3>1. /\ results' \in [Calls -> [Checks -> Statuses \cup {"NONE"}]]
          /\ ran' \in [Calls -> [Checks -> Defs \cup {NoDef}]]
          /\ executions' \in [Keys -> [Defs -> Statuses \cup {"NONE"}]]
      BY <1>1, <1>2, <1>3 DEF VerTypeOK
    <3> QED
      BY <1>1, <1>2, <2>1, <2>2, <2>3, <2>4, <3>1 DEF VerTypeOK
  <2>6. CallOfItsJob'
    BY <1>1, <2>3 DEF CallOfItsJob, VerTypeOK
  <2>7. ExecutesListed'
    BY <1>1, <2>2, <2>4 DEF ExecutesListed, VerTypeOK
  <2>8. NothingSkipped'
    BY <1>1, <1>5, <2>3 DEF NothingSkipped, VerTypeOK
  <2> QED
    BY <1>4, <2>5, <2>6, <2>7, <2>8
<1> QED
  BY <1>6, <1>7

\* The timer and a process that leaves its group touch only the child.
LEMMA ChildStep ==
  ASSUME VerInv, NEW s \in Calls, deadline(s) \/ detach(s)
  PROVE VerInv'
<1>1. VerTypeOK'
  BY DEF VerInv, VerTypeOK, deadline, detach, storeVars
<1>2. CallOfItsJob' /\ ResultsOfListed' /\ NothingSkipped'
  BY DEF VerInv, CallOfItsJob, ResultsOfListed, NothingSkipped, deadline, detach, storeVars
<1>3. ExecutesListed'
  BY DEF VerInv, ExecutesListed, VerTypeOK, deadline, detach, storeVars
<1> QED
  BY <1>1, <1>2, <1>3 DEF VerInv

\* Calls that end without evidence leave nothing behind.
LEMMA EndStep ==
  ASSUME VerInv, NEW S \in SUBSET Calls, End(S)
  PROVE VerInv'
<1>1. VerTypeOK'
  BY DefaultsTyped DEF VerInv, VerTypeOK, End, storeVars, Nothing
<1>2. CallOfItsJob' /\ ExecutesListed' /\ NothingSkipped'
  BY DEF VerInv, CallOfItsJob, ExecutesListed, NothingSkipped, End, storeVars
<1>3. ResultsOfListed'
  BY DEF VerInv, ResultsOfListed, End, storeVars, Nothing
<1> QED
  BY <1>1, <1>2, <1>3 DEF VerInv

LEMMA NextInv == VerInv /\ [VerNext]_verVars => VerInv'
<1> SUFFICES ASSUME VerInv, [VerNext]_verVars PROVE VerInv'
  OBVIOUS
<1>1. ASSUME NEW d \in Defs, registerDefinition(d) PROVE VerInv'
  BY <1>1, RegisterDefinitionStep
<1>2. ASSUME NEW p \in Policies, registerPolicy(p) PROVE VerInv'
  BY <1>2, RegisterPolicyStep
<1>3. ASSUME NEW s \in Calls, NEW k \in Keys, NEW c \in Candidates, verify(s, k, c) PROVE VerInv'
  BY <1>3, VerifyStep
<1>4. ASSUME NEW s \in Calls, closeChild(s) PROVE VerInv'
  BY <1>4, CloseChildStep
<1>5. ASSUME NEW s \in Calls, deadline(s) \/ detach(s) PROVE VerInv'
  BY <1>5, ChildStep
<1>6. ASSUME NEW s \in Calls, throwUnresolved(s) PROVE VerInv'
  BY <1>6, EndStep DEF throwUnresolved
<1>7. CASE restart
  BY <1>7, EndStep DEF restart
<1>8. CASE UNCHANGED verVars
  <2>1. VerTypeOK'
    BY <1>8 DEF VerInv, VerTypeOK, verVars, storeVars, callVars
  <2> QED
    BY <1>8, <2>1, StoreStep DEF verVars, storeVars
<1> QED
  BY <1>1, <1>2, <1>3, <1>4, <1>5, <1>6, <1>7, <1>8 DEF VerNext

\* The inductive invariant holds whatever is registered, retried or restarted.
THEOREM VerInvariant == VerSpec => []VerInv
  BY InitInv, NextInv, PTL DEF VerSpec

\* Types of the policy store, the jobs and the calls (verifier.sql).
THEOREM VerTypes == VerSpec => []VerTypeOK
<1>1. VerInv => VerTypeOK
  BY DEF VerInv
<1> QED
  BY <1>1, VerInvariant, PTL

\* VERIFIED_FOR_SCOPE rests on executions of the very definitions the policy
\* names (resolve in policy.ts, #runCheck in coordinator.ts).
THEOREM VerdictSound == VerSpec => []VerifiedRanPolicy
<1>1. VerInv => VerifiedRanPolicy
  BY VerificationConstantsOK DEF VerInv, VerifiedRanPolicy, Verified, ResultsOfListed, VerTypeOK, Listed
<1> QED
  BY <1>1, VerInvariant, PTL

\* Only a call that ended with every required check passed completes a job,
\* and a job never changes its candidate (recordJob and finishJob, policy.ts).
THEOREM CompletionSound == VerSpec => CompleteIsEarned
<1> DEFINE Kept == \A k \in Keys : jobOf[k] # NoCandidate => jobOf'[k] = jobOf[k]
           Earned == \A k \in Keys :
             status[k] # "COMPLETE" /\ status'[k] = "COMPLETE" =>
               \E s \in Calls :
                 /\ key'[s] = k /\ cand'[s] = jobOf'[k] /\ pc'[s] = "done"
                 /\ \A c \in Required[PolicyOf[jobOf'[k]]] : results'[s][c] = "PASSED"
<1>1. ASSUME VerInv, VerInv', [VerNext]_verVars PROVE Kept
  <2>1. ASSUME NEW s \in Calls, NEW k \in Keys, NEW c \in Candidates, verify(s, k, c) PROVE Kept
    BY <1>1, <2>1 DEF verify, Admits, VerInv, VerTypeOK
  <2>2. ASSUME NEW s \in Calls, closeChild(s) PROVE Kept
    BY <2>2 DEF closeChild
  <2>3. CASE UNCHANGED jobOf
    BY <2>3
  <2> HIDE DEF Kept
  <2> QED
    BY <1>1, <2>1, <2>2, <2>3 DEF VerNext, registerDefinition, registerPolicy, deadline, detach,
       throwUnresolved, restart, End, verVars, storeVars
<1>2. ASSUME NEW s \in Calls, NEW k \in Keys, NEW seen, VerInv, VerInv', Return(s, k, seen),
             results'[s] = seen, key'[s] = k
      PROVE Earned
  <2>1. /\ pc'[s] = "done" /\ cand'[s] = jobOf'[k]
        /\ \A j \in Keys \ {k} : status'[j] = status[j]
        /\ status'[k] = "COMPLETE" => Unblocked(seen)
    BY <1>2 DEF Return, VerInv, VerTypeOK, CallOfItsJob
  <2>2. \A c \in Required[PolicyOf[cand'[s]]] : seen[c] # "NONE" /\ c \in Checks
    <3>1. PolicyOf[cand'[s]] \in Policies
      BY <1>2, VerificationConstantsOK DEF VerInv, VerTypeOK
    <3>2. \A c \in Required[PolicyOf[cand'[s]]] : seen[c] # "NONE"
      BY <1>2, <2>1 DEF VerInv, NothingSkipped
    <3> QED
      BY <3>1, <3>2, VerificationConstantsOK DEF Listed
  <2> QED
    BY <1>2, <2>1, <2>2 DEF Unblocked
<1>3. ASSUME VerInv, VerInv', [VerNext]_verVars PROVE Earned
  <2>1. ASSUME NEW s \in Calls, NEW k \in Keys, NEW c \in Candidates, verify(s, k, c) PROVE Earned
    <3>1. CASE Return(s, k, Nothing)
      <4>1. results'[s] = Nothing /\ key'[s] = k
        BY <1>3, <2>1 DEF verify, VerInv, VerTypeOK
      <4> HIDE DEF Earned
      <4> QED
        BY <1>2, <1>3, <3>1, <4>1
    <3>2. CASE status' = Opened(k)
      BY <1>3, <2>1, <3>2 DEF Opened, VerInv, VerTypeOK
    <3> QED
      BY <2>1, <3>1, <3>2 DEF verify
  <2>2. ASSUME NEW s \in Calls, closeChild(s) PROVE Earned
    <3>1. PICK st : LET seen == [results[s] EXCEPT ![check[s]] = st] IN
            /\ results' = [results EXCEPT ![s] = seen]
            /\ Return(s, key[s], seen) \/ UNCHANGED status
            /\ key' = key
      BY <2>2 DEF closeChild
    <3>2. CASE UNCHANGED status
      BY <3>2
    <3>3. CASE Return(s, key[s], [results[s] EXCEPT ![check[s]] = st])
      <4> DEFINE seen == [results[s] EXCEPT ![check[s]] = st]
      <4>1. key[s] \in Keys
        BY <1>3 DEF VerInv, VerTypeOK
      <4>2. results'[s] = seen /\ key'[s] = key[s]
        BY <1>3, <3>1 DEF VerInv, VerTypeOK
      <4>3. Return(s, key[s], seen)
        BY <3>3
      <4> HIDE DEF seen, Earned
      <4> QED BY <1>2, <1>3, <4>1, <4>2, <4>3
    <3> QED
      BY <3>1, <3>2, <3>3
  <2>3. CASE UNCHANGED status
    BY <2>3
  <2> QED
    BY <1>3, <2>1, <2>2, <2>3 DEF VerNext, registerDefinition, registerPolicy, deadline, detach,
       throwUnresolved, restart, End, verVars, storeVars
<1>4. VerInv /\ VerInv' /\ [VerNext]_verVars =>
        \A k \in Keys :
       /\ status[k] # "COMPLETE" /\ status'[k] = "COMPLETE" =>
            \E s \in Calls :
              /\ key'[s] = k /\ cand'[s] = jobOf'[k] /\ pc'[s] = "done"
              /\ \A c \in Required[PolicyOf[jobOf'[k]]] : results'[s][c] = "PASSED"
       /\ jobOf[k] # NoCandidate => jobOf'[k] = jobOf[k]
  BY <1>1, <1>3
<1> QED
  BY <1>4, VerInvariant, PTL DEF VerSpec, CompleteIsEarned
=============================================================================
