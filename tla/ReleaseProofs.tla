---------------------------- MODULE ReleaseProofs ----------------------------
(***************************************************************************)
(* Proofs about the way to a promotion.  Release: what a row, a request on  *)
(* its way and the destination have to do with the grants that were spent,  *)
(* for any keys, artifacts, grants and overlapping calls.  Authority:       *)
(* deciding requests, one statement after another, is a release whose       *)
(* grants come from somewhere, so what is proved of Release holds behind    *)
(* it, and every grant goes back to a request.  Evidence: what a verdict    *)
(* and an attestation rest on, for any issuers, candidates, digests and     *)
(* order of revocations and restarts.                                       *)
(***************************************************************************)
EXTENDS Authority, Evidence, FiniteSetTheorems, TLAPS

Rows == [status : Statuses, op : BOOLEAN,
         grant : Grants \cup {NoGrant}, artifact : Artifacts \cup {NoArtifact}]

\* The row of a key names the grant that was spent on it, which names no other
\* artifact, and what its caller attested.
RowsApproved ==
  \A k \in Keys : Inserted(k) =>
    /\ deployments[k].grant \in consumed
    /\ GrantFor[deployments[k].grant] \in {deployments[k].artifact, NoArtifact}
    /\ <<k, deployments[k].artifact>> \in Attested

GrantsDistinct ==
  \A j, k \in Keys :
    Inserted(j) /\ Inserted(k) /\ deployments[j].grant = deployments[k].grant => j = k

CallsHaveRows ==
  \A s \in Slots : calls[s] # Idle =>
    /\ Inserted(calls[s].key)
    /\ calls[s].awaits = "found" => Reached(calls[s].key, "deploy")

Sent(k, kind, x) == <<k, kind, x>> \in net \/ dest[k][kind] = x

EffectsHaveRows ==
  /\ \A k \in Keys, kind \in Kinds, x \in Artifacts : Sent(k, kind, x) => Inserted(k)
  /\ \A k \in Keys : deployments[k].op => Reached(k, "deploy")

SafetyInv ==
  /\ ReleaseTypeOK
  /\ RowsApproved
  /\ GrantsDistinct
  /\ CallsHaveRows
  /\ EffectsHaveRows

-----------------------------------------------------------------------------
(* Writes of a row *)

LEMMA OperationWrite ==
  ASSUME ReleaseTypeOK, NEW k \in Keys, RecordOperation(k)
  PROVE  /\ deployments' \in [Keys -> Rows]
         /\ \A j \in Keys :
              /\ deployments'[j].status = deployments[j].status
              /\ deployments'[j].grant = deployments[j].grant
              /\ deployments'[j].artifact = deployments[j].artifact
              /\ deployments'[j].op => j = k \/ deployments[j].op
<1>1. deployments \in [Keys -> Rows]
  BY DEF ReleaseTypeOK, Rows
<1>2. deployments[k] \in Rows
  BY <1>1
<1> DEFINE row == [deployments[k] EXCEPT !.op = TRUE]
<1>3. /\ row \in Rows /\ row.status = deployments[k].status
      /\ row.grant = deployments[k].grant /\ row.artifact = deployments[k].artifact
  BY <1>2 DEF Rows
<1>4. deployments' = [deployments EXCEPT ![k] = row]
  BY DEF RecordOperation
<1> HIDE DEF row
<1> QED BY <1>1, <1>3, <1>4

LEMMA StatusWrite ==
  ASSUME ReleaseTypeOK, NEW k \in Keys, NEW st \in Statuses \ {"NONE"}, SetStatus(k, st),
         Inserted(k)
  PROVE  /\ deployments' \in [Keys -> Rows]
         /\ \A j \in Keys :
              /\ Inserted(j)' = Inserted(j)
              /\ deployments'[j].grant = deployments[j].grant
              /\ deployments'[j].artifact = deployments[j].artifact
              /\ deployments'[j].op = deployments[j].op
<1>1. deployments \in [Keys -> Rows]
  BY DEF ReleaseTypeOK, Rows
<1>2. deployments[k] \in Rows
  BY <1>1
<1> DEFINE row == [deployments[k] EXCEPT !.status = st]
<1>3. /\ row \in Rows /\ row.status = st /\ row.op = deployments[k].op
      /\ row.grant = deployments[k].grant /\ row.artifact = deployments[k].artifact
  BY <1>2 DEF Rows
<1>4. deployments' = [deployments EXCEPT ![k] = row]
  BY DEF SetStatus
<1> HIDE DEF row
<1> QED BY <1>1, <1>3, <1>4 DEF Inserted

\* A step that inserts no row and takes no grant back disturbs neither the
\* approval of the rows nor that their grants are distinct.
RowsKept ==
  /\ consumed \subseteq consumed'
  /\ \A j \in Keys :
       /\ Inserted(j)' = Inserted(j)
       /\ deployments'[j].grant = deployments[j].grant
       /\ deployments'[j].artifact = deployments[j].artifact

LEMMA KeptRowsApproved ==
  ASSUME RowsApproved, GrantsDistinct, RowsKept
  PROVE  RowsApproved' /\ GrantsDistinct'
<1>1. RowsApproved'
  BY DEF RowsApproved, RowsKept
<1>2. GrantsDistinct'
  BY DEF GrantsDistinct, RowsKept
<1> QED BY <1>1, <1>2

LEMMA UnchangedRowsKept ==
  ASSUME UNCHANGED deployments, consumed \subseteq consumed'
  PROVE  RowsKept
  BY DEF RowsKept, Inserted

LEMMA IdleIsNoCall ==
  /\ Idle.awaits = "nothing"
  /\ \A k \in Keys, w \in {"promote", "rollback", "lookup", "found", "probes"} :
       [awaits |-> w, key |-> k] # Idle /\ [awaits |-> w, key |-> k] \in Calls
  BY DEF Idle, Calls

LEMMA CallHasKey ==
  ASSUME ReleaseTypeOK, NEW s \in Slots, calls[s] # Idle
  PROVE  calls[s].key \in Keys
  BY DEF ReleaseTypeOK, Calls

LEMMA CallEnds ==
  ASSUME ReleaseTypeOK, NEW s \in Slots, Ends(s)
  PROVE  /\ calls' \in [Slots -> Calls]
         /\ \A t \in Slots : calls'[t] # Idle => calls'[t] = calls[t]
  BY DEF ReleaseTypeOK, Ends, Calls

-----------------------------------------------------------------------------
(* The handlers *)

LEMMA NewRow ==
  ASSUME SafetyInv, NEW k \in Keys, NEW g \in Grants, NEW x \in Artifacts,
         NEW action, NEW named, DeployScope(action, named, x),
         <<k, x>> \in Attested, ~Inserted(k), Consume(g, action, named),
         deployments' = [deployments EXCEPT ![k] =
           [status |-> "DEPLOYING", op |-> FALSE, grant |-> g, artifact |-> x]]
  PROVE  /\ deployments' \in [Keys -> Rows]
         /\ \A j \in Keys : deployments'[j].op => deployments[j].op
         /\ \A j \in Keys : Inserted(j) => Inserted(j)'
         /\ Inserted(k)'
         /\ RowsApproved' /\ GrantsDistinct'
<1> DEFINE row == [status |-> "DEPLOYING", op |-> FALSE, grant |-> g, artifact |-> x]
<1>1. row \in Rows /\ row.status = "DEPLOYING" /\ ~row.op /\ row.grant = g /\ row.artifact = x
  BY DEF Rows, Statuses
<1>2. deployments \in [Keys -> Rows] /\ deployments' = [deployments EXCEPT ![k] = row]
  BY DEF SafetyInv, ReleaseTypeOK, Rows
<1> HIDE DEF row
<1>3. /\ deployments' \in [Keys -> Rows] /\ deployments'[k] = row
      /\ \A j \in Keys : j # k => deployments'[j] = deployments[j]
  BY <1>1, <1>2
<1>4. /\ g \notin consumed /\ consumed' = consumed \cup {g}
      /\ GrantFor[g] \in {x, NoArtifact}
  BY DEF Consume, InScope, DeployScope
<1>5. \A j \in Keys : Inserted(j)' <=> j = k \/ Inserted(j)
  BY <1>1, <1>3 DEF Inserted
<1>6. RowsApproved'
  BY <1>1, <1>3, <1>4, <1>5 DEF SafetyInv, RowsApproved
<1>7. \A j \in Keys : Inserted(j) => deployments[j].grant # g
  BY <1>4 DEF SafetyInv, RowsApproved
<1>8. GrantsDistinct'
  BY <1>1, <1>3, <1>5, <1>7 DEF SafetyInv, GrantsDistinct
<1> QED BY <1>1, <1>3, <1>5, <1>6, <1>8

LEMMA DeployNewSafe ==
  ASSUME SafetyInv, NEW s \in Slots, NEW k \in Keys, NEW g \in Grants, NEW x \in Artifacts,
         NEW action, NEW named, DeployNew(s, k, g, x, action, named)
  PROVE  SafetyInv'
<1>1. /\ deployments' \in [Keys -> Rows]
      /\ \A j \in Keys : deployments'[j].op => deployments[j].op
      /\ \A j \in Keys : Inserted(j) => Inserted(j)'
      /\ Inserted(k)' /\ RowsApproved' /\ GrantsDistinct'
  BY NewRow DEF DeployNew
<1>c. calls' \in [Slots -> Calls]
  BY IdleIsNoCall DEF SafetyInv, ReleaseTypeOK, DeployNew
<1>n. net' \subseteq Keys \X Kinds \X Artifacts
  BY DEF SafetyInv, ReleaseTypeOK, DeployNew, Kinds
<1>2. ReleaseTypeOK'
  BY <1>1, <1>c, <1>n DEF SafetyInv, ReleaseTypeOK, DeployNew, Consume, InScope, Rows
<1>3. CallsHaveRows'
  BY <1>1, CallHasKey DEF SafetyInv, CallsHaveRows, ReleaseTypeOK, DeployNew, Reached
<1>4. EffectsHaveRows'
  BY <1>1 DEF SafetyInv, EffectsHaveRows, Sent, DeployNew, Reached
<1> QED BY <1>1, <1>2, <1>3, <1>4 DEF SafetyInv

LEMMA DeployDiesSafe ==
  ASSUME SafetyInv, NEW k \in Keys, NEW g \in Grants, NEW x \in Artifacts, NEW intent \in BOOLEAN,
         NEW action, NEW named, DeployDies(k, g, x, action, named, intent)
  PROVE  SafetyInv'
<1>1. calls' \in [Slots -> Calls] /\ \A s \in Slots : calls'[s] = Idle
  BY DEF DeployDies, Calls
<1>2. CallsHaveRows'
  BY <1>1 DEF CallsHaveRows
<1>3. /\ deployments' \in [Keys -> Rows]
      /\ \A j \in Keys : deployments'[j].op => deployments[j].op
      /\ \A j \in Keys : Inserted(j) => Inserted(j)'
      /\ RowsApproved' /\ GrantsDistinct'
  <2>1. CASE intent
    BY <2>1, NewRow DEF DeployDies
  <2>2. CASE ~intent
    BY <2>2, UnchangedRowsKept, KeptRowsApproved
    DEF DeployDies, SafetyInv, ReleaseTypeOK, Rows, Consume, Inserted
  <2> QED BY <2>1, <2>2
<1>4. ReleaseTypeOK'
  BY <1>1, <1>3 DEF SafetyInv, ReleaseTypeOK, DeployDies, Consume, InScope, Rows
<1>5. EffectsHaveRows'
  BY <1>3 DEF SafetyInv, EffectsHaveRows, Sent, DeployDies, Reached
<1> QED BY <1>2, <1>3, <1>4, <1>5 DEF SafetyInv

\* What a call that only waits for something else, or asks again, leaves alone.
LEMMA CallStarts ==
  ASSUME SafetyInv, NEW s \in Slots, NEW k \in Keys, Inserted(k),
         NEW w \in {"promote", "rollback", "lookup", "probes"},
         calls' = [calls EXCEPT ![s] = [awaits |-> w, key |-> k]],
         UNCHANGED <<deployments, dest>>
  PROVE  calls' \in [Slots -> Calls] /\ CallsHaveRows'
<1>1. calls' \in [Slots -> Calls]
  BY IdleIsNoCall DEF SafetyInv, ReleaseTypeOK
<1>2. \A t \in Slots : calls'[t] # Idle =>
        \/ calls'[t].key = k /\ calls'[t].awaits # "found"
        \/ calls'[t] = calls[t]
  BY DEF SafetyInv, ReleaseTypeOK
<1>3. CallsHaveRows'
  BY <1>2 DEF SafetyInv, CallsHaveRows, Inserted, Reached
<1> QED BY <1>1, <1>3

LEMMA DeployAgainSafe ==
  ASSUME SafetyInv, NEW s \in Slots, NEW k \in Keys, NEW x \in Artifacts, DeployAgain(s, k, x)
  PROVE  SafetyInv'
<1>1. calls' \in [Slots -> Calls] /\ CallsHaveRows'
  BY CallStarts DEF DeployAgain
<1>2. RowsApproved' /\ GrantsDistinct'
  BY UnchangedRowsKept, KeptRowsApproved DEF SafetyInv, DeployAgain
<1>3. net' \subseteq Keys \X Kinds \X Artifacts
  BY DEF SafetyInv, ReleaseTypeOK, DeployAgain, Kinds
<1>4. ReleaseTypeOK'
  BY <1>1, <1>3 DEF SafetyInv, ReleaseTypeOK, DeployAgain
<1>5. EffectsHaveRows'
  BY DEF SafetyInv, EffectsHaveRows, Sent, DeployAgain, Reached, Inserted
<1> QED BY <1>1, <1>2, <1>4, <1>5 DEF SafetyInv

LEMMA RollbackStartsSafe ==
  ASSUME SafetyInv, NEW s \in Slots, NEW k \in Keys, NEW g \in Grants, RollbackStarts(s, k, g)
  PROVE  SafetyInv'
<1>1. calls' \in [Slots -> Calls] /\ CallsHaveRows'
  BY CallStarts DEF RollbackStarts
<1>2. consumed' = consumed \cup {g} /\ g \in granted
  BY DEF RollbackStarts, Consume, InScope
<1>3. RowsApproved' /\ GrantsDistinct'
  BY <1>2, UnchangedRowsKept, KeptRowsApproved DEF SafetyInv, RollbackStarts
<1>4. deployments[k].artifact \in Artifacts
  BY ReleaseConstantsOK DEF SafetyInv, RowsApproved, RollbackStarts
<1>5. net' \subseteq Keys \X Kinds \X Artifacts
  BY <1>4 DEF SafetyInv, ReleaseTypeOK, RollbackStarts, Kinds
<1>6. ReleaseTypeOK'
  BY <1>1, <1>2, <1>5 DEF SafetyInv, ReleaseTypeOK, RollbackStarts
<1>7. EffectsHaveRows'
  BY DEF SafetyInv, EffectsHaveRows, Sent, RollbackStarts, Reached, Inserted
<1> QED BY <1>1, <1>3, <1>6, <1>7 DEF SafetyInv

LEMMA LooksSafe ==
  ASSUME SafetyInv, NEW s \in Slots, NEW k \in Keys, ReconcileStarts(s, k) \/ SmokeStarts(s, k)
  PROVE  SafetyInv'
<1>0. UNCHANGED <<granted, expired, consumed, deployments, net, dest>>
  BY DEF ReconcileStarts, SmokeStarts
<1>1. calls' \in [Slots -> Calls] /\ CallsHaveRows'
  BY CallStarts DEF ReconcileStarts, SmokeStarts
<1> QED
  BY <1>0, <1>1 DEF SafetyInv, ReleaseTypeOK, RowsApproved, GrantsDistinct, EffectsHaveRows,
                    Sent, Reached, Inserted

\* A call that ends leaves the others what they were.
LEMMA EndKeepsCalls ==
  ASSUME SafetyInv, NEW s \in Slots, Ends(s), UNCHANGED dest,
         \A k \in Keys : Inserted(k)' = Inserted(k)
  PROVE  calls' \in [Slots -> Calls] /\ CallsHaveRows'
<1>1. /\ calls' \in [Slots -> Calls]
      /\ \A t \in Slots : calls'[t] # Idle => calls'[t] = calls[t]
  BY CallEnds DEF SafetyInv
<1>2. CallsHaveRows'
  BY <1>1, CallHasKey DEF SafetyInv, CallsHaveRows, Reached
<1> QED BY <1>1, <1>2

LEMMA OperationReturnsSafe ==
  ASSUME SafetyInv, NEW s \in Slots, PromoteReturns(s) \/ ReconcileReturns(s)
  PROVE  SafetyInv'
<1> DEFINE k == calls[s].key
<1>1. /\ UNCHANGED <<granted, expired, consumed, net, dest>>
      /\ RecordOperation(k) /\ Ends(s) /\ calls[s].awaits \in {"promote", "found"}
  BY DEF PromoteReturns, ReconcileReturns
<1>2. calls[s] # Idle /\ k \in Keys
  BY <1>1, CallHasKey DEF Idle, SafetyInv
<1>3. Reached(k, "deploy")
  BY <1>2 DEF PromoteReturns, ReconcileReturns, SafetyInv, CallsHaveRows
<1> HIDE DEF k
<1>4. /\ deployments' \in [Keys -> Rows]
      /\ \A j \in Keys :
           /\ deployments'[j].status = deployments[j].status
           /\ deployments'[j].grant = deployments[j].grant
           /\ deployments'[j].artifact = deployments[j].artifact
           /\ deployments'[j].op => j = k \/ deployments[j].op
  BY <1>1, <1>2, OperationWrite DEF SafetyInv
<1>5. \A j \in Keys : Inserted(j)' = Inserted(j)
  BY <1>4 DEF Inserted
<1>6. RowsApproved' /\ GrantsDistinct'
  BY <1>1, <1>4, <1>5, KeptRowsApproved DEF SafetyInv, RowsKept
<1>7. calls' \in [Slots -> Calls] /\ CallsHaveRows'
  BY <1>1, <1>5, EndKeepsCalls
<1>8. ReleaseTypeOK'
  BY <1>1, <1>4, <1>7 DEF SafetyInv, ReleaseTypeOK, Rows
<1>9. EffectsHaveRows'
  BY <1>1, <1>3, <1>4, <1>5 DEF SafetyInv, EffectsHaveRows, Sent, Reached
<1> QED BY <1>6, <1>7, <1>8, <1>9 DEF SafetyInv

LEMMA StatusReturnsSafe ==
  ASSUME SafetyInv, NEW s \in Slots, NEW passed \in BOOLEAN,
         RollbackReturns(s) \/ SmokeReturns(s, passed)
  PROVE  SafetyInv'
<1> DEFINE k == calls[s].key
<1>1. /\ UNCHANGED <<granted, expired, consumed, net, dest>> /\ Ends(s)
      /\ calls[s].awaits \in {"rollback", "probes"}
      /\ \E st \in Statuses \ {"NONE"} : SetStatus(k, st)
  BY DEF RollbackReturns, SmokeReturns, Statuses
<1>2. calls[s] # Idle /\ k \in Keys /\ Inserted(k)
  BY <1>1, CallHasKey DEF Idle, SafetyInv, CallsHaveRows
<1> HIDE DEF k
<1>3. /\ deployments' \in [Keys -> Rows]
      /\ \A j \in Keys :
           /\ Inserted(j)' = Inserted(j)
           /\ deployments'[j].grant = deployments[j].grant
           /\ deployments'[j].artifact = deployments[j].artifact
           /\ deployments'[j].op = deployments[j].op
  BY <1>1, <1>2, StatusWrite DEF SafetyInv
<1>4. RowsApproved' /\ GrantsDistinct'
  BY <1>1, <1>3, KeptRowsApproved DEF SafetyInv, RowsKept
<1>5. calls' \in [Slots -> Calls] /\ CallsHaveRows'
  BY <1>1, <1>3, EndKeepsCalls
<1>6. ReleaseTypeOK'
  BY <1>1, <1>3, <1>5 DEF SafetyInv, ReleaseTypeOK, Rows
<1>7. EffectsHaveRows'
  BY <1>1, <1>3 DEF SafetyInv, EffectsHaveRows, Sent, Reached
<1> QED BY <1>4, <1>5, <1>6, <1>7 DEF SafetyInv

LEMMA LookupSafe ==
  ASSUME SafetyInv, NEW s \in Slots, LookupAnswers(s)
  PROVE  SafetyInv'
<1>0. UNCHANGED <<granted, expired, consumed, deployments, net, dest>>
  BY DEF LookupAnswers
<1>1. calls[s] # Idle
  BY DEF LookupAnswers, Idle
<1>2. calls' \in [Slots -> Calls] /\ CallsHaveRows'
  <2>1. CASE Ends(s)
    BY <1>0, <2>1, EndKeepsCalls DEF Inserted
  <2>2. CASE Reached(calls[s].key, "deploy") /\ calls' = [calls EXCEPT ![s].awaits = "found"]
    <3> DEFINE k == calls[s].key
               call == [calls[s] EXCEPT !.awaits = "found"]
    <3>1. k \in Keys /\ Inserted(k)
      BY <1>1, CallHasKey DEF SafetyInv, CallsHaveRows
    <3>2. calls[s] \in [awaits : {"promote", "rollback", "lookup", "found", "probes"}, key : Keys]
      BY <1>1 DEF SafetyInv, ReleaseTypeOK, Calls
    <3>3. call = [awaits |-> "found", key |-> k]
      BY <3>2
    <3>4. calls' = [calls EXCEPT ![s] = call]
      BY <2>2
    <3> HIDE DEF call
    <3>5. call \in Calls /\ call.key = k
      BY <3>1, <3>3, IdleIsNoCall
    <3>6. /\ calls' \in [Slots -> Calls] /\ calls'[s].key = k
          /\ \A t \in Slots : t # s => calls'[t] = calls[t]
      BY <3>4, <3>5 DEF SafetyInv, ReleaseTypeOK
    <3>7. CallsHaveRows'
      BY <1>0, <2>2, <3>1, <3>6 DEF SafetyInv, CallsHaveRows, Inserted, Reached
    <3> QED BY <3>6, <3>7
  <2> QED BY <2>1, <2>2 DEF LookupAnswers
<1> QED
  BY <1>0, <1>2 DEF SafetyInv, ReleaseTypeOK, RowsApproved, GrantsDistinct, EffectsHaveRows,
                    Sent, Reached, Inserted

LEMMA CallLostSafe ==
  ASSUME SafetyInv, Crash \/ \E s \in Slots : CallFails(s)
  PROVE  SafetyInv'
<1>0. UNCHANGED <<granted, expired, consumed, deployments, net, dest>>
  BY DEF Crash, CallFails
<1>1. CASE Crash
  <2>1. calls' \in [Slots -> Calls] /\ CallsHaveRows'
    BY <1>1 DEF Crash, Calls, CallsHaveRows
  <2> QED
    BY <1>0, <2>1 DEF SafetyInv, ReleaseTypeOK, RowsApproved, GrantsDistinct, EffectsHaveRows,
                      Sent, Reached, Inserted
<1>2. ASSUME NEW s \in Slots, CallFails(s) PROVE SafetyInv'
  <2>1. calls' \in [Slots -> Calls] /\ CallsHaveRows'
    BY <1>0, <1>2, EndKeepsCalls DEF CallFails, Inserted
  <2> QED
    BY <1>0, <2>1 DEF SafetyInv, ReleaseTypeOK, RowsApproved, GrantsDistinct, EffectsHaveRows,
                      Sent, Reached, Inserted
<1> QED BY <1>1, <1>2

\* The destination keeps what it has, so what was reached stays reached.
LEMMA ArrivalEffect ==
  ASSUME ReleaseTypeOK, NEW m \in net, Receive(m)
  PROVE  /\ dest' \in [Keys -> [Kinds -> Artifacts \cup {NoArtifact}]]
         /\ \A k \in Keys, kind \in Kinds :
              \/ dest'[k][kind] = dest[k][kind]
              \/ ~Reached(k, kind) /\ <<k, kind, dest'[k][kind]>> = m
<1>1. /\ m[1] \in Keys /\ m[2] \in Kinds /\ m[3] \in Artifacts
      /\ m = <<m[1], m[2], m[3]>>
  BY DEF ReleaseTypeOK
<1>2. CASE dest' = dest
  BY <1>2 DEF ReleaseTypeOK
<1>3. CASE ~Reached(m[1], m[2]) /\ dest' = [dest EXCEPT ![m[1]][m[2]] = m[3]]
  BY <1>1, <1>3 DEF ReleaseTypeOK
<1> QED BY <1>2, <1>3 DEF Receive

LEMMA DeliverySafe ==
  ASSUME SafetyInv, NEW m \in net, Receive(m) \/ Lose(m)
  PROVE  SafetyInv'
<1>0. UNCHANGED <<granted, expired, consumed, deployments, calls>> /\ net' = net \ {m}
  BY DEF Receive, Lose
<1>1. /\ dest' \in [Keys -> [Kinds -> Artifacts \cup {NoArtifact}]]
      /\ \A k \in Keys, kind \in Kinds :
           \/ dest'[k][kind] = dest[k][kind]
           \/ ~Reached(k, kind) /\ <<k, kind, dest'[k][kind]>> = m
  <2>1. CASE Receive(m)
    BY <2>1, ArrivalEffect DEF SafetyInv
  <2>2. CASE Lose(m)
    BY <2>2 DEF Lose, SafetyInv, ReleaseTypeOK
  <2> QED BY <2>1, <2>2
<1>2. \A k \in Keys, kind \in Kinds, x \in Artifacts : Sent(k, kind, x)' => Sent(k, kind, x)
  BY <1>0, <1>1 DEF Sent
<1>3. NoArtifact \notin Artifacts /\ net \subseteq Keys \X Kinds \X Artifacts
  BY ReleaseConstantsOK DEF SafetyInv, ReleaseTypeOK
<1>4. \A k \in Keys, kind \in Kinds : Reached(k, kind) => Reached(k, kind)'
  BY <1>1 DEF Reached
<1>5. CallsHaveRows'
  BY <1>0, <1>4, CallHasKey DEF SafetyInv, CallsHaveRows, Inserted, Kinds
<1>6. EffectsHaveRows'
  BY <1>0, <1>2, <1>4 DEF SafetyInv, EffectsHaveRows, Inserted, Kinds
<1>7. ReleaseTypeOK'
  BY <1>0, <1>1 DEF SafetyInv, ReleaseTypeOK
<1> QED
  BY <1>0, <1>5, <1>6, <1>7 DEF SafetyInv, RowsApproved, GrantsDistinct, Inserted

LEMMA GrantSafe ==
  ASSUME SafetyInv,
         \/ \E g \in Grants, late \in BOOLEAN : Grant(g, late)
         \/ \E G \in SUBSET Grants : Expire(G)
  PROVE  SafetyInv'
<1>1. /\ UNCHANGED <<consumed, deployments, calls, net, dest>>
      /\ granted \subseteq granted' /\ granted' \subseteq Grants /\ expired' \subseteq Grants
  BY DEF Grant, Expire, SafetyInv, ReleaseTypeOK
<1> QED
  BY <1>1 DEF SafetyInv, ReleaseTypeOK, RowsApproved, GrantsDistinct, CallsHaveRows,
              EffectsHaveRows, Sent, Reached, Inserted

LEMMA SafetyInit == ReleaseInit => SafetyInv
<1> SUFFICES ASSUME ReleaseInit PROVE SafetyInv
  OBVIOUS
<1>1. ReleaseTypeOK
  BY DEF ReleaseInit, ReleaseTypeOK, Statuses, Calls
<1>2. \A k \in Keys : ~Inserted(k) /\ ~deployments[k].op
  BY DEF ReleaseInit, Inserted
<1>3. \A k \in Keys, kind \in Kinds, x \in Artifacts : ~Sent(k, kind, x)
  BY ReleaseConstantsOK DEF ReleaseInit, Sent
<1> QED
  BY <1>1, <1>2, <1>3
  DEF SafetyInv, RowsApproved, GrantsDistinct, CallsHaveRows, EffectsHaveRows, ReleaseInit

LEMMA SafetyNext == SafetyInv /\ [ReleaseNext]_releaseVars => SafetyInv'
<1> SUFFICES ASSUME SafetyInv, [ReleaseNext]_releaseVars PROVE SafetyInv'
  OBVIOUS
<1>1. CASE UNCHANGED releaseVars
  BY <1>1 DEF releaseVars, SafetyInv, ReleaseTypeOK, RowsApproved, GrantsDistinct, CallsHaveRows,
              EffectsHaveRows, Sent, Reached, Inserted
<1>2. CASE \/ \E g \in Grants, late \in BOOLEAN : Grant(g, late)
           \/ \E G \in SUBSET Grants : Expire(G)
  BY <1>2, GrantSafe
<1>3. CASE Deploying
  BY <1>3, DeployNewSafe, DeployAgainSafe, DeployDiesSafe, OperationReturnsSafe, CallLostSafe,
     LookupSafe, StatusReturnsSafe, LooksSafe, RollbackStartsSafe, DeliverySafe
  DEF Deploying
<1> QED BY <1>1, <1>2, <1>3 DEF ReleaseNext

\* In every state of a release the rows, the calls and the destination are
\* what deploy(), rollback() and the reconciliation took them for: a row names
\* a grant spent on it and on no other row, and nothing was sent or done under
\* a key without a row.
THEOREM ReleaseInvariant == ReleaseSpec => []SafetyInv
BY SafetyInit, SafetyNext, PTL DEF ReleaseSpec

\* Grants, rows, calls and the destination keep their types.
THEOREM ReleaseTypes == ReleaseSpec => []ReleaseTypeOK
<1>1. SafetyInv => ReleaseTypeOK
  BY DEF SafetyInv
<1> QED BY <1>1, ReleaseInvariant, PTL

-----------------------------------------------------------------------------
(* One artifact per key *)

\* Callers deploy one artifact under a key.
OneArtifactPerKey ==
  \A k \in Keys, x, y \in Artifacts : <<k, x>> \in Attested /\ <<k, y>> \in Attested => x = y

SentIsOfRow ==
  \A k \in Keys, x \in Artifacts : Sent(k, "deploy", x) => deployments[k].artifact = x

\* A step that sends no deployment but one of its row's artifact.
SendsOfRow ==
  /\ \A k \in Keys, x \in Artifacts :
       Sent(k, "deploy", x)' => Sent(k, "deploy", x) \/ deployments'[k].artifact = x
  /\ \A k \in Keys : Inserted(k) => deployments'[k].artifact = deployments[k].artifact

LEMMA SendsPreserved ==
  ASSUME SafetyInv, SentIsOfRow, SendsOfRow
  PROVE  SentIsOfRow'
  BY DEF SafetyInv, SentIsOfRow, SendsOfRow, EffectsHaveRows, Kinds

\* An answer that is recorded leaves a row its artifact.
LEMMA ReturnsKeepRows ==
  ASSUME SafetyInv, NEW s \in Slots, NEW passed \in BOOLEAN,
         PromoteReturns(s) \/ ReconcileReturns(s) \/ RollbackReturns(s) \/ SmokeReturns(s, passed)
  PROVE  \A j \in Keys : /\ Inserted(j)' = Inserted(j)
                         /\ deployments'[j].artifact = deployments[j].artifact
<1> DEFINE k == calls[s].key
<1>1. calls[s] # Idle /\ k \in Keys /\ Inserted(k)
  BY CallHasKey
  DEF PromoteReturns, ReconcileReturns, RollbackReturns, SmokeReturns, Idle, SafetyInv, CallsHaveRows
<1>2. RecordOperation(k) \/ \E st \in Statuses \ {"NONE"} : SetStatus(k, st)
  BY DEF PromoteReturns, ReconcileReturns, RollbackReturns, SmokeReturns, Statuses
<1> HIDE DEF k
<1> QED BY <1>1, <1>2, OperationWrite, StatusWrite DEF SafetyInv, Inserted

LEMMA StepSendsOfRow ==
  ASSUME OneArtifactPerKey, SafetyInv, [ReleaseNext]_releaseVars
  PROVE  SendsOfRow
<1> USE DEF Sent, SendsOfRow
<1>1. CASE UNCHANGED <<deployments, net, dest>>
  BY <1>1
<1>2. ASSUME NEW s \in Slots, NEW k \in Keys, NEW g \in Grants, NEW x \in Artifacts,
             NEW action, NEW named, DeployNew(s, k, g, x, action, named)
      PROVE  SendsOfRow
  <2>1. deployments' = [deployments EXCEPT ![k] =
          [status |-> "DEPLOYING", op |-> FALSE, grant |-> g, artifact |-> x]]
    BY <1>2 DEF DeployNew
  <2>2. deployments'[k].artifact = x /\ \A j \in Keys : j # k => deployments'[j] = deployments[j]
    BY <2>1 DEF SafetyInv, ReleaseTypeOK
  <2> QED BY <1>2, <2>2 DEF DeployNew
<1>3. ASSUME NEW k \in Keys, NEW g \in Grants, NEW x \in Artifacts, NEW intent \in BOOLEAN,
             NEW action, NEW named, DeployDies(k, g, x, action, named, intent)
      PROVE  SendsOfRow
  <2>1. \A j \in Keys : j # k => deployments'[j] = deployments[j]
    BY <1>3 DEF DeployDies, SafetyInv, ReleaseTypeOK
  <2> QED BY <1>3, <2>1 DEF DeployDies
<1>4. ASSUME NEW s \in Slots, NEW k \in Keys, NEW x \in Artifacts, DeployAgain(s, k, x)
      PROVE  SendsOfRow
  <2>1. deployments[k].artifact = x
    BY <1>4, ReleaseConstantsOK
    DEF DeployAgain, OneArtifactPerKey, SafetyInv, RowsApproved, ReleaseTypeOK
  <2> QED BY <1>4, <2>1 DEF DeployAgain
<1>5. ASSUME NEW s \in Slots, NEW passed \in BOOLEAN,
             PromoteReturns(s) \/ ReconcileReturns(s) \/ RollbackReturns(s) \/ SmokeReturns(s, passed)
      PROVE  SendsOfRow
  <2>1. UNCHANGED <<net, dest>>
    BY <1>5 DEF PromoteReturns, ReconcileReturns, RollbackReturns, SmokeReturns
  <2> QED BY <1>5, <2>1, ReturnsKeepRows
<1>6. ASSUME NEW s \in Slots, NEW k \in Keys, NEW g \in Grants, RollbackStarts(s, k, g)
      PROVE  SendsOfRow
  BY <1>6 DEF RollbackStarts
<1>7. ASSUME NEW m \in net, Receive(m) PROVE SendsOfRow
  <2>1. \A k \in Keys : dest'[k]["deploy"] = dest[k]["deploy"] \/ <<k, "deploy", dest'[k]["deploy"]>> = m
    BY <1>7, ArrivalEffect DEF SafetyInv, Kinds
  <2> QED BY <1>7, <2>1 DEF Receive
<1>8. ASSUME NEW m \in net, Lose(m) PROVE SendsOfRow
  BY <1>8 DEF Lose
<1>9. CASE Deploying
  BY <1>1, <1>2, <1>3, <1>4, <1>5, <1>6, <1>7, <1>8, <1>9
  DEF Deploying, Crash, CallFails, LookupAnswers, ReconcileStarts, SmokeStarts
<1> QED BY <1>1, <1>9 DEF ReleaseNext, releaseVars, Grant, Expire

LEMMA SentInit == ReleaseInit => SentIsOfRow
  BY ReleaseConstantsOK DEF ReleaseInit, SentIsOfRow, Sent, Kinds

\* While a key is used for one artifact, what was sent or deployed under it is
\* the artifact of its row.
THEOREM SentInvariant ==
  ASSUME OneArtifactPerKey
  PROVE  ReleaseSpec => [](SafetyInv /\ SentIsOfRow)
<1>1. SafetyInv /\ SentIsOfRow /\ [ReleaseNext]_releaseVars => (SafetyInv /\ SentIsOfRow)'
  BY SafetyNext, StepSendsOfRow, SendsPreserved
<1> QED BY <1>1, SafetyInit, SentInit, PTL DEF ReleaseSpec

\* No crash, retry, overlapping call or late request lets an artifact be
\* promoted when the spent grant of its key names another (deploy.ts:75-76).
THEOREM PromotionsApproved ==
  ASSUME OneArtifactPerKey
  PROVE  ReleaseSpec => []PromotedWasApproved
<1>1. SafetyInv /\ SentIsOfRow => PromotedWasApproved
  BY DEF SafetyInv, SentIsOfRow, PromotedWasApproved, EffectsHaveRows, RowsApproved, Sent, Kinds
<1> QED BY <1>1, SentInvariant, PTL

\* A row that carries an operation is about one the destination performed, for
\* the artifact of the row (deploy.ts:6-7, it never assumes).
THEOREM OperationsAreReal ==
  ASSUME OneArtifactPerKey
  PROVE  ReleaseSpec => []OperationsExist
<1>1. SafetyInv /\ SentIsOfRow => OperationsExist
  <2> SUFFICES ASSUME SafetyInv, SentIsOfRow, NEW k \in Keys, deployments[k].op
               PROVE  dest[k]["deploy"] = deployments[k].artifact
    BY DEF OperationsExist
  <2>1. dest[k]["deploy"] \in Artifacts
    BY DEF SafetyInv, ReleaseTypeOK, EffectsHaveRows, Reached, Kinds
  <2>2. Sent(k, "deploy", dest[k]["deploy"])
    BY DEF Sent
  <2> QED BY <2>1, <2>2 DEF SentIsOfRow
<1> QED BY <1>1, SentInvariant, PTL

-----------------------------------------------------------------------------
(* No more work than grants *)

\* Keys whose rollback was done or is on its way, the grants spent on rollbacks,
\* and everything the destination was or may yet be asked for.
RolledBack ==
  {k \in Keys : Reached(k, "rollback") \/ \E x \in Artifacts : <<k, "rollback", x>> \in net}
RollbackGrants == {g \in consumed : GrantAction[g] = "rollback"}
Work ==
  {o \in Keys \X Kinds : \/ o[2] = "deploy" /\ Inserted(o[1])
                         \/ o[2] = "rollback" /\ o[1] \in RolledBack}

CountInv ==
  /\ IsFiniteSet(consumed) /\ IsFiniteSet(RolledBack) /\ IsFiniteSet(Work)
  /\ Cardinality(RolledBack) <= Cardinality(RollbackGrants)
  /\ Cardinality(Work) <= Cardinality(consumed)

\* A set stays no larger than another while it loses and the other gains.
LEMMA StaysWithin ==
  ASSUME NEW S, NEW T, NEW S1, NEW T1, IsFiniteSet(S), IsFiniteSet(T1),
         Cardinality(S) <= Cardinality(T), S1 \subseteq S, T \subseteq T1
  PROVE  IsFiniteSet(S1) /\ Cardinality(S1) <= Cardinality(T1)
<1>1. IsFiniteSet(S1) /\ Cardinality(S1) <= Cardinality(S)
  BY FS_Subset
<1>2. IsFiniteSet(T) /\ Cardinality(T) <= Cardinality(T1)
  BY FS_Subset
<1>3. /\ Cardinality(S) \in Nat /\ Cardinality(S1) \in Nat
      /\ Cardinality(T) \in Nat /\ Cardinality(T1) \in Nat
  BY <1>1, <1>2, FS_CardinalityType
<1> QED BY <1>1, <1>2, <1>3

\* ... and while each gains at most one element as the other gains one.
LEMMA GrowsByOne ==
  ASSUME NEW S, NEW T, NEW e, NEW t, NEW S1 \in SUBSET (S \cup {e}), t \notin T,
         IsFiniteSet(S), IsFiniteSet(T), Cardinality(S) <= Cardinality(T)
  PROVE  /\ IsFiniteSet(S1) /\ IsFiniteSet(T \cup {t})
         /\ Cardinality(S1) <= Cardinality(T \cup {t})
<1> DEFINE more == S \cup {e}
<1>1. /\ IsFiniteSet(more)
      /\ Cardinality(more) = IF e \in S THEN Cardinality(S) ELSE Cardinality(S) + 1
  BY FS_AddElement
<1>2. IsFiniteSet(T \cup {t}) /\ Cardinality(T \cup {t}) = Cardinality(T) + 1
  BY FS_AddElement
<1>3. S1 \subseteq more
  OBVIOUS
<1> HIDE DEF more
<1>4. IsFiniteSet(S1) /\ Cardinality(S1) <= Cardinality(more)
  BY <1>1, <1>3, FS_Subset
<1>5. /\ Cardinality(S) \in Nat /\ Cardinality(S1) \in Nat /\ Cardinality(more) \in Nat
      /\ Cardinality(T) \in Nat
  BY <1>1, <1>4, FS_CardinalityType
<1> QED BY <1>1, <1>2, <1>4, <1>5

LEMMA CountKept ==
  ASSUME CountInv, IsFiniteSet(consumed'), consumed \subseteq consumed',
         RolledBack' \subseteq RolledBack, Work' \subseteq Work
  PROVE  CountInv'
<1>1. RollbackGrants \subseteq RollbackGrants' /\ RollbackGrants' \subseteq consumed'
  BY DEF RollbackGrants
<1>2. IsFiniteSet(RollbackGrants')
  BY <1>1, FS_Subset
<1>3. IsFiniteSet(RolledBack') /\ Cardinality(RolledBack') <= Cardinality(RollbackGrants')
  BY <1>1, <1>2, StaysWithin DEF CountInv
<1>4. IsFiniteSet(Work') /\ Cardinality(Work') <= Cardinality(consumed')
  BY StaysWithin DEF CountInv
<1> QED BY <1>3, <1>4 DEF CountInv

\* One grant is spent on at most one piece of work, a rollback if it is one.
LEMMA CountSpent ==
  ASSUME CountInv, NEW o \in Keys \X Kinds, NEW g, g \notin consumed, consumed' = consumed \cup {g},
         Work' \subseteq Work \cup {o},
         \/ RolledBack' \subseteq RolledBack
         \/ RolledBack' \subseteq RolledBack \cup {o[1]} /\ GrantAction[g] = "rollback"
  PROVE  CountInv'
<1>1. /\ IsFiniteSet(consumed') /\ IsFiniteSet(Work')
      /\ Cardinality(Work') <= Cardinality(consumed')
  <2>1. /\ IsFiniteSet(Work') /\ IsFiniteSet(consumed \cup {g})
        /\ Cardinality(Work') <= Cardinality(consumed \cup {g})
    BY GrowsByOne, Work' \in SUBSET (Work \cup {o}) DEF CountInv
  <2> QED BY <2>1
<1>2. /\ RollbackGrants \subseteq RollbackGrants' /\ RollbackGrants' \subseteq consumed'
      /\ RollbackGrants \subseteq consumed /\ g \notin RollbackGrants
      /\ GrantAction[g] = "rollback" => RollbackGrants' = RollbackGrants \cup {g}
  BY DEF RollbackGrants
<1>3. IsFiniteSet(RollbackGrants) /\ IsFiniteSet(RollbackGrants')
  BY <1>1, <1>2, FS_Subset DEF CountInv
<1>4. IsFiniteSet(RolledBack') /\ Cardinality(RolledBack') <= Cardinality(RollbackGrants')
  <2>1. CASE RolledBack' \subseteq RolledBack
    BY <1>2, <1>3, <2>1, StaysWithin DEF CountInv
  <2>2. CASE RolledBack' \subseteq RolledBack \cup {o[1]} /\ GrantAction[g] = "rollback"
    <3>1. IsFiniteSet(RolledBack) /\ Cardinality(RolledBack) <= Cardinality(RollbackGrants)
      BY DEF CountInv
    <3>2. /\ IsFiniteSet(RolledBack')
          /\ Cardinality(RolledBack') <= Cardinality(RollbackGrants \cup {g})
      BY <1>2, <1>3, <2>2, <3>1, GrowsByOne, RolledBack' \in SUBSET (RolledBack \cup {o[1]})
    <3> QED BY <1>2, <2>2, <3>2
  <2> QED BY <2>1, <2>2
<1> QED BY <1>1, <1>4 DEF CountInv

\* A deployment that is consumed for, with its row or without.
LEMMA CountDeploy ==
  ASSUME SafetyInv, CountInv, NEW k \in Keys, NEW g \in Grants, NEW x \in Artifacts, NEW action, NEW named,
         Consume(g, action, named), dest' = dest,
         net' = net \cup {<<k, "deploy", x>>} \/ net' = net,
         \A j \in Keys : Inserted(j)' => Inserted(j) \/ j = k
  PROVE  CountInv'
<1>1. RolledBack' \subseteq RolledBack
  BY DEF RolledBack, Reached
<1>2. Work' \subseteq Work \cup {<<k, "deploy">>}
  BY <1>1 DEF Work, Kinds
<1>3. g \notin consumed /\ consumed' = consumed \cup {g} /\ <<k, "deploy">> \in Keys \X Kinds
  BY DEF Consume, InScope, Kinds
<1> QED BY <1>1, <1>2, <1>3, CountSpent

LEMMA CountQuiet ==
  ASSUME CountInv, consumed' = consumed, RolledBack' \subseteq RolledBack,
         \A j \in Keys : Inserted(j)' => Inserted(j)
  PROVE  CountInv'
<1>1. Work' \subseteq Work
  BY DEF Work
<1> QED BY <1>1, CountKept DEF CountInv

LEMMA CountNext ==
  ASSUME SafetyInv, CountInv, [ReleaseNext]_releaseVars
  PROVE  CountInv'
<1>1. ASSUME UNCHANGED <<consumed, net, dest>>, \A j \in Keys : Inserted(j)' => Inserted(j)
      PROVE  CountInv'
  <2>1. RolledBack' = RolledBack
    BY <1>1 DEF RolledBack, Reached
  <2> QED BY <1>1, <2>1, CountQuiet
<1>2. ASSUME NEW s \in Slots, NEW passed \in BOOLEAN,
             PromoteReturns(s) \/ ReconcileReturns(s) \/ RollbackReturns(s) \/ SmokeReturns(s, passed)
      PROVE  CountInv'
  <2>1. UNCHANGED <<consumed, net, dest>>
    BY <1>2 DEF PromoteReturns, ReconcileReturns, RollbackReturns, SmokeReturns
  <2> QED BY <1>1, <1>2, <2>1, ReturnsKeepRows
<1>3. ASSUME NEW s \in Slots, NEW k \in Keys, NEW g \in Grants, RollbackStarts(s, k, g)
      PROVE  CountInv'
  <2>1. /\ g \notin consumed /\ consumed' = consumed \cup {g} /\ GrantAction[g] = "rollback"
        /\ UNCHANGED <<dest, deployments>>
        /\ net' = net \cup {<<k, "rollback", deployments[k].artifact>>}
    BY <1>3 DEF RollbackStarts, Consume, InScope
  <2>2. RolledBack' \subseteq RolledBack \cup {k}
    BY <2>1 DEF RolledBack, Reached
  <2>3. Work' \subseteq Work \cup {<<k, "rollback">>}
    BY <2>1, <2>2 DEF Work, Inserted, Kinds
  <2> DEFINE o == <<k, "rollback">>
  <2>4. o \in Keys \X Kinds /\ o[1] = k
    BY DEF Kinds
  <2> HIDE DEF o
  <2>5. Work' \subseteq Work \cup {o} /\ RolledBack' \subseteq RolledBack \cup {o[1]}
    BY <2>2, <2>3, <2>4 DEF o
  <2> QED BY <2>1, <2>4, <2>5, CountSpent
<1>4. ASSUME NEW m \in net, Receive(m) \/ Lose(m) PROVE CountInv'
  <2>1. UNCHANGED <<consumed, deployments>> /\ net' \subseteq net
    BY <1>4 DEF Receive, Lose
  <2>2. \A k \in Keys : Reached(k, "rollback")' =>
          Reached(k, "rollback") \/ \E x \in Artifacts : <<k, "rollback", x>> \in net
    <3>1. CASE Receive(m)
      <4>1. \A k \in Keys :
              \/ dest'[k]["rollback"] = dest[k]["rollback"]
              \/ <<k, "rollback", dest'[k]["rollback"]>> = m
        BY <3>1, ArrivalEffect DEF SafetyInv, Kinds
      <4>2. m[3] \in Artifacts
        BY DEF SafetyInv, ReleaseTypeOK
      <4> QED BY <4>1, <4>2 DEF Reached
    <3>2. CASE Lose(m)
      BY <3>2 DEF Lose, Reached
    <3> QED BY <1>4, <3>1, <3>2
  <2>3. RolledBack' \subseteq RolledBack
    BY <2>1, <2>2 DEF RolledBack
  <2> QED BY <2>1, <2>3, CountQuiet DEF Inserted
<1>5. ASSUME NEW k \in Keys, NEW g \in Grants, NEW x \in Artifacts, NEW action, NEW named,
             \/ \E s \in Slots : DeployNew(s, k, g, x, action, named)
             \/ \E intent \in BOOLEAN : DeployDies(k, g, x, action, named, intent)
      PROVE  CountInv'
  <2>1. \A j \in Keys : Inserted(j)' => Inserted(j) \/ j = k
    BY <1>5 DEF DeployNew, DeployDies, Inserted, SafetyInv, ReleaseTypeOK
  <2> QED BY <1>5, <2>1, CountDeploy DEF DeployNew, DeployDies
<1>6. ASSUME NEW s \in Slots, NEW k \in Keys, NEW x \in Artifacts, DeployAgain(s, k, x)
      PROVE  CountInv'
  <2>1. UNCHANGED <<consumed, dest, deployments>> /\ net' = net \cup {<<k, "deploy", x>>}
    BY <1>6 DEF DeployAgain
  <2>2. RolledBack' \subseteq RolledBack
    BY <2>1 DEF RolledBack, Reached
  <2> QED BY <2>1, <2>2, CountQuiet DEF Inserted
<1>7. ASSUME UNCHANGED <<consumed, deployments, net, dest>> PROVE CountInv'
  BY <1>1, <1>7 DEF Inserted
<1>8. CASE Deploying
  BY <1>2, <1>3, <1>4, <1>5, <1>6, <1>7, <1>8
  DEF Deploying, Crash, CallFails, LookupAnswers, ReconcileStarts, SmokeStarts
<1> QED BY <1>7, <1>8 DEF ReleaseNext, releaseVars, Grant, Expire

LEMMA CountInit == ReleaseInit => CountInv
<1> SUFFICES ASSUME ReleaseInit PROVE CountInv
  OBVIOUS
<1>1. consumed = {} /\ RolledBack = {} /\ RollbackGrants = {}
  BY DEF ReleaseInit, RolledBack, RollbackGrants, Reached, Kinds
<1>2. Work = {}
  BY <1>1 DEF ReleaseInit, Work, Inserted
<1> QED BY <1>1, <1>2, FS_EmptySet DEF CountInv

LEMMA EffectsAreWork ==
  ASSUME SafetyInv
  PROVE  {o \in Keys \X Kinds : Reached(o[1], o[2])} \subseteq Work
<1> SUFFICES ASSUME NEW k \in Keys, NEW kind \in Kinds, Reached(k, kind)
             PROVE  <<k, kind>> \in Work
  OBVIOUS
<1>1. dest[k][kind] \in Artifacts
  BY DEF SafetyInv, ReleaseTypeOK, Reached
<1>2. Inserted(k)
  BY <1>1 DEF SafetyInv, EffectsHaveRows, Sent
<1> QED BY <1>2 DEF Work, RolledBack, Kinds

LEMMA DeploymentsWithinGrants ==
  ASSUME SafetyInv, SentIsOfRow, IsFiniteSet(consumed), NEW x \in Artifacts
  PROVE  Cardinality({k \in Keys : dest[k]["deploy"] = x})
           <= Cardinality({g \in consumed : GrantFor[g] \in {x, NoArtifact}})
<1> DEFINE K == {k \in Keys : dest[k]["deploy"] = x}
           G == {g \in consumed : GrantFor[g] \in {x, NoArtifact}}
           spent == [k \in K |-> deployments[k].grant]
<1>1. \A k \in K : Inserted(k) /\ deployments[k].artifact = x
  BY DEF SafetyInv, EffectsHaveRows, SentIsOfRow, Sent, Kinds
<1>2. \A k \in K : deployments[k].grant \in G
  BY <1>1 DEF SafetyInv, RowsApproved
<1>3. \A j, k \in K : deployments[j].grant = deployments[k].grant => j = k
  BY <1>1 DEF SafetyInv, GrantsDistinct
<1>4. IsFiniteSet(G)
  BY FS_Subset
<1>5. spent \in [K -> G] /\ \A j, k \in K : spent[j] = spent[k] => j = k
  BY <1>2, <1>3
<1> HIDE DEF K, G, spent
<1>6. spent \in Injection(K, G)
  BY <1>5 DEF Injection, IsInjective
<1>7. Cardinality(K) <= Cardinality(G)
  BY <1>4, <1>6, FS_Injection
<1> QED BY <1>7 DEF K, G

\* The destination never does more than grants were spent, deploys an artifact
\* no more often than grants naming it or none were, and rolls back no more often
\* than rollback grants were, with any number of keys, calls, retries and crashes
\* (approvals.ts:3-5, consumed exactly once).
THEOREM WorkWithinGrants ==
  ASSUME OneArtifactPerKey
  PROVE  ReleaseSpec => []EffectsWithinGrants
<1> DEFINE Inv == SafetyInv /\ SentIsOfRow /\ CountInv
<1>1. ReleaseInit => Inv
  BY SafetyInit, SentInit, CountInit
<1>2. Inv /\ [ReleaseNext]_releaseVars => Inv'
  BY SafetyNext, StepSendsOfRow, SendsPreserved, CountNext
<1>3. Inv => EffectsWithinGrants
  <2> SUFFICES ASSUME Inv PROVE EffectsWithinGrants
    OBVIOUS
  <2> DEFINE done == {k \in Keys : Reached(k, "rollback")}
  <2>1. done \subseteq RolledBack
    BY DEF RolledBack
  <2>2. IsFiniteSet(done) /\ Cardinality(done) <= Cardinality(RolledBack)
    BY <2>1, FS_Subset DEF CountInv
  <2>3. RollbackGrants \subseteq consumed
    BY DEF RollbackGrants
  <2>4. IsFiniteSet(RollbackGrants)
    BY <2>3, FS_Subset DEF CountInv
  <2> HIDE DEF done
  <2>5. /\ Cardinality(done) \in Nat /\ Cardinality(RolledBack) \in Nat
        /\ Cardinality(RollbackGrants) \in Nat
    BY <2>2, <2>4, FS_CardinalityType DEF CountInv
  <2>6. Cardinality(done) <= Cardinality(RollbackGrants)
    BY <2>2, <2>5 DEF CountInv
  <2>7. \A x \in Artifacts :
          Cardinality({k \in Keys : dest[k]["deploy"] = x})
            <= Cardinality({g \in consumed : GrantFor[g] \in {x, NoArtifact}})
    BY DeploymentsWithinGrants DEF CountInv
  <2> DEFINE all == {o \in Keys \X Kinds : Reached(o[1], o[2])}
  <2>8. all \subseteq Work
    BY EffectsAreWork
  <2> HIDE DEF all
  <2>9. Cardinality(all) <= Cardinality(consumed)
    BY <2>8, StaysWithin DEF CountInv
  <2> QED BY <2>6, <2>7, <2>9 DEF EffectsWithinGrants, done, RollbackGrants, all
<1> QED BY <1>1, <1>2, <1>3, PTL DEF ReleaseSpec

-----------------------------------------------------------------------------
(***************************************************************************)
(* Authority                                                               *)
(***************************************************************************)

Status == {"NONE", "PENDING", "APPROVED", "DENIED"}

\* A grant is of a request that was made, and so is what says it was granted.
RequestsSound ==
  /\ requests \in [Requests -> Status]
  /\ \A g \in granted : requests[RequestOf[g]] # "NONE"
  /\ \A q \in Requests : requests[q] = "APPROVED" => \E g \in granted : RequestOf[g] = q
  /\ \A d \in decisions : d[3] # NoGrant => d[3] \in granted /\ RequestOf[d[3]] = d[1]
  /\ allowed \subseteq granted

AuthorityInv == SafetyInv /\ SentIsOfRow /\ RequestsSound

-----------------------------------------------------------------------------
(* Every step is a step of the release, or none of it *)

LEMMA StepsRelease ==
  ASSUME SafetyInv, AuthorityNext
  PROVE  [ReleaseNext]_releaseVars
<1>1. CASE \E q \in Requests : Request(q)
  BY <1>1 DEF Request
<1>2. ASSUME NEW q \in Requests, Lapse(q) PROVE ReleaseNext
  <2> DEFINE G == {g \in granted \ (expired \cup consumed) : RequestOf[g] = q}
  <2>1. Expire(G)
    BY <1>2 DEF Lapse
  <2>2. G \in SUBSET Grants
    BY DEF SafetyInv, ReleaseTypeOK
  <2> HIDE DEF G
  <2> QED BY <2>1, <2>2 DEF ReleaseNext
<1>3. CASE \E q \in Requests, actor \in Actors, n \in 1..3 : Deny(q, actor, n)
  BY <1>3 DEF Deny
<1>4. ASSUME NEW q \in Requests, NEW actor \in Actors, NEW n \in 1..3, NEW g \in Grants,
             Approve(q, actor, g, n)
      PROVE  ReleaseNext
  <2>1. Grant(g, q \in lapsed) /\ (q \in lapsed) \in BOOLEAN
    BY <1>4 DEF Approve
  <2>2. \E late \in BOOLEAN : Grant(g, late)
    BY <2>1
  <2> QED BY <2>2 DEF ReleaseNext
<1>5. CASE \E action \in Actions, artifacts \in {{x} : x \in Artifacts} \cup {Artifacts \cup {NoArtifact}} :
             Authorize(action, artifacts)
  BY <1>5 DEF Authorize
<1>6. CASE Deploying /\ UNCHANGED requestVars
  BY <1>6 DEF ReleaseNext
<1> QED BY <1>1, <1>2, <1>3, <1>4, <1>5, <1>6 DEF AuthorityNext

-----------------------------------------------------------------------------
(* Requests and their grants *)

LEMMA DeployingGrantsNothing ==
  ASSUME Deploying
  PROVE  granted' = granted
<1>1. ASSUME NEW k, NEW g, NEW x, NEW action, NEW named,
             \/ \E s \in Slots : DeployNew(s, k, g, x, action, named)
             \/ \E intent \in BOOLEAN : DeployDies(k, g, x, action, named, intent)
      PROVE  granted' = granted
  BY <1>1 DEF DeployNew, DeployDies
<1>2. CASE \E s \in Slots, k \in Keys, x \in Artifacts : DeployAgain(s, k, x)
  BY <1>2 DEF DeployAgain
<1>3. CASE \E s \in Slots : \/ PromoteReturns(s) \/ CallFails(s) \/ LookupAnswers(s)
                           \/ ReconcileReturns(s) \/ RollbackReturns(s)
                           \/ \E passed \in BOOLEAN : SmokeReturns(s, passed)
  BY <1>3 DEF PromoteReturns, CallFails, LookupAnswers, ReconcileReturns, RollbackReturns, SmokeReturns
<1>4. CASE \/ \E s \in Slots, k \in Keys : ReconcileStarts(s, k) \/ SmokeStarts(s, k)
           \/ \E s \in Slots, k \in Keys, g \in Grants : RollbackStarts(s, k, g)
           \/ \E m \in net : Receive(m) \/ Lose(m)
           \/ Crash
  BY <1>4 DEF ReconcileStarts, SmokeStarts, RollbackStarts, Receive, Lose, Crash
<1> QED BY <1>1, <1>2, <1>3, <1>4 DEF Deploying

LEMMA RequestKeeps ==
  ASSUME AuthorityInv, NEW q \in Requests, Request(q)
  PROVE  RequestsSound'
<1>1. /\ requests' = [requests EXCEPT ![q] = "PENDING"] /\ requests[q] = "NONE"
      /\ UNCHANGED <<granted, decisions, allowed>>
  BY DEF Request, releaseVars
<1>2. \A p \in Requests : requests'[p] # requests[p] => p = q /\ requests'[p] = "PENDING"
  BY <1>1 DEF AuthorityInv, RequestsSound
<1>3. \A g \in granted : RequestOf[g] \in Requests
  BY AuthorityConstantsOK DEF AuthorityInv, SafetyInv, ReleaseTypeOK
<1> QED BY <1>1, <1>2, <1>3 DEF AuthorityInv, RequestsSound, Status

\* Whichever statement of the approval was the last one.
LEMMA ApproveKeeps ==
  ASSUME AuthorityInv, NEW q \in Requests, NEW actor \in Actors, NEW g \in Grants, NEW n \in 1..3,
         Approve(q, actor, g, n)
  PROVE  RequestsSound'
<1>1. /\ granted' = granted \cup {g} /\ RequestOf[g] = q /\ requests[q] = "PENDING"
      /\ decisions' = IF n >= 2 THEN decisions \cup {<<q, actor, g>>} ELSE decisions
      /\ requests' = IF n = 3 THEN [requests EXCEPT ![q] = "APPROVED"] ELSE requests
      /\ allowed' = allowed
  BY DEF Approve, Grant, MayDecide
<1>2. \A p \in Requests : requests'[p] # requests[p] => p = q /\ requests'[p] = "APPROVED"
  BY <1>1 DEF AuthorityInv, RequestsSound
<1>3. requests' \in [Requests -> Status]
  BY <1>1 DEF AuthorityInv, RequestsSound, Status
<1>4. \A d \in decisions' : d \in decisions \/ (d[1] = q /\ d[3] = g)
  BY <1>1
<1>5. \A h \in granted' : RequestOf[h] \in Requests /\ (h \in granted \/ h = g)
  BY <1>1, AuthorityConstantsOK DEF AuthorityInv, SafetyInv, ReleaseTypeOK
<1>6. \A h \in granted' : requests'[RequestOf[h]] # "NONE"
  BY <1>1, <1>2, <1>5 DEF AuthorityInv, RequestsSound
<1>7. \A p \in Requests : requests'[p] = "APPROVED" => \E h \in granted' : RequestOf[h] = p
  BY <1>1, <1>2 DEF AuthorityInv, RequestsSound
<1>8. \A d \in decisions' : d[3] # NoGrant => d[3] \in granted' /\ RequestOf[d[3]] = d[1]
  BY <1>1, <1>4 DEF AuthorityInv, RequestsSound
<1>9. allowed' \subseteq granted'
  BY <1>1 DEF AuthorityInv, RequestsSound
<1> QED BY <1>3, <1>6, <1>7, <1>8, <1>9 DEF RequestsSound

LEMMA DenyKeeps ==
  ASSUME AuthorityInv, NEW q \in Requests, NEW actor \in Actors, NEW n \in 1..3, Deny(q, actor, n)
  PROVE  RequestsSound'
<1>1. /\ UNCHANGED <<granted, allowed>> /\ requests[q] = "PENDING"
      /\ decisions' = decisions \cup {<<q, actor, NoGrant>>}
      /\ requests' = IF n = 3 THEN [requests EXCEPT ![q] = "DENIED"] ELSE requests
  BY DEF Deny, MayDecide, releaseVars
<1>2. \A p \in Requests : requests'[p] # requests[p] => p = q /\ requests'[p] = "DENIED"
  BY <1>1 DEF AuthorityInv, RequestsSound
<1>3. \A d \in decisions' : d \in decisions \/ d[3] = NoGrant
  BY <1>1
<1>4. \A g \in granted : RequestOf[g] \in Requests
  BY AuthorityConstantsOK DEF AuthorityInv, SafetyInv, ReleaseTypeOK
<1>5. requests' \in [Requests -> Status]
  BY <1>1 DEF AuthorityInv, RequestsSound, Status
<1> QED BY <1>1, <1>2, <1>3, <1>4, <1>5 DEF AuthorityInv, RequestsSound

LEMMA QuietKeeps ==
  ASSUME AuthorityInv, UNCHANGED <<granted, requests, decisions>>, allowed' \subseteq granted
  PROVE  RequestsSound'
  BY DEF AuthorityInv, RequestsSound

LEMMA RequestsNext ==
  ASSUME AuthorityInv, [AuthorityNext]_authorityVars
  PROVE  RequestsSound'
<1>1. ASSUME NEW q \in Requests, Lapse(q) PROVE RequestsSound'
  BY <1>1, QuietKeeps DEF Lapse, Expire, AuthorityInv, RequestsSound
<1>2. ASSUME NEW action, NEW artifacts, Authorize(action, artifacts) PROVE RequestsSound'
  BY <1>2, QuietKeeps DEF Authorize, releaseVars, AuthorityInv, RequestsSound
<1>3. CASE Deploying /\ UNCHANGED requestVars
  BY <1>3, QuietKeeps, DeployingGrantsNothing DEF requestVars, AuthorityInv, RequestsSound
<1>4. CASE UNCHANGED authorityVars
  BY <1>4, QuietKeeps DEF authorityVars, releaseVars, requestVars, AuthorityInv, RequestsSound
<1> QED BY <1>1, <1>2, <1>3, <1>4, RequestKeeps, ApproveKeeps, DenyKeeps DEF AuthorityNext

-----------------------------------------------------------------------------
(* The theorems *)

LEMMA AuthorityStep ==
  ASSUME OneArtifactPerKey, AuthorityInv, [AuthorityNext]_authorityVars
  PROVE  AuthorityInv'
<1>1. [ReleaseNext]_releaseVars
  BY StepsRelease DEF AuthorityInv, authorityVars
<1>2. SafetyInv'
  BY <1>1, SafetyNext DEF AuthorityInv
<1>3. SentIsOfRow'
  BY <1>1, StepSendsOfRow, SendsPreserved DEF AuthorityInv
<1>4. RequestsSound'
  BY RequestsNext
<1> QED BY <1>2, <1>3, <1>4 DEF AuthorityInv

LEMMA AuthorityStart ==
  ASSUME AuthorityInit
  PROVE  AuthorityInv
<1>1. ReleaseInit
  BY DEF AuthorityInit
<1>2. RequestsSound
  BY <1>1 DEF AuthorityInit, ReleaseInit, RequestsSound, Status
<1> QED BY <1>1, <1>2, SafetyInit, SentInit DEF AuthorityInv

LEMMA InvDecisionsHold ==
  ASSUME AuthorityInv
  PROVE  DecisionsHold
<1>1. \A g \in allowed : g \in granted /\ requests[RequestOf[g]] # "NONE"
  BY DEF AuthorityInv, RequestsSound
<1>2. ASSUME NEW k \in Keys, Reached(k, "deploy")
      PROVE  \E q \in Requests, g \in consumed :
               /\ RequestOf[g] = q /\ requests[q] # "NONE"
               /\ GrantFor[g] \in {dest[k]["deploy"], NoArtifact}
  <2>1. dest[k]["deploy"] \in Artifacts
    BY <1>2 DEF AuthorityInv, SafetyInv, ReleaseTypeOK, Reached, Kinds
  <2>2. Inserted(k) /\ deployments[k].artifact = dest[k]["deploy"]
    BY <2>1 DEF AuthorityInv, SafetyInv, EffectsHaveRows, SentIsOfRow, Sent, Kinds
  <2>3. /\ deployments[k].grant \in consumed
        /\ GrantFor[deployments[k].grant] \in {dest[k]["deploy"], NoArtifact}
    BY <2>2 DEF AuthorityInv, SafetyInv, RowsApproved
  <2>4. /\ deployments[k].grant \in granted
        /\ RequestOf[deployments[k].grant] \in Requests
        /\ requests[RequestOf[deployments[k].grant]] # "NONE"
    BY <2>3, AuthorityConstantsOK DEF AuthorityInv, SafetyInv, ReleaseTypeOK, RequestsSound
  <2> QED BY <2>3, <2>4
<1> QED BY <1>1, <1>2 DEF AuthorityInv, RequestsSound, DecisionsHold

\* Deciding requests in front of it, with a crash behind any statement, the
\* release behaves as Release says: every step maps to one of its steps or to
\* a stutter (approvals.ts:98).
THEOREM AuthorityImplementsRelease == AuthoritySpec => ReleaseSpec
<1>1. AuthorityInit => SafetyInv /\ ReleaseInit
  BY SafetyInit DEF AuthorityInit
<1>2. SafetyInv /\ [AuthorityNext]_authorityVars => SafetyInv' /\ [ReleaseNext]_releaseVars
  BY StepsRelease, SafetyNext DEF authorityVars
<1> QED BY <1>1, <1>2, PTL DEF AuthoritySpec, ReleaseSpec

\* What the request, the decision and the audit say has been granted is in the
\* approvals, and what the destination did goes back to a request that was made,
\* with any requests, grants, actors and crashes (approvals.ts:66, 82, 120).
THEOREM DecisionsHoldAlways ==
  ASSUME OneArtifactPerKey
  PROVE  AuthoritySpec => []DecisionsHold
<1>1. AuthorityInit => AuthorityInv
  BY AuthorityStart
<1>2. AuthorityInv /\ [AuthorityNext]_authorityVars => AuthorityInv'
  BY AuthorityStep
<1>3. AuthorityInv => DecisionsHold
  BY InvDecisionsHold
<1> QED BY <1>1, <1>2, <1>3, PTL DEF AuthoritySpec

\* decide() reaches its last statements: the approvals row and the status of the
\* request change in one step, the process does not die between them.
ApprovedWhole == \A g \in granted' \ granted : requests'[RequestOf[g]] = "APPROVED"

\* What was granted is of an approved request, which has no second grant.
GrantedOnce ==
  /\ \A g \in granted : requests[RequestOf[g]] = "APPROVED"
  /\ \A g, h \in granted : RequestOf[g] = RequestOf[h] => g = h

LEMMA GrantedOnceKept ==
  ASSUME SafetyInv, requests \in [Requests -> Status], GrantedOnce,
         [AuthorityNext]_authorityVars, [ApprovedWhole]_authorityVars
  PROVE  GrantedOnce'
<1>1. granted \subseteq Grants /\ RequestOf \in [Grants -> Requests]
  BY AuthorityConstantsOK DEF SafetyInv, ReleaseTypeOK
<1>2. ASSUME NEW q \in Requests, NEW to \in {"PENDING", "DENIED"}, granted' = granted,
             requests' = [requests EXCEPT ![q] = to] \/ requests' = requests,
             requests[q] \in {"NONE", "PENDING"}
      PROVE  GrantedOnce'
  BY <1>1, <1>2 DEF GrantedOnce
<1>3. ASSUME NEW q \in Requests, Request(q) PROVE GrantedOnce'
  BY <1>2, <1>3 DEF Request, releaseVars
<1>4. ASSUME NEW q \in Requests, NEW actor \in Actors, NEW n \in 1..3, Deny(q, actor, n) PROVE GrantedOnce'
  BY <1>2, <1>4 DEF Deny, MayDecide, releaseVars
<1>5. ASSUME NEW q \in Requests, NEW actor \in Actors, NEW g \in Grants, NEW n \in 1..3,
             Approve(q, actor, g, n)
      PROVE  GrantedOnce'
  <2>1. /\ granted' = granted \cup {g} /\ g \notin granted /\ RequestOf[g] = q /\ requests[q] = "PENDING"
        /\ \A p \in Requests : requests[p] = "APPROVED" => requests'[p] = "APPROVED"
    BY <1>5 DEF Approve, Grant, MayDecide
  <2>2. requests'[q] = "APPROVED"
    BY <2>1 DEF ApprovedWhole, authorityVars, releaseVars
  <2>3. \A h \in granted : RequestOf[h] # q
    BY <2>1 DEF GrantedOnce
  <2> QED BY <1>1, <2>1, <2>2, <2>3 DEF GrantedOnce
<1>6. ASSUME UNCHANGED <<granted, requests>> PROVE GrantedOnce'
  BY <1>6 DEF GrantedOnce
<1>7. CASE Deploying /\ UNCHANGED requestVars
  BY <1>6, <1>7, DeployingGrantsNothing DEF requestVars
<1>8. ASSUME NEW q \in Requests, Lapse(q) PROVE GrantedOnce'
  BY <1>6, <1>8 DEF Lapse, Expire
<1>9. ASSUME NEW action, NEW artifacts, Authorize(action, artifacts) PROVE GrantedOnce'
  BY <1>6, <1>9 DEF Authorize, releaseVars
<1> QED
  BY <1>3, <1>4, <1>5, <1>6, <1>7, <1>8, <1>9 DEF AuthorityNext, authorityVars, releaseVars, requestVars

\* docs/SECURITY_AND_RELEASE.md:120: if no process dies between the statements of
\* an approval, a denied request has no grant, and an approved one has one only.
THEOREM DeniedHasNoGrantIfWhole ==
  AuthoritySpec /\ [][ApprovedWhole]_authorityVars => [](DeniedHasNoGrant /\ GrantedOnce)
<1> DEFINE Inv == SafetyInv /\ requests \in [Requests -> Status] /\ GrantedOnce
<1>1. AuthorityInit => Inv
  BY SafetyInit DEF AuthorityInit, ReleaseInit, Status, GrantedOnce
<1>2. ASSUME Inv, [AuthorityNext]_authorityVars, [ApprovedWhole]_authorityVars PROVE Inv'
  <2>1. SafetyInv' /\ GrantedOnce'
    BY <1>2, StepsRelease, SafetyNext, GrantedOnceKept DEF authorityVars
  <2>2. requests' \in [Requests -> Status]
    BY <1>2 DEF AuthorityNext, Request, Lapse, Deny, Approve, Authorize, requestVars, authorityVars, Status
  <2> QED BY <2>1, <2>2
<1>3. Inv => DeniedHasNoGrant /\ GrantedOnce
  BY DEF DeniedHasNoGrant, GrantedOnce
<1> QED BY <1>1, <1>2, <1>3, PTL DEF AuthoritySpec

-----------------------------------------------------------------------------
(***************************************************************************)
(* Evidence                                                                *)
(***************************************************************************)

TrustRow == [key : 1 .. MaxKeys, revoked : BOOLEAN]

KeyTypes ==
  /\ trust \in [Issuers -> TrustRow \cup {NoRow}]
  /\ keyFile \in [Issuers -> KeyOrNone]
  /\ made \in 0 .. MaxKeys /\ revoked \subseteq 1 .. made /\ writing \subseteq Issuers

HasRow(i) == trust[i] # NoRow
HasFile(i) == keyFile[i] # NoKey

\* A key was made for one issuer: it is in no other issuer's file or row.
KeysApart ==
  /\ \A i \in Issuers : (HasRow(i) => trust[i].key <= made) /\ (HasFile(i) => keyFile[i] <= made)
  /\ \A i, j \in Issuers : i # j =>
       /\ HasFile(i) /\ HasFile(j) => keyFile[i] # keyFile[j]
       /\ HasRow(i) /\ HasFile(j) => trust[i].key # keyFile[j]
       /\ HasRow(i) /\ HasRow(j) => trust[i].key # trust[j].key

\* A key that is about to be registered is in its file and in no row, so it
\* cannot have been revoked; a row that resolves names a key that was not.
KeysSound ==
  /\ \A i \in writing :
       HasFile(i) /\ keyFile[i] \notin revoked /\ (HasRow(i) => trust[i].key # keyFile[i])
  /\ \A i \in Issuers : Resolves(i) => trust[i].key \notin revoked

KeyInv == KeyTypes /\ KeysApart /\ KeysSound

\* Evidence is about the artifact and the revision of its candidate.
EnvelopesBound ==
  \A e \in envelopes : e.issuer \in Issuers /\
    (e.kind = "evidence" /\ e.subject \in Candidates =>
       e.artifact = ArtifactOf[e.subject] /\ e.revision = RevisionOf[e.subject])

VerdictsBound ==
  /\ \A v \in verdicts :
       /\ ~v.late /\ v.evidence.passed /\ v.subject \in Candidates
       /\ v.evidence.artifact = ArtifactOf[v.subject] /\ v.evidence.revision = RevisionOf[v.subject]
  /\ \A v \in ready : ~v.late /\ v.evidence.passed /\ v.evidence.kind = "document_evidence"

AttestationsBound ==
  /\ \A a \in attestations : \E v \in verdicts :
       v.evidence.artifact = a.artifact /\ v.evidence.revision = a.revision
  /\ \A p \in promotable : \E v \in verdicts :
       v.evidence.artifact = p.artifact /\ v.evidence.revision = p.revision

EvidenceInv == KeyInv /\ EnvelopesBound /\ VerdictsBound /\ AttestationsBound

-----------------------------------------------------------------------------
(* Keys *)

LEMMA RowType ==
  ASSUME KeyTypes, NEW i \in Issuers, HasRow(i)
  PROVE  trust[i] \in TrustRow /\ trust[i].key \in 1 .. MaxKeys
  BY DEF KeyTypes, HasRow, TrustRow

LEMMA GenerateKeyInv ==
  ASSUME KeyInv, NEW i \in Issuers, GenerateKey(i)
  PROVE  KeyInv'
<1> USE EvidenceConstantsOK
<1>1. /\ made \in Nat /\ made' = made + 1 /\ made' \in 1 .. MaxKeys /\ made' # NoKey
      /\ keyFile' = [keyFile EXCEPT ![i] = made'] /\ ~HasFile(i)
      /\ writing' = writing \cup {i} /\ UNCHANGED <<trust, revoked>>
  BY DEF KeyInv, KeyTypes, GenerateKey, HasFile
<1>2. KeyTypes'
  BY <1>1 DEF KeyInv, KeyTypes, KeyOrNone
<1>3. /\ keyFile'[i] = made' /\ HasFile(i)'
      /\ \A j \in Issuers \ {i} : keyFile'[j] = keyFile[j] /\ HasFile(j)' = HasFile(j)
  BY <1>1 DEF KeyInv, KeyTypes, HasFile
<1>4. \A j \in Issuers : HasRow(j)' = HasRow(j) /\ (HasRow(j) => trust[j].key \in 1 .. made)
  BY <1>1, RowType DEF KeyInv, KeysApart, HasRow
<1>5. \A j \in Issuers : HasFile(j) => keyFile[j] \in 1 .. made
  BY DEF KeyInv, KeyTypes, KeysApart, KeyOrNone, HasFile
<1>6. KeysApart'
  BY <1>1, <1>3, <1>4, <1>5 DEF KeyInv, KeysApart
<1>7. KeysSound'
  <2>1. \A j \in writing' :
          HasFile(j)' /\ keyFile'[j] \notin revoked /\ (HasRow(j) => trust[j].key # keyFile'[j])
    BY <1>1, <1>3, <1>4, <1>5 DEF KeyInv, KeyTypes, KeysSound
  <2>2. \A j \in Issuers : Resolves(j)' => trust'[j].key \notin revoked'
    BY <1>1 DEF KeyInv, KeysSound, Resolves
  <2>3. writing' \subseteq Issuers /\ revoked' = revoked /\ trust' = trust
    BY <1>1 DEF KeyInv, KeyTypes
  <2>4. \A j \in writing' :
          HasFile(j)' /\ keyFile'[j] \notin revoked' /\ (HasRow(j)' => trust'[j].key # keyFile'[j])
    BY <1>4, <2>1, <2>3
  <2> QED BY <2>2, <2>4 DEF KeysSound
<1> QED BY <1>2, <1>6, <1>7 DEF KeyInv

LEMMA RegisterKeyInv ==
  ASSUME KeyInv, NEW i \in Issuers, RegisterKey(i)
  PROVE  KeyInv'
<1> DEFINE row == [key |-> keyFile[i], revoked |-> FALSE]
<1>1. /\ trust' = [trust EXCEPT ![i] = row] /\ i \in writing /\ writing' = writing \ {i}
      /\ UNCHANGED <<keyFile, made, revoked>>
  BY DEF RegisterKey, Registered
<1>2. HasFile(i) /\ keyFile[i] \in 1 .. MaxKeys /\ keyFile[i] \notin revoked
  BY <1>1 DEF KeyInv, KeyTypes, KeysSound, KeyOrNone, HasFile
<1>3. row \in TrustRow /\ row.key = keyFile[i] /\ ~row.revoked
  BY <1>2 DEF TrustRow
<1> HIDE DEF row
<1>4. /\ trust'[i] = row /\ \A j \in Issuers \ {i} : trust'[j] = trust[j]
  BY <1>1 DEF KeyInv, KeyTypes
<1>5. KeyTypes'
  BY <1>1, <1>3 DEF KeyInv, KeyTypes
<1>6. KeysApart'
  BY <1>1, <1>2, <1>3, <1>4 DEF KeyInv, KeysApart, HasRow, HasFile
<1>7. KeysSound'
  BY <1>1, <1>2, <1>3, <1>4 DEF KeyInv, KeysApart, KeysSound, Resolves, HasRow, HasFile, KeyTypes
<1> QED BY <1>5, <1>6, <1>7 DEF KeyInv

LEMMA RevokeKeyInv ==
  ASSUME KeyInv, NEW i \in Issuers, RevokeKey(i)
  PROVE  KeyInv'
<1> DEFINE row == [trust[i] EXCEPT !.revoked = TRUE]
<1>1. /\ trust' = [trust EXCEPT ![i] = row] /\ HasRow(i) /\ revoked' = revoked \cup {trust[i].key}
      /\ UNCHANGED <<keyFile, made, writing>>
  BY DEF RevokeKey, HasRow
<1>2. trust[i] \in TrustRow /\ trust[i].key \in 1 .. made
  BY <1>1, RowType, EvidenceConstantsOK DEF KeyInv, KeysApart, KeyTypes
<1>3. row \in TrustRow /\ row.key = trust[i].key /\ row.revoked
  BY <1>2 DEF TrustRow
<1> HIDE DEF row
<1>4. trust'[i] = row /\ \A j \in Issuers \ {i} : trust'[j] = trust[j]
  BY <1>1 DEF KeyInv, KeyTypes
<1>5. KeyTypes'
  BY <1>1, <1>2, <1>3 DEF KeyInv, KeyTypes
<1>6. KeysApart'
  BY <1>1, <1>3, <1>4 DEF KeyInv, KeysApart, HasRow, HasFile
<1>7. KeysSound'
  BY <1>1, <1>3, <1>4 DEF KeyInv, KeyTypes, KeysApart, KeysSound, Resolves, HasRow, HasFile
<1> QED BY <1>5, <1>6, <1>7 DEF KeyInv

LEMMA KeyFileInv ==
  ASSUME KeyInv, NEW i \in Issuers, OpenSigner(i) \/ VerifierEnds(i) \/ RemoveKey(i)
  PROVE  KeyInv'
<1>1. /\ UNCHANGED <<trust, made, revoked>> /\ writing' \subseteq writing
      /\ \/ keyFile' = keyFile
         \/ keyFile' = [keyFile EXCEPT ![i] = NoKey] /\ i \notin writing'
  BY DEF OpenSigner, VerifierEnds, RemoveKey
<1>2. KeyTypes'
  BY <1>1 DEF KeyInv, KeyTypes, KeyOrNone
<1>3. \A j \in Issuers : keyFile'[j] = keyFile[j] \/ (j = i /\ ~HasFile(j)' /\ j \notin writing')
  BY <1>1 DEF KeyInv, KeyTypes, HasFile
<1>4. KeysApart'
  BY <1>1, <1>3 DEF KeyInv, KeysApart, HasRow, HasFile
<1>5. KeysSound'
  BY <1>1, <1>3 DEF KeyInv, KeyTypes, KeysSound, HasRow, HasFile, Resolves
<1> QED BY <1>2, <1>4, <1>5 DEF KeyInv

-----------------------------------------------------------------------------
(* Envelopes and what is decided on them *)

LEMMA EnvelopeBoundInv ==
  ASSUME EnvelopesBound, NEW i \in Issuers,
         \/ \E passed \in BOOLEAN, c \in Candidates : Seal(i, c, passed)
         \/ \E observations \in {<<>>, <<TRUE>>, <<TRUE, FALSE>>} : SealDocument(i, observations)
  PROVE  EnvelopesBound' /\ UNCHANGED <<keyVars, verdictVars>>
<1>1. CASE \E passed \in BOOLEAN, c \in Candidates : Seal(i, c, passed)
  <2>1. PICK passed \in BOOLEAN, c \in Candidates : Seal(i, c, passed)
    BY <1>1
  <2> DEFINE e == [kind |-> "evidence", issuer |-> i, key |-> signer[i], subject |-> c,
           attempt |-> attempt[c], revision |-> RevisionOf[c], artifact |-> ArtifactOf[c],
           passed |-> passed]
  <2>2. envelopes' = envelopes \cup {e} /\ UNCHANGED <<keyVars, verdictVars>>
    BY <2>1 DEF Seal, KeepEnvelope
  <2>3. e.issuer = i /\ e.subject = c /\ e.artifact = ArtifactOf[c] /\ e.revision = RevisionOf[c]
    OBVIOUS
  <2> HIDE DEF e
  <2> QED BY <2>2, <2>3 DEF EnvelopesBound
<1>2. CASE \E observations \in {<<>>, <<TRUE>>, <<TRUE, FALSE>>} : SealDocument(i, observations)
  <2>1. PICK observations \in {<<>>, <<TRUE>>, <<TRUE, FALSE>>} : SealDocument(i, observations)
    BY <1>2
  <2> DEFINE e == [kind |-> "document_evidence", issuer |-> i, key |-> signer[i], subject |-> Job,
           attempt |-> attempt[Job], revision |-> revision, artifact |-> output,
           passed |-> ResultOf(observations)]
  <2>2. envelopes' = envelopes \cup {e} /\ UNCHANGED <<keyVars, verdictVars>>
    BY <2>1 DEF SealDocument, KeepEnvelope
  <2>3. e.issuer = i /\ e.kind # "evidence"
    OBVIOUS
  <2> HIDE DEF e
  <2> QED BY <2>2, <2>3 DEF EnvelopesBound
<1> QED BY <1>1, <1>2

\* What opens under a row that resolves was signed with a key not revoked yet.
LEMMA OpenedIsSound ==
  ASSUME KeyInv, EnvelopesBound, NEW e \in envelopes, NEW kind, Opens(e, kind)
  PROVE  e.key \notin revoked /\ e.kind = kind
  BY DEF KeyInv, KeysSound, EnvelopesBound, Opens

LEMMA VerdictFields ==
  ASSUME NEW s, NEW e
  PROVE  /\ Verdict(s, e).subject = s /\ Verdict(s, e).evidence = e
         /\ Verdict(s, e).late <=> e.key \in revoked
  BY DEF Verdict

LEMMA DecideBound ==
  ASSUME EvidenceInv, NEW e \in envelopes, NEW c \in Candidates, DecideReadiness(c, e)
  PROVE  VerdictsBound' /\ AttestationsBound' /\ UNCHANGED <<keyVars, envelopes>>
<1> DEFINE v == Verdict(c, e)
<1>1. /\ OpenEnvelope(e) /\ e.subject = c /\ e.passed
      /\ verdicts' = verdicts \cup {v}
      /\ UNCHANGED <<keyVars, envelopes, ready, attestations, promotable>>
  BY DEF DecideReadiness, VerifiedForScope
<1>2. e.key \notin revoked /\ e.kind = "evidence"
  BY <1>1, OpenedIsSound DEF EvidenceInv, OpenEnvelope
<1>3. v.subject = c /\ v.evidence = e /\ ~v.late
  BY <1>2, VerdictFields
<1>4. e.artifact = ArtifactOf[c] /\ e.revision = RevisionOf[c]
  BY <1>1, <1>2 DEF EvidenceInv, EnvelopesBound
<1> HIDE DEF v
<1>5. VerdictsBound'
  BY <1>1, <1>3, <1>4 DEF EvidenceInv, VerdictsBound
<1>6. AttestationsBound'
  BY <1>1 DEF EvidenceInv, AttestationsBound
<1> QED BY <1>1, <1>5, <1>6

LEMMA DecideDocumentBound ==
  ASSUME EvidenceInv, NEW e \in envelopes, DecideDocumentReadiness(e)
  PROVE  VerdictsBound' /\ AttestationsBound' /\ UNCHANGED <<keyVars, envelopes>>
<1> DEFINE v == Verdict(Job, e)
<1>1. /\ OpenDocumentEnvelope(e) /\ e.passed /\ ready' = ready \cup {v}
      /\ UNCHANGED <<keyVars, envelopes, verdicts, attestations, promotable>>
  BY DEF DecideDocumentReadiness, ReadyForScope
<1>2. e.key \notin revoked /\ e.kind = "document_evidence"
  BY <1>1, OpenedIsSound DEF EvidenceInv, OpenDocumentEnvelope
<1>3. v.evidence = e /\ ~v.late
  BY <1>2, VerdictFields
<1> HIDE DEF v
<1>4. VerdictsBound' /\ AttestationsBound'
  BY <1>1, <1>2, <1>3 DEF EvidenceInv, VerdictsBound, AttestationsBound
<1> QED BY <1>1, <1>4

LEMMA AttestBound ==
  ASSUME EvidenceInv, NEW v \in verdicts, NEW c \in Candidates, Attest(c, v)
  PROVE  VerdictsBound' /\ AttestationsBound' /\ UNCHANGED <<keyVars, envelopes>>
<1> DEFINE a == Attestation(c, v)
<1>1. /\ v.subject = c /\ attestations' = attestations \cup {a}
      /\ UNCHANGED <<keyVars, envelopes, verdicts, ready, promotable>>
  BY DEF Attest
<1>2. a.artifact = ArtifactOf[c] /\ a.revision = RevisionOf[c]
  BY DEF Attestation
<1>3. v.evidence.artifact = a.artifact /\ v.evidence.revision = a.revision
  BY <1>1, <1>2 DEF EvidenceInv, VerdictsBound
<1> HIDE DEF a
<1>4. VerdictsBound' /\ AttestationsBound'
  BY <1>1, <1>3 DEF EvidenceInv, VerdictsBound, AttestationsBound
<1> QED BY <1>1, <1>4

LEMMA PromotableBound ==
  ASSUME EvidenceInv, NEW a \in attestations, NEW artifact \in Digests, CheckPromotable(a, artifact)
  PROVE  VerdictsBound' /\ AttestationsBound' /\ UNCHANGED <<keyVars, envelopes>>
<1> DEFINE p == [artifact |-> artifact, revision |-> revision]
<1>1. /\ a.artifact = artifact /\ a.revision = revision /\ promotable' = promotable \cup {p}
      /\ UNCHANGED <<keyVars, envelopes, verdicts, ready, attestations>>
  BY DEF CheckPromotable
<1>2. p.artifact = a.artifact /\ p.revision = a.revision
  BY <1>1
<1> HIDE DEF p
<1>3. VerdictsBound' /\ AttestationsBound'
  BY <1>1, <1>2 DEF EvidenceInv, VerdictsBound, AttestationsBound
<1> QED BY <1>1, <1>3

-----------------------------------------------------------------------------
(* The invariant *)

LEMMA KeyInvKept ==
  ASSUME KeyInv, UNCHANGED keyVars
  PROVE  KeyInv'
  BY DEF KeyInv, KeyTypes, KeysApart, KeysSound, HasRow, HasFile, Resolves, keyVars

LEMMA EnvelopesKept ==
  ASSUME EnvelopesBound, UNCHANGED envelopes
  PROVE  EnvelopesBound'
  BY DEF EnvelopesBound

LEMMA VerdictsKept ==
  ASSUME VerdictsBound, AttestationsBound, UNCHANGED verdictVars
  PROVE  VerdictsBound' /\ AttestationsBound'
  BY DEF VerdictsBound, AttestationsBound, verdictVars

LEMMA KeyNextInv ==
  ASSUME EvidenceInv, NEW i \in Issuers, KeyNext(i)
  PROVE  EvidenceInv'
<1>1. CASE \/ GenerateKey(i) \/ RegisterKey(i) \/ RevokeKey(i)
           \/ OpenSigner(i) \/ VerifierEnds(i) \/ RemoveKey(i)
  <2>1. KeyInv'
    BY <1>1, GenerateKeyInv, RegisterKeyInv, RevokeKeyInv, KeyFileInv DEF EvidenceInv
  <2>2. UNCHANGED <<envelopes, verdictVars>>
    BY <1>1 DEF GenerateKey, RegisterKey, RevokeKey, OpenSigner, VerifierEnds, RemoveKey
  <2> QED BY <2>1, <2>2, EnvelopesKept, VerdictsKept DEF EvidenceInv
<1>2. CASE \/ \E passed \in BOOLEAN, c \in Candidates : Seal(i, c, passed)
           \/ \E observations \in {<<>>, <<TRUE>>, <<TRUE, FALSE>>} : SealDocument(i, observations)
  BY <1>2, EnvelopeBoundInv, KeyInvKept, VerdictsKept DEF EvidenceInv
<1> QED BY <1>1, <1>2 DEF KeyNext

LEMMA DecisionInv ==
  ASSUME EvidenceInv,
         \/ \E e \in envelopes : DecideDocumentReadiness(e) \/ \E c \in Candidates : DecideReadiness(c, e)
         \/ \E v \in verdicts, c \in Candidates : Attest(c, v)
         \/ \E a \in attestations, artifact \in Digests : CheckPromotable(a, artifact)
  PROVE  EvidenceInv'
<1>1. VerdictsBound' /\ AttestationsBound' /\ UNCHANGED <<keyVars, envelopes>>
  BY DecideBound, DecideDocumentBound, AttestBound, PromotableBound
<1> QED BY <1>1, KeyInvKept, EnvelopesKept DEF EvidenceInv

LEMMA SurroundingsInv ==
  ASSUME EvidenceInv,
         \/ \E e \in envelopes : Ages(e)
         \/ \E s \in Subjects : NewAttempt(s)
         \/ \E a \in Digests : NewOutput(a)
         \/ NewRevision \/ RegisterDocumentPolicy \/ UNCHANGED evidenceVars
  PROVE  EvidenceInv'
<1>1. UNCHANGED <<keyVars, envelopes, verdictVars>>
  BY DEF Ages, NewAttempt, NewOutput, NewRevision, RegisterDocumentPolicy, evidenceVars
<1> QED BY <1>1, KeyInvKept, EnvelopesKept, VerdictsKept DEF EvidenceInv

\* The invariant holds in every state: keys are each issuer's own, envelopes
\* are about what they were sealed for, and every answer rests on one that
\* opened under a key not revoked at the time (evidence.ts, verdict.ts).
THEOREM EvidenceInvariant == EvidenceSpec => []EvidenceInv
<1>1. EvidenceInit => EvidenceInv
  BY EvidenceConstantsOK
     DEF EvidenceInit, EvidenceInv, KeyInv, KeyTypes, KeysApart, KeysSound, EnvelopesBound,
         VerdictsBound, AttestationsBound, KeyOrNone, HasRow, HasFile, Resolves
<1>2. EvidenceInv /\ [EvidenceNext]_evidenceVars => EvidenceInv'
  <2>1. ASSUME EvidenceInv, EvidenceNext PROVE EvidenceInv'
    BY <2>1, KeyNextInv, DecisionInv, SurroundingsInv DEF EvidenceNext
  <2> QED BY <2>1, SurroundingsInv
<1> QED BY <1>1, <1>2, PTL DEF EvidenceSpec

\* Whatever was revoked, replaced, restarted or rebuilt in between, no verdict
\* rests on a key revoked before it and what is answered promotable was
\* checked at the revision of then (attestation.ts:1-7).
THEOREM PromotionsEvidenced == EvidenceSpec => []PromotionIsEvidenced
<1>1. EvidenceInv => PromotionIsEvidenced
  BY DEF EvidenceInv, VerdictsBound, AttestationsBound, PromotionIsEvidenced
<1> QED BY <1>1, EvidenceInvariant, PTL
=============================================================================
