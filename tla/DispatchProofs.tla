--------------------------- MODULE DispatchProofs ---------------------------
(* Proofs about Dispatch: its handlers keep the lease protocol, delegation  *)
(* stays within its limits, events are billed once, and every account draws *)
(* on the budget as Ledger allows, for every project, policy and estimate.  *)
EXTENDS Dispatch, LeasesProofs, FiniteSetTheorems

DispatchInv ==
  /\ LeaseInv
  /\ DispatchTypeOK
  /\ DelegationBounded
  /\ BilledOnce

\* Every step of the handlers is a lease step or leaves the leases alone.
LEMMA DispatchStepIsLeaseStep ==
  ASSUME [DispatchNext]_dispatchVars
  PROVE  [LeaseNext]_leaseVars
<1>1. ASSUME NEW a \in Attempts, AdmitRequest(a) PROVE LeaseNext
  BY <1>1 DEF AdmitRequest, LeaseNext
<1>2. ASSUME OtherLeaseStep PROVE LeaseNext
  BY <1>2 DEF OtherLeaseStep, LeaseNext
<1> QED
  BY <1>1, <1>2
  DEF DispatchNext, dispatchVars, Settle, ReserveForDocument, RecordUsage,
      RecordDocumentUsage, SetPolicy

-----------------------------------------------------------------------------
(* Types *)

LEMMA IntoInt ==
  ASSUME NEW f \in [Accounts -> Int], NEW c \in Accounts, NEW n \in Int
  PROVE  /\ Into(f, c, n) \in [Accounts -> Int]
         /\ \A d \in Runs \cup {Documents} :
              Into(f, c, n)[d] = IF d = c THEN f[d] + n ELSE f[d]
  BY DispatchConstantsOK DEF Into, Accounts

LEMMA IntoNat ==
  ASSUME NEW f \in [Accounts -> Nat], NEW c \in Accounts, NEW n \in Nat
  PROVE  /\ Into(f, c, n) \in [Accounts -> Nat]
         /\ \A d \in Runs \cup {Documents} :
              Into(f, c, n)[d] = IF d = c THEN f[d] + n ELSE f[d]
  BY DispatchConstantsOK DEF Into, Accounts

LEMMA BillEffect ==
  ASSUME DispatchTypeOK, NEW ev \in Events, NEW complete \in BOOLEAN, NEW cost \in Costs,
         Bill(ev, complete, cost)
  PROVE  /\ EventRun[ev] \in Runs \cup {Documents}
         /\ ev \notin recorded /\ recorded' = recorded \cup {ev}
         /\ known' \in [Accounts -> Nat] /\ unknown' \in [Accounts -> Nat]
         /\ \A c \in Runs \cup {Documents} :
              \/ c # EventRun[ev] /\ known'[c] = known[c] /\ unknown'[c] = unknown[c]
              \/ c = EventRun[ev] /\ known'[c] = known[c] + cost /\ unknown'[c] = unknown[c]
              \/ c = EventRun[ev] /\ known'[c] = known[c] /\ unknown'[c] = unknown[c] + 1
<1> DEFINE e == EventRun[ev]
<1>1. e \in Runs \cup {Documents} /\ e \in Accounts /\ cost \in Nat /\ 1 \in Nat
  BY DispatchConstantsOK DEF Accounts
<1>2. known \in [Accounts -> Nat] /\ unknown \in [Accounts -> Nat]
  BY DEF DispatchTypeOK
<1>3. /\ ev \notin recorded /\ recorded' = recorded \cup {ev}
      /\ \/ known' = Into(known, e, cost) /\ unknown' = unknown
         \/ unknown' = Into(unknown, e, 1) /\ known' = known
  BY DEF Bill
<1> HIDE DEF e
<1>4. /\ Into(known, e, cost) \in [Accounts -> Nat]
      /\ \A d \in Runs \cup {Documents} :
           Into(known, e, cost)[d] = IF d = e THEN known[d] + cost ELSE known[d]
  BY <1>1, <1>2, IntoNat
<1>5. /\ Into(unknown, e, 1) \in [Accounts -> Nat]
      /\ \A d \in Runs \cup {Documents} :
           Into(unknown, e, 1)[d] = IF d = e THEN unknown[d] + 1 ELSE unknown[d]
  BY <1>1, <1>2, IntoNat
<1>6. /\ known' \in [Accounts -> Nat] /\ unknown' \in [Accounts -> Nat]
      /\ \A c \in Runs \cup {Documents} :
           \/ c # e /\ known'[c] = known[c] /\ unknown'[c] = unknown[c]
           \/ c = e /\ known'[c] = known[c] + cost /\ unknown'[c] = unknown[c]
           \/ c = e /\ known'[c] = known[c] /\ unknown'[c] = unknown[c] + 1
  BY <1>2, <1>3, <1>4, <1>5
<1> QED BY <1>1, <1>3, <1>6 DEF e

LEMMA BudgetTypes ==
  ASSUME DispatchTypeOK, [DispatchNext]_dispatchVars
  PROVE  /\ policy' \in Policies
         /\ rows' \in [Attempts -> Nat]
         /\ taken' \in [Attempts \cup {Documents} -> 0..MaxRows]
         /\ open' \in [Accounts -> Int] /\ known' \in [Accounts -> Nat]
         /\ unknown' \in [Accounts -> Nat]
         /\ recorded' \subseteq Events
<1> USE DEF DispatchTypeOK
<1>1. ASSUME NEW a \in Attempts PROVE RunOf[a] \in Accounts /\ EstimateOf[a] \in Int
  BY ConstantsOK, DispatchConstantsOK DEF Accounts
<1>2. ASSUME NEW a \in Attempts, AdmitRequest(a)
      PROVE  /\ rows' \in [Attempts -> Nat]
             /\ taken' \in [Attempts \cup {Documents} -> 0..MaxRows]
             /\ open' \in [Accounts -> Int]
  <2>1. open' \in [Accounts -> Int]
    BY <1>1, <1>2, IntoInt DEF AdmitRequest, Reserve
  <2>2. rows' \in [Attempts -> Nat] /\ taken' \in [Attempts \cup {Documents} -> 0..MaxRows]
    BY <1>2, DispatchConstantsOK DEF AdmitRequest, Reserve
  <2> QED BY <2>1, <2>2
<1>3. ASSUME NEW a \in Attempts, Settle(a)
      PROVE  rows' \in [Attempts -> Nat] /\ open' \in [Accounts -> Int]
  <2>1. 0 - EstimateOf[a] \in Int
    BY <1>1
  <2>2. open' \in [Accounts -> Int]
    BY <1>1, <1>3, <2>1, IntoInt DEF Settle
  <2>3. rows' \in [Attempts -> Nat]
    BY <1>3 DEF Settle
  <2> QED BY <2>2, <2>3
<1>4. ASSUME ReserveForDocument
      PROVE  /\ taken' \in [Attempts \cup {Documents} -> 0..MaxRows]
             /\ open' \in [Accounts -> Int]
  <2>1. DocEstimate \in Int /\ Documents \in Accounts
    BY DispatchConstantsOK DEF Accounts
  <2>2. open' \in [Accounts -> Int]
    BY <1>4, <2>1, IntoInt DEF ReserveForDocument
  <2>3. taken' \in [Attempts \cup {Documents} -> 0..MaxRows]
    BY <1>4, DispatchConstantsOK DEF ReserveForDocument
  <2> QED BY <2>2, <2>3
<1>5. ASSUME NEW ev \in Events, NEW complete \in BOOLEAN, NEW cost \in Costs,
             RecordUsage(ev, complete, cost) \/ RecordDocumentUsage(ev, complete, cost)
      PROVE  /\ known' \in [Accounts -> Nat] /\ unknown' \in [Accounts -> Nat]
             /\ recorded' \subseteq Events
  BY <1>5, BillEffect DEF RecordUsage, RecordDocumentUsage
<1>6. CASE UNCHANGED budgetVars
  BY <1>6 DEF budgetVars
<1>7. ASSUME NEW p \in Policies, SetPolicy(p) PROVE policy' \in Policies
  BY <1>7 DEF SetPolicy
<1>8. CASE \E a \in Attempts : AdmitRequest(a)
  BY <1>2, <1>8 DEF AdmitRequest
<1>9. CASE \E a \in Attempts : Settle(a)
  BY <1>3, <1>9 DEF Settle
<1>10. CASE ReserveForDocument
  BY <1>4, <1>10 DEF ReserveForDocument
<1>11. CASE \E ev \in Events, complete \in BOOLEAN, cost \in Costs :
              RecordUsage(ev, complete, cost) \/ RecordDocumentUsage(ev, complete, cost)
  BY <1>5, <1>11 DEF RecordUsage, RecordDocumentUsage
<1>12. CASE \E p \in Policies : SetPolicy(p)
  BY <1>7, <1>12 DEF SetPolicy
<1> QED
  BY <1>6, <1>8, <1>9, <1>10, <1>11, <1>12
  DEF DispatchNext, dispatchVars, OtherLeaseStep

-----------------------------------------------------------------------------
(* Delegation *)

Running(p) == {b \in Attempts : ParentOf[b] = p /\ status[b] = "RUNNING"}

\* Only an admission makes an attempt RUNNING.
LEMMA OnlyAdmissionRuns ==
  ASSUME LeaseTypeOK, OtherLeaseStep, NEW b \in Attempts, status'[b] = "RUNNING"
  PROVE  status[b] = "RUNNING"
<1> USE DEF LeaseTypeOK
<1>1. ASSUME NEW a \in Attempts, CreateAttempt(a) PROVE status[b] = "RUNNING"
  BY <1>1 DEF CreateAttempt
<1>2. ASSUME NEW t \in Tasks, Claim(t) PROVE status[b] = "RUNNING"
  BY <1>2 DEF Claim
<1>3. ASSUME NEW t \in Tasks, Reassign(t) PROVE status[b] = "RUNNING"
  BY <1>3 DEF Reassign
<1>4. ASSUME NEW a \in Attempts, NEW wanted, ClaimWriteScope(a, wanted)
      PROVE  status[b] = "RUNNING"
  BY <1>4 DEF ClaimWriteScope
<1>5. ASSUME NEW expired, Reconcile(expired) PROVE status[b] = "RUNNING"
  BY <1>5 DEF Reconcile
<1>6. ASSUME NEW r \in Runs, FenceRun(r) PROVE status[b] = "RUNNING"
  BY <1>6 DEF FenceRun
<1> QED BY <1>1, <1>2, <1>3, <1>4, <1>5, <1>6 DEF OtherLeaseStep

LEMMA StepKeepsDelegation ==
  ASSUME LeaseTypeOK, DelegationBounded, [DispatchNext]_dispatchVars
  PROVE  DelegationBounded'
<1>1. ASSUME NEW p \in Attempts
      PROVE  /\ IsFiniteSet(Running(p)) /\ IsFiniteSet(ActiveChildren(p))
             /\ Cardinality(Running(p)) \in Nat
             /\ Cardinality(Running(p)) <= MaxChildren
             /\ DepthOf[p] = 1 => Running(p) = {}
  <2>1. Running(p) \in SUBSET Attempts /\ ActiveChildren(p) \in SUBSET Attempts
    BY DEF Running, ActiveChildren
  <2>2. IsFiniteSet(Running(p)) /\ IsFiniteSet(ActiveChildren(p))
    BY <2>1, FS_Subset, DispatchConstantsOK
  <2> QED BY <2>2, FS_CardinalityType DEF DelegationBounded, Running
<1> SUFFICES ASSUME NEW p \in Attempts
             PROVE  /\ Cardinality(Running(p)') <= MaxChildren
                    /\ DepthOf[p] = 1 => Running(p)' = {}
  BY DEF DelegationBounded, Running
<1>2. ASSUME Running(p)' \subseteq Running(p)
      PROVE  /\ Cardinality(Running(p)') <= MaxChildren
             /\ DepthOf[p] = 1 => Running(p)' = {}
  <2>1. Cardinality(Running(p)') <= Cardinality(Running(p)) /\ Cardinality(Running(p)') \in Nat
    BY <1>1, <1>2, FS_Subset, FS_CardinalityType
  <2> QED BY <1>1, <1>2, <2>1, DispatchConstantsOK
<1>3. CASE UNCHANGED status
  BY <1>2, <1>3 DEF Running
<1>4. CASE OtherLeaseStep
  BY <1>2, <1>4, OnlyAdmissionRuns DEF Running
<1>5. ASSUME NEW a \in Attempts, AdmitRequest(a)
      PROVE  /\ Cardinality(Running(p)') <= MaxChildren
             /\ DepthOf[p] = 1 => Running(p)' = {}
  <2>1. status' = [status EXCEPT ![a] = "RUNNING"] /\ ParentTakesAnother(a)
    BY <1>5 DEF AdmitRequest, Admit
  <2>2. CASE ParentOf[a] # p
    BY <1>2, <2>1, <2>2 DEF Running, LeaseTypeOK
  <2>3. CASE ParentOf[a] = p
    <3>1. DepthOf[p] = 0 /\ Cardinality(ActiveChildren(p) \ {a}) < MaxChildren
      BY <2>1, <2>3, DispatchConstantsOK DEF ParentTakesAnother
    <3>2. Running(p)' = (Running(p) \ {a}) \cup {a}
      BY <2>1, <2>3 DEF Running, LeaseTypeOK
    <3>3. Running(p) \ {a} \in SUBSET (ActiveChildren(p) \ {a})
      BY DEF Running, ActiveChildren
    <3>4. IsFiniteSet(ActiveChildren(p) \ {a}) /\ IsFiniteSet(Running(p) \ {a})
      BY <1>1, FS_RemoveElement
    <3>5. /\ Cardinality(Running(p) \ {a}) <= Cardinality(ActiveChildren(p) \ {a})
          /\ Cardinality(Running(p) \ {a}) \in Nat
          /\ Cardinality(ActiveChildren(p) \ {a}) \in Nat
      BY <3>3, <3>4, FS_Subset, FS_CardinalityType
    <3>6. Cardinality(Running(p)') = Cardinality(Running(p) \ {a}) + 1
      BY <3>2, <3>4, FS_AddElement
    <3> QED BY <3>1, <3>5, <3>6, DispatchConstantsOK
  <2> QED BY <2>2, <2>3
<1> QED
  BY <1>3, <1>4, <1>5
  DEF DispatchNext, dispatchVars, leaseVars, Settle, ReserveForDocument, RecordUsage,
      RecordDocumentUsage, SetPolicy

-----------------------------------------------------------------------------
(* Billing *)

Of(c) == {ev \in recorded : EventRun[ev] = c}

\* One more charge of at most the dearest cost, and one more event.
LEMMA OneMoreEvent ==
  ASSUME NEW k \in Nat, NEW u \in Nat, NEW n \in Nat, NEW most \in Nat, NEW cost \in Nat,
         cost <= most, k + u * most <= most * n
  PROVE  /\ (k + cost) + u * most <= most * (n + 1)
         /\ k + (u + 1) * most <= most * (n + 1)
<1>1. most * (n + 1) = most * n + most /\ (u + 1) * most = u * most + most
  OBVIOUS
<1>2. u * most \in Nat /\ most * n \in Nat
  OBVIOUS
<1> QED BY <1>1, <1>2

LEMMA StepBillsOnce ==
  ASSUME DispatchTypeOK, BilledOnce, [DispatchNext]_dispatchVars
  PROVE  BilledOnce'
<1> SUFFICES ASSUME NEW c \in Runs \cup {Documents}, NEW most \in Costs,
                    \A cost \in Costs : cost <= most
             PROVE  known'[c] + unknown'[c] * most <= most * Cardinality(Of(c)')
  BY DEF BilledOnce, Of
<1>1. known[c] + unknown[c] * most <= most * Cardinality(Of(c))
  BY DEF BilledOnce, Of
<1>2. IsFiniteSet(Of(c)) /\ Cardinality(Of(c)) \in Nat
  <2>1. Of(c) \in SUBSET Events
    BY DEF Of, DispatchTypeOK
  <2>2. IsFiniteSet(Of(c))
    BY <2>1, FS_Subset, DispatchConstantsOK
  <2> QED BY <2>2, FS_CardinalityType
<1>3. CASE UNCHANGED <<known, unknown, recorded>>
  BY <1>1, <1>3 DEF Of
<1>4. ASSUME NEW ev \in Events, NEW complete \in BOOLEAN, NEW cost \in Costs,
             Bill(ev, complete, cost)
      PROVE  known'[c] + unknown'[c] * most <= most * Cardinality(Of(c)')
  <2>1. /\ ev \notin recorded /\ recorded' = recorded \cup {ev}
        /\ \/ c # EventRun[ev] /\ known'[c] = known[c] /\ unknown'[c] = unknown[c]
           \/ c = EventRun[ev] /\ known'[c] = known[c] + cost /\ unknown'[c] = unknown[c]
           \/ c = EventRun[ev] /\ known'[c] = known[c] /\ unknown'[c] = unknown[c] + 1
    BY <1>4, BillEffect
  <2>2. CASE c # EventRun[ev]
    <3>1. Of(c)' = Of(c)
      BY <2>1, <2>2 DEF Of
    <3> QED BY <1>1, <2>1, <2>2, <3>1
  <2>3. CASE c = EventRun[ev]
    <3>1. Of(c)' = Of(c) \cup {ev} /\ ev \notin Of(c)
      BY <2>1, <2>3 DEF Of
    <3>2. Cardinality(Of(c)') = Cardinality(Of(c)) + 1
      BY <1>2, <3>1, FS_AddElement
    <3>3. known[c] \in Nat /\ unknown[c] \in Nat /\ most \in Nat /\ cost \in Nat /\ cost <= most
      BY DispatchConstantsOK DEF DispatchTypeOK, Accounts
    <3>4. /\ (known[c] + cost) + unknown[c] * most <= most * (Cardinality(Of(c)) + 1)
          /\ known[c] + (unknown[c] + 1) * most <= most * (Cardinality(Of(c)) + 1)
      BY <1>1, <1>2, <3>3, OneMoreEvent
    <3> QED BY <2>1, <2>3, <3>2, <3>4
  <2> QED BY <2>2, <2>3
<1> QED
  BY <1>3, <1>4
  DEF DispatchNext, dispatchVars, budgetVars, AdmitRequest, Reserve, Settle, ReserveForDocument,
      RecordUsage, RecordDocumentUsage, SetPolicy, OtherLeaseStep

-----------------------------------------------------------------------------
(* The invariant *)

LEMMA DispatchInitInv == DispatchInit => DispatchInv
<1> SUFFICES ASSUME DispatchInit PROVE DispatchInv
  OBVIOUS
<1>1. LeaseInv
  BY InitEstablishesInv DEF DispatchInit
<1>2. DispatchTypeOK
  BY <1>1, DispatchConstantsOK DEF DispatchInit, DispatchTypeOK, LeaseInv
<1>3. DelegationBounded
  <2> SUFFICES ASSUME NEW p \in Attempts
               PROVE  Cardinality(Running(p)) <= MaxChildren /\ Running(p) = {}
    BY DEF DelegationBounded, Running
  <2>1. Running(p) = {}
    BY DEF Running, DispatchInit, LeaseInit
  <2> QED BY <2>1, FS_EmptySet, DispatchConstantsOK
<1>4. BilledOnce
  <2> SUFFICES ASSUME NEW c \in Runs \cup {Documents}, NEW most \in Costs
               PROVE  known[c] + unknown[c] * most <= most * Cardinality(Of(c))
    BY DEF BilledOnce, Of
  <2>1. Of(c) = {} /\ known[c] = 0 /\ unknown[c] = 0 /\ most \in Nat
    BY DispatchConstantsOK DEF Of, DispatchInit, Accounts
  <2> QED BY <2>1, FS_EmptySet
<1> QED BY <1>1, <1>2, <1>3, <1>4 DEF DispatchInv

LEMMA DispatchStepInv == DispatchInv /\ [DispatchNext]_dispatchVars => DispatchInv'
<1> SUFFICES ASSUME DispatchInv, [DispatchNext]_dispatchVars PROVE DispatchInv'
  OBVIOUS
<1>1. LeaseInv'
  BY DispatchStepIsLeaseStep, StepKeepsInv DEF DispatchInv
<1>2. DispatchTypeOK'
  BY <1>1, BudgetTypes DEF DispatchInv, DispatchTypeOK, LeaseInv
<1>3. DelegationBounded' /\ BilledOnce'
  BY StepKeepsDelegation, StepBillsOnce DEF DispatchInv, LeaseInv
<1> QED BY <1>1, <1>2, <1>3 DEF DispatchInv

\* The inductive invariant of admission, budget and leases together.
THEOREM DispatchInvariant == DispatchSpec => []DispatchInv
  BY DispatchInitInv, DispatchStepInv, PTL DEF DispatchSpec

\* Reservations, usage and policy stay well typed.
THEOREM DispatchTypes == DispatchSpec => []DispatchTypeOK
<1>1. DispatchInv => DispatchTypeOK
  BY DEF DispatchInv
<1> QED BY <1>1, DispatchInvariant, PTL

\* A lead never has more admitted children than the limit, nor grandchildren.
THEOREM DelegationStaysBounded == DispatchSpec => []DelegationBounded
<1>1. DispatchInv => DelegationBounded
  BY DEF DispatchInv
<1> QED BY <1>1, DispatchInvariant, PTL

\* A provider event is settled once, however often it is reported.
THEOREM EventsBilledOnce == DispatchSpec => []BilledOnce
<1>1. DispatchInv => BilledOnce
  BY DEF DispatchInv
<1> QED BY <1>1, DispatchInvariant, PTL

-----------------------------------------------------------------------------
(* The refinement of Ledger *)

Held(f) == [r \in Runs |-> f[r]]

LEMMA AccountMoves ==
  ASSUME NEW f \in [Accounts -> Int], NEW c \in Runs \cup {Documents}, NEW n \in Int
  PROVE  /\ Held(Into(f, c, n)) = IF c \in Runs THEN [Held(f) EXCEPT ![c] = Held(f)[c] + n]
                                                ELSE Held(f)
         /\ c \in Runs => /\ Held(Into(f, c, n))[c] = f[c] + n
                          /\ Held(f)[c] = f[c] /\ f[c] \in Int
<1>1. c \in Accounts
  BY DEF Accounts
<1>2. \A d \in Runs \cup {Documents} :
        Into(f, c, n)[d] = IF d = c THEN f[d] + n ELSE f[d]
  BY <1>1, IntoInt
<1>3. CASE c \in Runs
  BY <1>1, <1>2, <1>3 DEF Held
<1>4. CASE c \notin Runs
  BY <1>2, <1>4 DEF Held
<1> QED BY <1>3, <1>4

\* A step that changes one of the balances of one run is a step of Ledger.
LEMMA HeldMoves ==
  ASSUME NEW r \in Runs, NEW n \in Int, open[r] \in Int,
         Held(open)' = [Held(open) EXCEPT ![r] = Held(open)[r] + n],
         Held(open)'[r] = open[r] + n, Held(open)[r] = open[r],
         UNCHANGED <<policy, known, unknown>>,
         n > 0 => open[r] + known[r] + unknown[r] * policy.unknown + n <= Limit
  PROVE  BudgetOf!LedgerNext
<1>1. CASE n > 0
  <2>1. Held(open)'[r] - Held(open)[r] = n /\ Held(open)'[r] >= Held(open)[r]
    BY <1>1
  <2>2. BudgetOf!Take(r, Held(open)'[r] - Held(open)[r])
    BY <1>1, <2>1 DEF BudgetOf!Take, BudgetOf!Committed, Limit, Held
  <2> QED BY <2>1, <2>2 DEF BudgetOf!LedgerNext, BudgetOf!Take, Held
<1>2. CASE n <= 0
  <2>1. Held(open)[r] - Held(open)'[r] = 0 - n /\ Held(open)'[r] <= Held(open)[r]
    BY <1>2
  <2>2. Held(open)[r] - (0 - n) = Held(open)[r] + n
    OBVIOUS
  <2>3. BudgetOf!GiveBack(r, Held(open)[r] - Held(open)'[r])
    BY <2>1, <2>2 DEF BudgetOf!GiveBack, Limit, Held
  <2> QED BY <2>1, <2>3 DEF BudgetOf!LedgerNext, BudgetOf!GiveBack, Held
<1> QED BY <1>1, <1>2

\* So is a usage event of a run, billed by its price or as one of unknown price.
LEMMA ChargeMoves ==
  ASSUME DispatchTypeOK, NEW ev \in Events, NEW complete \in BOOLEAN, NEW cost \in Costs,
         Bill(ev, complete, cost), UNCHANGED <<policy, open>>, EventRun[ev] \in Runs
  PROVE  BudgetOf!LedgerNext
<1> DEFINE r == EventRun[ev]
<1>1. r \in Runs /\ r \in Runs \cup {Documents} /\ cost \in Nat /\ cost \in Int /\ 1 \in Int
  BY DispatchConstantsOK
<1>2. known \in [Accounts -> Int] /\ unknown \in [Accounts -> Int] /\ known[r] \in Nat
  BY <1>1 DEF DispatchTypeOK, Accounts
<1>3. \/ known' = Into(known, r, cost) /\ unknown' = unknown
      \/ unknown' = Into(unknown, r, 1) /\ known' = known
  BY DEF Bill
<1> HIDE DEF r
<1>4. CASE known' = Into(known, r, cost) /\ unknown' = unknown
  <2>1. /\ Held(known)' = [Held(known) EXCEPT ![r] = Held(known)[r] + cost]
        /\ Held(known)'[r] = known[r] + cost /\ Held(known)[r] = known[r]
    BY <1>1, <1>2, <1>4, AccountMoves
  <2>2. Held(known)'[r] - Held(known)[r] = cost /\ Held(known)'[r] >= Held(known)[r]
    BY <1>1, <1>2, <2>1
  <2>3. BudgetOf!Charge(r, Held(known)'[r] - Held(known)[r])
    BY <1>4, <2>1, <2>2 DEF BudgetOf!Charge, Limit, Held
  <2> QED BY <1>1, <2>2, <2>3 DEF BudgetOf!LedgerNext, BudgetOf!Charge, Held
<1>5. CASE unknown' = Into(unknown, r, 1) /\ known' = known
  <2>1. Held(unknown)' = [Held(unknown) EXCEPT ![r] = Held(unknown)[r] + 1]
    BY <1>1, <1>2, <1>5, AccountMoves
  <2>2. BudgetOf!ChargeUnpriced(r)
    BY <1>5, <2>1 DEF BudgetOf!ChargeUnpriced, Limit, Held
  <2> QED BY <1>1, <2>2 DEF BudgetOf!LedgerNext
<1> QED BY <1>3, <1>4, <1>5

LEMMA DispatchStepIsLedgerStep ==
  ASSUME DispatchTypeOK, [DispatchNext]_dispatchVars
  PROVE  [BudgetOf!LedgerNext]_(BudgetOf!ledgerVars)
<1>1. CASE UNCHANGED <<policy, open, known, unknown>>
  BY <1>1 DEF Limit, BudgetOf!ledgerVars
<1>2. ASSUME NEW p \in Policies, SetPolicy(p) PROVE BudgetOf!LedgerNext
  BY <1>2 DEF SetPolicy, BudgetOf!ReplacePolicy, BudgetOf!LedgerNext
<1>3. ASSUME NEW a \in Attempts
      PROVE  /\ RunOf[a] \in Runs /\ RunOf[a] \in Runs \cup {Documents}
             /\ open \in [Accounts -> Int]
             /\ EstimateOf[a] \in Nat /\ EstimateOf[a] \in Int /\ 0 - EstimateOf[a] \in Int
             /\ open[RunOf[a]] \in Int /\ known[RunOf[a]] \in Nat
             /\ unknown[RunOf[a]] * policy.unknown \in Nat
             /\ Limit \in Int
  BY ConstantsOK, DispatchConstantsOK DEF DispatchTypeOK, Accounts, Limit, Policy
<1>4. ASSUME NEW a \in Attempts, AdmitRequest(a) PROVE BudgetOf!LedgerNext
  <2> DEFINE r == RunOf[a]
             n == EstimateOf[a]
  <2>1. open' = Into(open, r, n) /\ UNCHANGED <<policy, known, unknown>> /\ n <= Available(r)
    BY <1>4 DEF AdmitRequest, Reserve
  <2>2. open[r] + known[r] + unknown[r] * policy.unknown + n <= Limit
    BY <1>3, <2>1 DEF Available
  <2>3. r \in Runs /\ r \in Runs \cup {Documents} /\ n \in Int /\ open[r] \in Int
    BY <1>3
  <2> HIDE DEF r, n
  <2>4. /\ Held(open)' = [Held(open) EXCEPT ![r] = Held(open)[r] + n]
        /\ Held(open)'[r] = open[r] + n /\ Held(open)[r] = open[r]
    BY <2>1, <2>3, AccountMoves DEF DispatchTypeOK
  <2> QED BY <2>1, <2>2, <2>3, <2>4, HeldMoves
<1>5. ASSUME NEW a \in Attempts, Settle(a) PROVE BudgetOf!LedgerNext
  <2> DEFINE r == RunOf[a]
             n == 0 - EstimateOf[a]
  <2>1. open' = Into(open, r, n) /\ UNCHANGED <<policy, known, unknown>>
    BY <1>5 DEF Settle
  <2>2. r \in Runs /\ r \in Runs \cup {Documents} /\ n \in Int /\ open[r] \in Int /\ ~(n > 0)
    BY <1>3
  <2> HIDE DEF r, n
  <2>3. /\ Held(open)' = [Held(open) EXCEPT ![r] = Held(open)[r] + n]
        /\ Held(open)'[r] = open[r] + n /\ Held(open)[r] = open[r]
    BY <2>1, <2>2, AccountMoves DEF DispatchTypeOK
  <2> QED BY <2>1, <2>2, <2>3, HeldMoves
<1>6. ASSUME ReserveForDocument PROVE UNCHANGED BudgetOf!ledgerVars
  <2>1. open' = Into(open, Documents, DocEstimate) /\ UNCHANGED <<policy, known, unknown>>
    BY <1>6 DEF ReserveForDocument
  <2>2. Held(open)' = Held(open)
    BY <2>1, AccountMoves, DispatchConstantsOK DEF DispatchTypeOK
  <2> QED BY <2>1, <2>2 DEF BudgetOf!ledgerVars, Held, Limit
<1>7. ASSUME NEW ev \in Events, NEW complete \in BOOLEAN, NEW cost \in Costs,
             Bill(ev, complete, cost), UNCHANGED <<policy, open>>
      PROVE  [BudgetOf!LedgerNext]_(BudgetOf!ledgerVars)
  <2>1. CASE EventRun[ev] \in Runs
    BY <1>7, <2>1, ChargeMoves
  <2>2. CASE EventRun[ev] \notin Runs
    <3>1. \A r \in Runs : known'[r] = known[r] /\ unknown'[r] = unknown[r]
      BY <1>7, <2>2, BillEffect
    <3> QED BY <1>7, <3>1 DEF BudgetOf!ledgerVars, Limit
  <2> QED BY <2>1, <2>2
<1>8. CASE DispatchNext
  BY <1>1, <1>2, <1>4, <1>5, <1>6, <1>7, <1>8
  DEF DispatchNext, RecordUsage, RecordDocumentUsage, OtherLeaseStep, budgetVars
<1>9. CASE UNCHANGED dispatchVars
  BY <1>1, <1>9 DEF dispatchVars, budgetVars
<1> QED BY <1>8, <1>9

\* Every run draws on the budget as Ledger says, for any policies, estimates,
\* reports and settlements.
THEOREM DispatchImplementsLedger == DispatchSpec => KeepsLedger
<1>1. DispatchInit => BudgetOf!LedgerInit
  BY DEF DispatchInit, BudgetOf!LedgerInit, Accounts
<1>2. DispatchInv /\ [DispatchNext]_dispatchVars
        => [BudgetOf!LedgerNext]_(BudgetOf!ledgerVars)
  BY DispatchStepIsLedgerStep DEF DispatchInv
<1> QED BY <1>1, <1>2, DispatchInvariant, PTL DEF DispatchSpec, KeepsLedger, BudgetOf!LedgerSpec

\* Admission and the budget implement the lease protocol.
THEOREM DispatchImplementsLeases == DispatchSpec => LeaseSpec
<1>1. DispatchInit => LeaseInit
  BY DEF DispatchInit
<1>2. [DispatchNext]_dispatchVars => [LeaseNext]_leaseVars
  BY DispatchStepIsLeaseStep
<1> QED BY <1>1, <1>2, PTL DEF DispatchSpec, LeaseSpec
=============================================================================
