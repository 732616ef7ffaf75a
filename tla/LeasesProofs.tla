---------------------------- MODULE LeasesProofs ----------------------------
(* Proofs about Leases, for every set of attempts, tasks, runs, projects and *)
(* paths and every bound on epochs.                                          *)
EXTENDS Leases, SequenceTheorems, TLAPS

(***************************************************************************)
(* The inductive invariant.  OneActiveWriter alone is not inductive enough *)
(* for the fence: an accepted epoch must be the last row of the attempt's  *)
(* leases, and an active lease of a writing attempt must be that row.      *)
(***************************************************************************)
EpochIsLast ==
  \A a \in Attempts : leases[a] # << >> => lease_epoch[a] = Len(leases[a])

WithinBound == \A a \in Attempts : Len(leases[a]) <= MaxEpoch

WriterRows ==
  \A a \in Attempts \ ReadOnly : \A e \in 1..Len(leases[a]) : leases[a][e].writer

OnlyLastActive ==
  \A a \in Attempts \ ReadOnly : \A e \in 1..Len(leases[a]) :
    leases[a][e].active => e = Len(leases[a])

LeaseInv ==
  /\ LeaseTypeOK
  /\ EpochIsLast
  /\ WithinBound
  /\ WriterRows
  /\ OnlyLastActive
  /\ OneActiveWriter

-----------------------------------------------------------------------------
(* What the two kinds of write to workspace_leases do to the rows. *)

\* No row is added, no writer flag changes and nothing becomes active.
Weakened ==
  /\ leases' \in [Attempts -> Seq(Lease)]
  /\ \A a \in Attempts :
       /\ Len(leases'[a]) = Len(leases[a])
       /\ \A e \in 1..Len(leases[a]) :
            /\ leases'[a][e].writer = leases[a][e].writer
            /\ leases'[a][e].active => leases[a][e].active

LEMMA SeqDomain ==
  ASSUME NEW S, NEW s \in Seq(S)
  PROVE  /\ Len(s) \in Nat
         /\ DOMAIN s = 1..Len(s)
         /\ s = << >> <=> Len(s) = 0
         /\ \A i \in 1..Len(s) : s[i] \in S
  BY EmptySeq, LenProperties, ElementOfSeq

\* Deactivating any set of leases only weakens the rows.
LEMMA DeactivateWeakens ==
  ASSUME LeaseTypeOK, NEW S, Deactivate(S)
  PROVE  Weakened
<1> DEFINE row(a) == [e \in 1..Len(leases[a]) |->
                        [writer |-> leases[a][e].writer,
                         active |-> leases[a][e].active /\ <<a, e>> \notin S]]
<1>1. ASSUME NEW a \in Attempts
      PROVE  /\ leases'[a] = row(a)
             /\ leases[a] \in Seq(Lease)
             /\ Len(leases[a]) \in Nat
  BY SeqDomain DEF LeaseTypeOK, Deactivate
<1>2. ASSUME NEW a \in Attempts, NEW e \in 1..Len(leases[a])
      PROVE  /\ row(a)[e] \in Lease
             /\ row(a)[e].writer = leases[a][e].writer
             /\ row(a)[e].active => leases[a][e].active
  <2>1. leases[a][e] \in Lease
    BY <1>1, SeqDomain
  <2>2. leases[a][e].writer \in BOOLEAN
    BY <2>1 DEF Lease
  <2>3. row(a)[e] = [writer |-> leases[a][e].writer,
                     active |-> leases[a][e].active /\ <<a, e>> \notin S]
    OBVIOUS
  <2>4. QED BY <2>2, <2>3 DEF Lease
<1>3. ASSUME NEW a \in Attempts
      PROVE  row(a) \in Seq(Lease) /\ Len(row(a)) = Len(leases[a])
  <2>1. row(a) \in [1..Len(leases[a]) -> Lease]
    BY <1>2
  <2>2. row(a) \in Seq(Lease)
    BY <2>1, <1>1
  <2>3. QED BY <2>2, <2>1, <1>1
<1>4. leases' \in [Attempts -> Seq(Lease)]
  BY <1>1, <1>3 DEF Deactivate
<1> HIDE DEF row
<1>5. ASSUME NEW a \in Attempts
      PROVE  /\ Len(leases'[a]) = Len(leases[a])
             /\ \A e \in 1..Len(leases[a]) :
                  /\ leases'[a][e].writer = leases[a][e].writer
                  /\ leases'[a][e].active => leases[a][e].active
  BY <1>1, <1>2, <1>3
<1> QED BY <1>4, <1>5 DEF Weakened

\* Acquire appends one active row and leaves every other row alone.
LEMMA AcquireAppends ==
  ASSUME LeaseTypeOK, NEW a \in Attempts, NEW writer \in BOOLEAN, Acquire(a, writer)
  PROVE  /\ leases' \in [Attempts -> Seq(Lease)]
         /\ Len(leases[a]) \in Nat
         /\ Len(leases[a]) < MaxEpoch
         /\ \A b \in Attempts \ {a} : leases'[b] = leases[b]
         /\ Len(leases'[a]) = Len(leases[a]) + 1
         /\ \A e \in 1..Len(leases[a]) : leases'[a][e] = leases[a][e]
         /\ leases'[a][Len(leases[a]) + 1].writer = writer
         /\ leases'[a][Len(leases[a]) + 1].active
         /\ lease_epoch' = [lease_epoch EXCEPT ![a] = Len(leases[a]) + 1]
         /\ writer => WriterFree(AttemptProject(a))
<1> DEFINE new == [writer |-> writer, active |-> TRUE]
<1>1. leases[a] \in Seq(Lease) /\ new \in Lease
  BY DEF LeaseTypeOK, Lease
<1>2. /\ Append(leases[a], new) \in Seq(Lease)
      /\ Len(Append(leases[a], new)) = Len(leases[a]) + 1
      /\ \A e \in 1..Len(leases[a]) : Append(leases[a], new)[e] = leases[a][e]
      /\ Append(leases[a], new)[Len(leases[a]) + 1] = new
      /\ Len(leases[a]) \in Nat
  BY <1>1, AppendProperties, SeqDomain
<1>3. leases' = [leases EXCEPT ![a] = Append(leases[a], new)]
  BY DEF Acquire
<1>4. leases'[a] = Append(leases[a], new) /\ \A b \in Attempts \ {a} : leases'[b] = leases[b]
  BY <1>3 DEF LeaseTypeOK
<1>5. leases' \in [Attempts -> Seq(Lease)]
  BY <1>2, <1>3 DEF LeaseTypeOK
<1> QED BY <1>2, <1>4, <1>5 DEF Acquire
-----------------------------------------------------------------------------
(* Every step of LeaseNext either weakens the rows and keeps the epochs, or *)
(* appends one active row to one attempt.                                   *)

Appended ==
  \E a \in Attempts, writer \in BOOLEAN :
    Acquire(a, writer) /\ (a \notin ReadOnly => writer)

LEMMA StepKinds ==
  ASSUME LeaseTypeOK, [LeaseNext]_leaseVars
  PROVE  (Weakened /\ UNCHANGED lease_epoch) \/ Appended
<1>1. ASSUME UNCHANGED leases
      PROVE  Weakened
  BY <1>1 DEF Weakened, LeaseTypeOK
<1>2. ASSUME NEW a \in Attempts, CreateAttempt(a) \/ Admit(a)
      PROVE  Weakened /\ UNCHANGED lease_epoch
  BY <1>1, <1>2 DEF CreateAttempt, Admit
<1>3. ASSUME NEW t \in Tasks, Claim(t)
      PROVE  Appended
  BY <1>3 DEF Claim, Claimable, Latest, Appended
<1>4. ASSUME NEW t \in Tasks, Reassign(t)
      PROVE  Appended
  BY <1>4 DEF Reassign, Claimable, Latest, Appended
<1>5. ASSUME NEW a \in Attempts, NEW wanted, ClaimWriteScope(a, wanted)
      PROVE  Appended
  BY <1>5 DEF ClaimWriteScope, Appended
<1>6. ASSUME NEW expired, Reconcile(expired)
      PROVE  Weakened /\ UNCHANGED lease_epoch
  BY <1>6, DeactivateWeakens DEF Reconcile
<1>7. ASSUME NEW r \in Runs, FenceRun(r)
      PROVE  Weakened /\ UNCHANGED lease_epoch
  BY <1>7, DeactivateWeakens DEF FenceRun
<1>8. CASE UNCHANGED leaseVars
  BY <1>1, <1>8 DEF leaseVars
<1> QED BY <1>2, <1>3, <1>4, <1>5, <1>6, <1>7, <1>8 DEF LeaseNext

-----------------------------------------------------------------------------
(* Preservation of the invariant *)

LEMMA StatusType ==
  ASSUME LeaseTypeOK, [LeaseNext]_leaseVars
  PROVE  status' \in [Attempts -> Statuses]
<1> USE DEF LeaseTypeOK, Statuses
<1>1. ASSUME NEW a \in Attempts, CreateAttempt(a) \/ Admit(a)
      PROVE  status' \in [Attempts -> Statuses]
  BY <1>1 DEF CreateAttempt, Admit
<1>2. ASSUME NEW t \in Tasks, Claim(t)
      PROVE  status' \in [Attempts -> Statuses]
  BY <1>2 DEF Claim
<1>3. ASSUME NEW t \in Tasks, Reassign(t)
      PROVE  status' \in [Attempts -> Statuses]
  BY <1>3 DEF Reassign
<1>4. ASSUME NEW a \in Attempts, NEW wanted, ClaimWriteScope(a, wanted)
      PROVE  status' \in [Attempts -> Statuses]
  BY <1>4 DEF ClaimWriteScope
<1>5. ASSUME NEW expired, Reconcile(expired)
      PROVE  status' \in [Attempts -> Statuses]
  BY <1>5 DEF Reconcile
<1>6. ASSUME NEW r \in Runs, FenceRun(r)
      PROVE  status' \in [Attempts -> Statuses]
  BY <1>6 DEF FenceRun
<1>7. CASE UNCHANGED leaseVars
  BY <1>7 DEF leaseVars
<1> QED BY <1>1, <1>2, <1>3, <1>4, <1>5, <1>6, <1>7 DEF LeaseNext

LEMMA WeakenedKeepsInv ==
  ASSUME LeaseInv, Weakened, UNCHANGED lease_epoch, status' \in [Attempts -> Statuses]
  PROVE  LeaseInv'
<1>1. LeaseTypeOK'
  BY DEF LeaseInv, LeaseTypeOK, Weakened
<1>2. ASSUME NEW a \in Attempts
      PROVE  /\ leases[a] \in Seq(Lease)
             /\ leases'[a] \in Seq(Lease)
             /\ Len(leases'[a]) = Len(leases[a])
             /\ DOMAIN leases[a] = 1..Len(leases[a])
             /\ DOMAIN leases'[a] = 1..Len(leases[a])
             /\ leases'[a] = << >> <=> leases[a] = << >>
  BY SeqDomain DEF LeaseInv, LeaseTypeOK, Weakened
<1>3. EpochIsLast'
  BY <1>2 DEF LeaseInv, EpochIsLast
<1>4. WithinBound'
  BY <1>2 DEF LeaseInv, WithinBound
<1>5. WriterRows'
  BY <1>2 DEF LeaseInv, WriterRows, Weakened
<1>6. OnlyLastActive'
  BY <1>2 DEF LeaseInv, OnlyLastActive, Weakened
<1>7. OneActiveWriter'
  <2> SUFFICES ASSUME NEW a \in Attempts, NEW b \in Attempts,
                      NEW e \in DOMAIN leases'[a], NEW f \in DOMAIN leases'[b],
                      AttemptProject(a) = AttemptProject(b),
                      leases'[a][e].active, leases'[a][e].writer,
                      leases'[b][f].active, leases'[b][f].writer
               PROVE  a = b /\ e = f
    BY DEF OneActiveWriter, AttemptProject
  <2>1. e \in DOMAIN leases[a] /\ f \in DOMAIN leases[b]
    BY <1>2
  <2>2. /\ leases[a][e].active /\ leases[a][e].writer
        /\ leases[b][f].active /\ leases[b][f].writer
    BY <1>2 DEF Weakened
  <2> QED BY <2>1, <2>2 DEF LeaseInv, OneActiveWriter
<1> QED BY <1>1, <1>3, <1>4, <1>5, <1>6, <1>7 DEF LeaseInv

LEMMA AppendedKeepsInv ==
  ASSUME LeaseInv, status' \in [Attempts -> Statuses],
         NEW a \in Attempts, NEW writer \in BOOLEAN,
         Acquire(a, writer), a \notin ReadOnly => writer
  PROVE  LeaseInv'
<1> DEFINE n == Len(leases[a]) + 1
<1>1. /\ leases' \in [Attempts -> Seq(Lease)]
      /\ n \in Nat /\ n > 0 /\ n <= MaxEpoch
      /\ \A b \in Attempts \ {a} : leases'[b] = leases[b]
      /\ Len(leases'[a]) = n
      /\ \A e \in 1..(n - 1) : leases'[a][e] = leases[a][e]
      /\ leases'[a][n].writer = writer
      /\ leases'[a][n].active
      /\ lease_epoch' = [lease_epoch EXCEPT ![a] = n]
      /\ writer => WriterFree(AttemptProject(a))
  BY AcquireAppends, ConstantsOK DEF LeaseInv
<1>2. ASSUME NEW b \in Attempts
      PROVE  /\ Len(leases[b]) \in Nat
             /\ DOMAIN leases[b] = 1..Len(leases[b])
             /\ leases[b] = << >> <=> Len(leases[b]) = 0
             /\ Len(leases'[b]) \in Nat
             /\ DOMAIN leases'[b] = 1..Len(leases'[b])
             /\ leases'[b] = << >> <=> Len(leases'[b]) = 0
  BY <1>1, SeqDomain DEF LeaseInv, LeaseTypeOK
<1>3. n = Len(leases[a]) + 1
  OBVIOUS
<1> HIDE DEF n
<1>4. LeaseTypeOK'
  BY <1>1 DEF LeaseInv, LeaseTypeOK
<1>5. EpochIsLast'
  BY <1>1, <1>2 DEF LeaseInv, EpochIsLast, LeaseTypeOK
<1>6. WithinBound'
  BY <1>1 DEF LeaseInv, WithinBound
<1>7. WriterRows'
  <2> SUFFICES ASSUME NEW b \in Attempts \ ReadOnly, NEW e \in 1..Len(leases'[b])
               PROVE  leases'[b][e].writer
    BY DEF WriterRows
  <2>1. CASE b # a
    BY <1>1, <2>1 DEF LeaseInv, WriterRows
  <2>2. CASE b = a /\ e = n
    BY <1>1, <2>2
  <2>3. CASE b = a /\ e # n
    BY <1>1, <1>2, <1>3, <2>3 DEF LeaseInv, WriterRows
  <2> QED BY <2>1, <2>2, <2>3
<1>8. ASSUME writer, NEW b \in Attempts, AttemptProject(b) = AttemptProject(a),
             NEW e \in 1..Len(leases[b]), leases[b][e].active, leases[b][e].writer
      PROVE  FALSE
  BY <1>1, <1>2, <1>8 DEF WriterFree, Writes
<1>9. OnlyLastActive'
  <2> SUFFICES ASSUME NEW b \in Attempts \ ReadOnly, NEW e \in 1..Len(leases'[b]),
                      leases'[b][e].active
               PROVE  e = Len(leases'[b])
    BY DEF OnlyLastActive
  <2>1. CASE b # a
    BY <1>1, <2>1 DEF LeaseInv, OnlyLastActive
  <2>2. CASE b = a /\ e # n
    <3>1. e \in 1..Len(leases[a]) /\ leases[a][e].active
      BY <1>1, <1>2, <1>3, <2>2
    <3>2. leases[a][e].writer /\ writer
      BY <3>1, <2>2 DEF LeaseInv, WriterRows
    <3> QED BY <3>1, <3>2, <1>8
  <2>3. CASE b = a /\ e = n
    BY <1>1, <2>3
  <2> QED BY <2>1, <2>2, <2>3
<1>10. OneActiveWriter'
  <2> SUFFICES ASSUME NEW b \in Attempts, NEW c \in Attempts,
                      NEW e \in DOMAIN leases'[b], NEW f \in DOMAIN leases'[c],
                      AttemptProject(b) = AttemptProject(c),
                      leases'[b][e].active, leases'[b][e].writer,
                      leases'[c][f].active, leases'[c][f].writer
               PROVE  b = c /\ e = f
    BY DEF OneActiveWriter, AttemptProject
  <2>1. ASSUME NEW d \in Attempts, NEW i \in DOMAIN leases'[d], ~(d = a /\ i = n)
        PROVE  i \in 1..Len(leases[d]) /\ leases'[d][i] = leases[d][i]
    <3>1. CASE d # a
      BY <1>1, <1>2, <2>1, <3>1
    <3>2. CASE d = a
      <4>1. i \in 1..(n - 1) /\ n - 1 = Len(leases[a])
        BY <1>1, <1>2, <1>3, <2>1, <3>2, SMTT(20)
      <4> QED BY <1>1, <3>2, <4>1
    <3> QED BY <3>1, <3>2
  <2>2. CASE ~(b = a /\ e = n) /\ ~(c = a /\ f = n)
    <3>1. e \in DOMAIN leases[b] /\ leases'[b][e] = leases[b][e]
      BY <2>1, <2>2, <1>2
    <3>2. f \in DOMAIN leases[c] /\ leases'[c][f] = leases[c][f]
      BY <2>1, <2>2, <1>2
    <3>3. OneActiveWriter
      BY DEF LeaseInv
    <3> QED BY <3>1, <3>2, <3>3 DEF OneActiveWriter
  <2>3. CASE (b = a /\ e = n) /\ ~(c = a /\ f = n)
    BY <2>1, <2>3, <1>1, <1>8
  <2>4. CASE ~(b = a /\ e = n) /\ (c = a /\ f = n)
    BY <2>1, <2>4, <1>1, <1>8
  <2>5. CASE (b = a /\ e = n) /\ (c = a /\ f = n)
    BY <2>5
  <2> QED BY <2>2, <2>3, <2>4, <2>5
<1> QED BY <1>4, <1>5, <1>6, <1>7, <1>9, <1>10 DEF LeaseInv

-----------------------------------------------------------------------------
(* Theorems *)

\* Initially no lease exists, so every part of the invariant holds.
LEMMA InitEstablishesInv == LeaseInit => LeaseInv
<1> SUFFICES ASSUME LeaseInit PROVE LeaseInv
  OBVIOUS
<1>1. \A a \in Attempts : leases[a] = << >>
  BY DEF LeaseInit
<1>2. LeaseTypeOK
  BY EmptySeq DEF LeaseInit, LeaseTypeOK, Statuses
<1>3. \A a \in Attempts : Len(leases[a]) = 0 /\ DOMAIN leases[a] = {}
  BY <1>1, EmptySeq
<1> QED
  BY <1>1, <1>2, <1>3, ConstantsOK
  DEF LeaseInv, EpochIsLast, WithinBound, WriterRows, OnlyLastActive, OneActiveWriter

LEMMA StepKeepsInv == LeaseInv /\ [LeaseNext]_leaseVars => LeaseInv'
<1> SUFFICES ASSUME LeaseInv, [LeaseNext]_leaseVars PROVE LeaseInv'
  OBVIOUS
<1>1. status' \in [Attempts -> Statuses]
  BY StatusType DEF LeaseInv
<1>2. CASE Weakened /\ UNCHANGED lease_epoch
  BY <1>1, <1>2, WeakenedKeepsInv
<1>3. CASE Appended
  BY <1>1, <1>3, AppendedKeepsInv DEF Appended
<1> QED BY <1>2, <1>3, StepKinds DEF LeaseInv

\* The inductive invariant, of which type correctness and the single active
\* writer of a project (one_active_writer_per_project) are parts.
THEOREM LeaseInvariant == LeaseSpec => []LeaseInv
  BY InitEstablishesInv, StepKeepsInv, PTL DEF LeaseSpec

\* Every reachable state is well typed.
THEOREM LeaseTypes == LeaseSpec => []LeaseTypeOK
<1>1. LeaseInv => LeaseTypeOK
  BY DEF LeaseInv
<1> QED BY <1>1, LeaseInvariant, PTL

\* One active writer lease per project at every moment.
THEOREM SingleWriter == LeaseSpec => []OneActiveWriter
<1>1. LeaseInv => OneActiveWriter
  BY DEF LeaseInv
<1> QED BY <1>1, LeaseInvariant, PTL

-----------------------------------------------------------------------------
(* What the invariant says of the fence *)

LEMMA InvFencesSuperseded == LeaseInv => SupersededHolderFenced
<1> SUFFICES ASSUME LeaseInv, NEW a \in Attempts, NEW e \in 1..MaxEpoch,
                    e < Len(leases[a]), CheckFence(a, e)
             PROVE  FALSE
  BY DEF SupersededHolderFenced
<1>1. leases[a] # << >> /\ Len(leases[a]) \in Nat
  BY SeqDomain DEF LeaseInv, LeaseTypeOK, CheckFence, Active
<1> QED BY <1>1, ConstantsOK DEF LeaseInv, EpochIsLast, CheckFence

LEMMA InvAcceptsItsLease == LeaseInv => WriterAcceptedFromItsLease
<1> SUFFICES ASSUME LeaseInv, NEW a \in Attempts \ ReadOnly, NEW e \in 1..MaxEpoch,
                    CheckFence(a, e)
             PROVE  ActiveAt(a, e) /\ leases[a][e].writer
  BY DEF WriterAcceptedFromItsLease
<1>1. /\ DOMAIN leases[a] = 1..Len(leases[a])
      /\ leases[a] = << >> <=> Len(leases[a]) = 0
      /\ Len(leases[a]) \in Nat
  BY SeqDomain DEF LeaseInv, LeaseTypeOK
<1>2. PICK i \in 1..Len(leases[a]) : leases[a][i].active
  BY <1>1 DEF CheckFence, Active
<1>3. i = Len(leases[a])
  BY <1>2 DEF LeaseInv, OnlyLastActive
<1>4. e = Len(leases[a])
  BY <1>1, <1>2 DEF LeaseInv, EpochIsLast, CheckFence
<1> QED BY <1>1, <1>2, <1>3, <1>4 DEF ActiveAt, LeaseInv, WriterRows

LEMMA InvIntegrationExclusive == LeaseInv => IntegrationExclusive
<1> SUFFICES ASSUME LeaseInv,
                    NEW a \in Attempts \ ReadOnly, NEW b \in Attempts \ ReadOnly,
                    NEW e \in 1..MaxEpoch, NEW f \in 1..MaxEpoch,
                    AttemptProject(a) = AttemptProject(b),
                    CheckFence(a, e), CheckFence(b, f)
             PROVE  a = b /\ e = f
  BY DEF IntegrationExclusive
<1>1. WriterAcceptedFromItsLease
  BY InvAcceptsItsLease
<1>2. ActiveAt(a, e) /\ leases[a][e].writer /\ ActiveAt(b, f) /\ leases[b][f].writer
  BY <1>1 DEF WriterAcceptedFromItsLease
<1> QED BY <1>2 DEF ActiveAt, LeaseInv, OneActiveWriter

\* Path claims: what a claim covers and what overlaps it meet inside the claim.
LEMMA OverlapReachesClaim ==
  ASSUME NEW claim \in Paths, NEW x \in Paths, NEW y \in Paths,
         <<claim, x>> \in Covers, Overlaps(x, y)
  PROVE  Overlaps(claim, y)
<1>1. CASE <<x, y>> \in Covers
  BY <1>1, CoversIsPrefixOrder DEF Overlaps
<1>2. CASE <<y, x>> \in Covers
  BY <1>2, CoversIsPrefixOrder DEF Overlaps
<1> QED BY <1>1, <1>2 DEF Overlaps

LEMMA InvAcceptedWritesDisjoint == LeaseInv => AcceptedWritesDisjoint
<1> SUFFICES ASSUME LeaseInv,
                    NEW a \in Attempts \ ReadOnly, NEW b \in Attempts,
                    NEW e \in 1..MaxEpoch, NEW f \in 1..MaxEpoch,
                    NEW project \in Projects, NEW x \in Paths, NEW y \in Paths,
                    a # b, CheckIntegration(a, e, project, x),
                    CheckIntegration(b, f, AttemptProject(a), y),
                    Overlaps(x, y)
             PROVE  FALSE
  BY DEF AcceptedWritesDisjoint
<1>1. WriterAcceptedFromItsLease
  BY InvAcceptsItsLease
<1>2. Writes(a)
  BY <1>1 DEF WriterAcceptedFromItsLease, CheckIntegration, ActiveAt, Writes
<1>3. \A held \in Allowed[a] : ~Overlaps(held, y)
  BY <1>2 DEF CheckIntegration
<1>4. PICK claim \in Allowed[a] : <<claim, x>> \in Covers
  BY DEF CheckIntegration, IsWritable
<1>5. claim \in Paths
  BY <1>4, ConstantsOK
<1> QED BY <1>3, <1>4, <1>5, OverlapReachesClaim

\* A worker whose attempt has been leased again is refused by the fence.
THEOREM SupersededFenced == LeaseSpec => []SupersededHolderFenced
  BY InvFencesSuperseded, LeaseInvariant, PTL

\* A writer's result is accepted only while the lease it was given is active.
THEOREM AcceptedFromOwnLease == LeaseSpec => []WriterAcceptedFromItsLease
  BY InvAcceptsItsLease, LeaseInvariant, PTL

\* No two writers of one project are accepted in one state.
THEOREM ExclusiveIntegration == LeaseSpec => []IntegrationExclusive
  BY InvIntegrationExclusive, LeaseInvariant, PTL

\* What two accepted attempts of a project change does not overlap.
THEOREM DisjointWrites == LeaseSpec => []AcceptedWritesDisjoint
  BY InvAcceptedWritesDisjoint, LeaseInvariant, PTL

LEMMA StepKeepsEnded ==
  ASSUME LeaseInv, [LeaseNext]_leaseVars,
         NEW a \in Attempts \ ReadOnly, NEW e \in 1..MaxEpoch,
         e \in DOMAIN leases[a], ~leases[a][e].active
  PROVE  ~CheckFence(a, e)'
<1> SUFFICES ASSUME CheckFence(a, e)' PROVE FALSE
  OBVIOUS
<1>1. LeaseInv'
  BY StepKeepsInv
<1>2. WriterAcceptedFromItsLease'
  BY <1>1, InvAcceptsItsLease, PTL
<1>3. leases'[a][e].active
  BY <1>2 DEF WriterAcceptedFromItsLease, ActiveAt
<1>4. e \in 1..Len(leases[a])
  BY SeqDomain DEF LeaseInv, LeaseTypeOK
<1>5. CASE Weakened
  BY <1>3, <1>4, <1>5 DEF Weakened
<1>6. CASE Appended
  <2>1. PICK b \in Attempts, writer \in BOOLEAN : Acquire(b, writer)
    BY <1>6 DEF Appended
  <2>2. leases'[a][e] = leases[a][e]
    BY <1>4, <2>1, AcquireAppends DEF LeaseInv
  <2> QED BY <1>3, <2>2
<1> QED BY <1>5, <1>6, StepKinds DEF LeaseInv

\* A writer's result is refused for good once the lease it worked under ended.
THEOREM EndedStaysFenced == LeaseSpec => EndedLeaseNeverAccepted
<1>1. LeaseInv /\ [LeaseNext]_leaseVars
        => [\A a \in Attempts \ ReadOnly : \A e \in 1..MaxEpoch :
             e \in DOMAIN leases[a] /\ ~leases[a][e].active
               => ~CheckFence(a, e)']_leaseVars
  BY StepKeepsEnded
<1> QED BY <1>1, LeaseInvariant, PTL DEF LeaseSpec, EndedLeaseNeverAccepted
=============================================================================
