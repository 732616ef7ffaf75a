-------------------------- MODULE LifecycleProofs --------------------------
(* Proofs about Lifecycle: it implements Leases, so what is proved of the   *)
(* fence holds under every run's lifecycle, and its compare-and-swap is     *)
(* sound for any number of runs and callers.                                *)
EXTENDS Lifecycle, LeasesProofs

(***************************************************************************)
(* A caller's copy of a row is never ahead of the row, and equals it while *)
(* the versions agree: this is what makes comparing versions enough.       *)
(***************************************************************************)
SeenNotAhead ==
  \A c \in Callers : seen[c] # << >> =>
    /\ seen[c][2].version <= runs[seen[c][1]].version
    /\ seen[c][2].version = runs[seen[c][1]].version => seen[c][2] = runs[seen[c][1]]

LifecycleInv == LeaseInv /\ LifecycleTypeOK /\ SeenNotAhead

-----------------------------------------------------------------------------
(* What a step does to the rows of the runs *)

\* Run r gets a row one version up.
RowWritten(r) ==
  \E row \in Row :
    /\ row.state # "NONE"
    /\ row.version = runs[r].version + 1
    /\ runs' = [runs EXCEPT ![r] = row]

LEMMA RuleTargets == \A rule \in Rules : rule[2] \in States
  BY DEF Rules, States, Reviewed, Unscoped, Interruptible

LEMMA StatesExist == "NONE" \notin States
  BY DEF States, Reviewed, Unscoped

LEMMA UpdatedRow ==
  ASSUME LifecycleTypeOK, NEW r \in Runs, NEW state \in States,
         NEW revision \in 0..MaxRevision, NEW candidate \in 0..MaxRevision,
         runs[r].version < MaxVersion
  PROVE  LET row == Updated(r, state, revision, candidate) IN
         /\ row \in Row
         /\ row.state # "NONE"
         /\ row.version = runs[r].version + 1
<1>1. runs[r].version \in 0..MaxVersion
  BY DEF LifecycleTypeOK, Row
<1>2. runs[r].version + 1 \in 0..MaxVersion
  BY <1>1, LifecycleConstantsOK
<1> QED BY <1>2, StatesExist DEF Updated, Row

LEMMA TransitionWritesRow ==
  ASSUME LifecycleTypeOK, NEW r \in Runs, NEW expected, SomeTransition(r, expected)
  PROVE  RowWritten(r) /\ runs[r].version = expected
<1>1. PICK rule \in RulesFrom(runs[r].state), revision \in 0..MaxRevision,
           candidate \in 0..MaxRevision : Transition(r, rule, revision, candidate, expected)
  BY DEF SomeTransition
<1>2. rule[2] \in States
  BY RuleTargets DEF RulesFrom
<1>3. /\ runs[r].version < MaxVersion
      /\ runs' = [runs EXCEPT ![r] = Updated(r, rule[2], revision, candidate)]
      /\ runs[r].version = expected
  BY <1>1 DEF Transition
<1> QED BY <1>2, <1>3, UpdatedRow DEF RowWritten

LEMMA RevisionWritesRow ==
  ASSUME LifecycleTypeOK, NEW r \in Runs, NEW revision \in 1..MaxRevision, NEW expected,
         ApplyRevision(r, revision, expected)
  PROVE  RowWritten(r) /\ runs[r].version = expected
<1>1. /\ runs[r].version < MaxVersion
      /\ runs' = [runs EXCEPT ![r] = Updated(r, runs[r].state, revision, 0)]
      /\ runs[r].version = expected
      /\ runs[r].state # "NONE"
  BY DEF ApplyRevision, Exists
<1>2. runs[r].state \in States
  BY <1>1 DEF LifecycleTypeOK, Row
<1>3. revision \in 0..MaxRevision /\ 0 \in 0..MaxRevision
  BY LifecycleConstantsOK
<1> QED BY <1>1, <1>2, <1>3, UpdatedRow DEF RowWritten

LEMMA CreateWritesRow ==
  ASSUME LifecycleTypeOK, NEW r \in Runs, CreateRun(r)
  PROVE  RowWritten(r)
<1>1. runs[r].version = 0
  BY DEF LifecycleTypeOK, CreateRun, Exists
<1>2. runs[r].version < MaxVersion /\ 0 \in 0..MaxRevision /\ "RECEIVED" \in States
  BY <1>1, LifecycleConstantsOK DEF States, Unscoped
<1> QED BY <1>2, UpdatedRow DEF CreateRun, RowWritten

-----------------------------------------------------------------------------
(* The kinds of step *)

\* A caller acts on what it read.
ReadUsed(c) ==
  /\ seen[c] # << >>
  /\ seen' = [seen EXCEPT ![c] = << >>]
  /\ \/ /\ RowWritten(seen[c][1])
        /\ runs[seen[c][1]].version = seen[c][2].version
     \/ UNCHANGED runs

\* The rows or the callers' copies change in one of four ways.
RowStep ==
  \/ UNCHANGED <<runs, seen>>
  \/ \E r \in Runs : RowWritten(r) /\ UNCHANGED seen
  \/ \E c \in Callers, r \in Runs : UNCHANGED runs /\ seen' = [seen EXCEPT ![c] = <<r, runs[r]>>]
  \/ \E c \in Callers : ReadUsed(c)

LEMMA SeenType ==
  ASSUME LifecycleTypeOK, NEW c \in Callers, seen[c] # << >>
  PROVE  seen[c][1] \in Runs /\ seen[c][2] \in Row
  BY DEF LifecycleTypeOK

LEMMA ActOnReadUses ==
  ASSUME LifecycleTypeOK, NEW c \in Callers, ActOnRead(c)
  PROVE  ReadUsed(c)
<1>1. seen[c] # << >> /\ seen' = [seen EXCEPT ![c] = << >>]
  BY DEF ActOnRead
<1>2. seen[c][1] \in Runs
  BY <1>1, SeenType
<1>3. \/ SomeTransition(seen[c][1], seen[c][2].version)
      \/ \E revision \in 1..MaxRevision :
           ApplyRevision(seen[c][1], revision, seen[c][2].version)
      \/ UNCHANGED runs
  BY DEF ActOnRead
<1> QED BY <1>1, <1>2, <1>3, TransitionWritesRow, RevisionWritesRow DEF ReadUsed

LEMMA StepsOnRows ==
  ASSUME LifecycleTypeOK, [LifecycleNext]_lifecycleVars
  PROVE  RowStep
<1>1. ASSUME NEW r \in Runs, CreateRun(r) PROVE RowStep
  BY <1>1, CreateWritesRow DEF RowStep, CreateRun
<1>2. ASSUME NEW r \in Runs, ActNow(r) PROVE RowStep
  BY <1>2, TransitionWritesRow, RevisionWritesRow DEF RowStep, ActNow
<1>3. ASSUME NEW c \in Callers, NEW r \in Runs, Read(c, r) PROVE RowStep
  BY <1>3 DEF RowStep, Read
<1>4. ASSUME NEW c \in Callers, ActOnRead(c) PROVE RowStep
  BY <1>4, ActOnReadUses DEF RowStep
<1>5. ASSUME LeaseStep PROVE RowStep
  BY <1>5 DEF LeaseStep, runVars, RowStep
<1>6. ASSUME UNCHANGED lifecycleVars PROVE RowStep
  BY <1>6 DEF lifecycleVars, runVars, RowStep
<1>7. ASSUME NEW r \in Runs, BudgetMoves(r) \/ (\E action : RequestControl(r, action))
                               \/ (\E revision : SealCandidate(r, revision))
      PROVE RowStep
  BY <1>7 DEF BudgetMoves, RequestControl, SealCandidate, RowStep
<1>8. ASSUME NEW q \in Questions, AskQuestion(q) \/ AnswerQuestion(q) PROVE RowStep
  BY <1>8 DEF AskQuestion, AnswerQuestion, RowStep
<1>9. ASSUME NEW p \in Projects, NEW revision, RecordContract(p, revision) PROVE RowStep
  BY <1>9 DEF RecordContract, RowStep
<1> QED
  BY <1>1, <1>2, <1>3, <1>4, <1>5, <1>6, <1>7, <1>8, <1>9 DEF LifecycleNext

-----------------------------------------------------------------------------
(* The lease variables take a step of LeaseNext or none. *)

LEMMA LifecycleStepIsLeaseStep ==
  ASSUME LifecycleTypeOK, [LifecycleNext]_lifecycleVars
  PROVE  [LeaseNext]_leaseVars
<1>1. ASSUME NEW r \in Runs, NEW expected, SomeTransition(r, expected)
      PROVE  UNCHANGED leaseVars
  BY <1>1 DEF SomeTransition, Transition
<1>2. ASSUME NEW r \in Runs, NEW revision, NEW expected, ApplyRevision(r, revision, expected)
      PROVE  LeaseNext
  BY <1>2 DEF ApplyRevision, LeaseNext
<1>3. ASSUME NEW r \in Runs, NEW action, RequestControl(r, action)
      PROVE  [LeaseNext]_leaseVars
  BY <1>3 DEF RequestControl, LeaseNext
<1>4. ASSUME NEW r \in Runs, ActNow(r)
      PROVE  [LeaseNext]_leaseVars
  BY <1>1, <1>2, <1>4 DEF ActNow
<1>5. ASSUME NEW c \in Callers, ActOnRead(c)
      PROVE  [LeaseNext]_leaseVars
  <2>1. seen[c][1] \in Runs
    BY <1>5, SeenType DEF ActOnRead
  <2>2. \/ SomeTransition(seen[c][1], seen[c][2].version)
        \/ \E revision \in 1..MaxRevision :
             ApplyRevision(seen[c][1], revision, seen[c][2].version)
        \/ UNCHANGED leaseVars
    BY <1>5 DEF ActOnRead
  <2> QED BY <2>1, <2>2, <1>1, <1>2
<1>6. ASSUME LeaseStep
      PROVE  LeaseNext
  BY <1>6 DEF LeaseStep, LeaseNext
<1> QED
  BY <1>3, <1>4, <1>5, <1>6
  DEF LifecycleNext, lifecycleVars, CreateRun, BudgetMoves, AskQuestion, AnswerQuestion,
      RecordContract, SealCandidate, Read

-----------------------------------------------------------------------------
(* Preservation of the invariant *)

LEMMA RowWrittenEffect ==
  ASSUME LifecycleTypeOK, NEW r \in Runs, RowWritten(r)
  PROVE  /\ runs' \in [Runs -> Row]
         /\ runs'[r].version = runs[r].version + 1
         /\ runs[r].version \in Nat
         /\ \A s \in Runs \ {r} : runs'[s] = runs[s]
         /\ \A s \in Runs : runs'[s].state = "NONE" <=> runs'[s].version = 0
<1>1. PICK row \in Row :
        /\ row.state # "NONE"
        /\ row.version = runs[r].version + 1
        /\ runs' = [runs EXCEPT ![r] = row]
  BY DEF RowWritten
<1>2. runs \in [Runs -> Row] /\ runs[r].version \in Nat
  BY LifecycleConstantsOK DEF LifecycleTypeOK, Row
<1>3. runs' \in [Runs -> Row] /\ runs'[r] = row /\ \A s \in Runs \ {r} : runs'[s] = runs[s]
  BY <1>1, <1>2
<1>4. runs'[r].state # "NONE" /\ runs'[r].version # 0
  BY <1>1, <1>2, <1>3
<1>5. ASSUME NEW s \in Runs \ {r} PROVE runs'[s].state = "NONE" <=> runs'[s].version = 0
  BY <1>3 DEF LifecycleTypeOK
<1> QED BY <1>1, <1>2, <1>3, <1>4, <1>5

\* The rows and the callers' copies stay well typed.
LEMMA RowStepTypes ==
  ASSUME LifecycleTypeOK, RowStep
  PROVE  /\ runs' \in [Runs -> Row]
         /\ \A r \in Runs : runs'[r].state = "NONE" <=> runs'[r].version = 0
         /\ seen' \in [Callers -> {<< >>} \cup (Runs \X Row)]
<1>1. CASE UNCHANGED <<runs, seen>>
  BY <1>1 DEF LifecycleTypeOK
<1>2. ASSUME NEW r \in Runs, RowWritten(r), UNCHANGED seen
      PROVE  /\ runs' \in [Runs -> Row]
             /\ \A s \in Runs : runs'[s].state = "NONE" <=> runs'[s].version = 0
             /\ seen' \in [Callers -> {<< >>} \cup (Runs \X Row)]
  BY <1>2, RowWrittenEffect DEF LifecycleTypeOK
<1>3. ASSUME NEW c \in Callers, NEW r \in Runs, UNCHANGED runs,
             seen' = [seen EXCEPT ![c] = <<r, runs[r]>>]
      PROVE  seen' \in [Callers -> {<< >>} \cup (Runs \X Row)]
  BY <1>3 DEF LifecycleTypeOK
<1>4. ASSUME NEW c \in Callers, ReadUsed(c)
      PROVE  /\ runs' \in [Runs -> Row]
             /\ \A r \in Runs : runs'[r].state = "NONE" <=> runs'[r].version = 0
             /\ seen' \in [Callers -> {<< >>} \cup (Runs \X Row)]
  <2>1. seen' \in [Callers -> {<< >>} \cup (Runs \X Row)]
    BY <1>4 DEF ReadUsed, LifecycleTypeOK
  <2>2. CASE RowWritten(seen[c][1])
    BY <1>4, <2>1, <2>2, SeenType, RowWrittenEffect DEF ReadUsed
  <2>3. CASE UNCHANGED runs
    BY <2>1, <2>3 DEF LifecycleTypeOK
  <2> QED BY <1>4, <2>2, <2>3 DEF ReadUsed
<1>5. UNCHANGED runs => /\ runs' \in [Runs -> Row]
                        /\ \A r \in Runs : runs'[r].state = "NONE" <=> runs'[r].version = 0
  BY DEF LifecycleTypeOK
<1> QED BY <1>1, <1>2, <1>3, <1>4, <1>5 DEF RowStep

\* The records that only decide guards stay well typed.
LEMMA RecordsTypes ==
  ASSUME LifecycleTypeOK, [LifecycleNext]_lifecycleVars
  PROVE  /\ contracts' \in [Projects -> SUBSET (1..MaxRevision)]
         /\ sealed' \in [Runs -> SUBSET (1..MaxRevision)]
         /\ intent' \in [Runs -> Intents]
         /\ questions' \in [Questions -> {"ABSENT", "OPEN", "SUPERSEDED", "ANSWERED"}]
         /\ reserved' \subseteq Runs
<1> DEFINE Typed == /\ contracts' \in [Projects -> SUBSET (1..MaxRevision)]
                    /\ sealed' \in [Runs -> SUBSET (1..MaxRevision)]
                    /\ intent' \in [Runs -> Intents]
                    /\ questions' \in [Questions -> {"ABSENT", "OPEN", "SUPERSEDED", "ANSWERED"}]
                    /\ reserved' \subseteq Runs
<1> USE DEF LifecycleTypeOK
<1>1. ASSUME UNCHANGED <<contracts, sealed, intent, questions, reserved>> PROVE Typed
  BY <1>1
<1>2. ASSUME NEW r \in Runs, CreateRun(r) PROVE Typed
  BY <1>2 DEF CreateRun
<1>3. ASSUME NEW r \in Runs, BudgetMoves(r) PROVE Typed
  BY <1>3 DEF BudgetMoves
<1>4. ASSUME NEW r \in Runs, NEW expected, SomeTransition(r, expected) PROVE Typed
  BY <1>4, <1>1 DEF SomeTransition, Transition
<1>5. ASSUME NEW r \in Runs, NEW revision \in 1..MaxRevision, NEW expected,
             ApplyRevision(r, revision, expected)
      PROVE  Typed
  BY <1>5, ConstantsOK DEF ApplyRevision
<1>6. ASSUME NEW r \in Runs, ActNow(r) PROVE Typed
  BY <1>4, <1>5, <1>6 DEF ActNow
<1>7. ASSUME NEW c \in Callers, ActOnRead(c) PROVE Typed
  <2>1. seen[c][1] \in Runs
    BY <1>7, SeenType DEF ActOnRead
  <2>2. \/ SomeTransition(seen[c][1], seen[c][2].version)
        \/ \E revision \in 1..MaxRevision :
             ApplyRevision(seen[c][1], revision, seen[c][2].version)
        \/ UNCHANGED <<contracts, sealed, intent, questions, reserved>>
    BY <1>7 DEF ActOnRead
  <2> QED BY <2>1, <2>2, <1>1, <1>4, <1>5
<1>8. ASSUME NEW q \in Questions, AskQuestion(q) \/ AnswerQuestion(q) PROVE Typed
  BY <1>8 DEF AskQuestion, AnswerQuestion
<1>9. ASSUME NEW p \in Projects, NEW revision \in 1..MaxRevision, RecordContract(p, revision)
      PROVE  Typed
  BY <1>9 DEF RecordContract
<1>10. ASSUME NEW r \in Runs, NEW revision \in 1..MaxRevision, SealCandidate(r, revision)
       PROVE  Typed
  BY <1>10 DEF SealCandidate
<1>11. ASSUME NEW r \in Runs, NEW action \in Intents, RequestControl(r, action) PROVE Typed
  BY <1>11 DEF RequestControl
<1>12. ASSUME NEW c \in Callers, NEW r \in Runs, Read(c, r) PROVE Typed
  BY <1>12, <1>1 DEF Read
<1>13. ASSUME LeaseStep PROVE Typed
  BY <1>13, <1>1 DEF LeaseStep, runVars
<1>14. ASSUME UNCHANGED lifecycleVars PROVE Typed
  BY <1>14, <1>1 DEF lifecycleVars, runVars
<1> HIDE DEF Typed
<1>15. Typed
  BY <1>2, <1>3, <1>6, <1>7, <1>8, <1>9, <1>10, <1>11, <1>12, <1>13, <1>14
  DEF LifecycleNext
<1> QED BY <1>15 DEF Typed

\* A copy stays behind its row because every write moves the version.
LEMMA RowStepKeepsSeen ==
  ASSUME LifecycleTypeOK, SeenNotAhead, RowStep
  PROVE  SeenNotAhead'
<1>1. ASSUME NEW c \in Callers, seen[c] # << >>, NEW r \in Runs, RowWritten(r)
      PROVE  /\ seen[c][2].version <= runs'[seen[c][1]].version
             /\ seen[c][2].version = runs'[seen[c][1]].version
                  => seen[c][2] = runs'[seen[c][1]]
  <2>1. seen[c][1] \in Runs /\ seen[c][2] \in Row
    BY <1>1, SeenType
  <2>2. seen[c][2].version \in Nat
    BY <2>1, LifecycleConstantsOK DEF Row
  <2>3. CASE seen[c][1] = r
    <3>1. seen[c][2].version <= runs[r].version
      BY <1>1, <2>3 DEF SeenNotAhead
    <3>2. runs'[r].version = runs[r].version + 1 /\ runs[r].version \in Nat
      BY <1>1, RowWrittenEffect
    <3> QED BY <2>2, <2>3, <3>1, <3>2
  <2>4. CASE seen[c][1] # r
    <3>1. runs'[seen[c][1]] = runs[seen[c][1]]
      BY <1>1, <2>1, <2>4, RowWrittenEffect
    <3> QED BY <1>1, <3>1 DEF SeenNotAhead
  <2> QED BY <2>3, <2>4
<1>2. CASE UNCHANGED <<runs, seen>>
  BY <1>2 DEF SeenNotAhead
<1>3. ASSUME NEW r \in Runs, RowWritten(r), UNCHANGED seen
      PROVE  SeenNotAhead'
  BY <1>1, <1>3 DEF SeenNotAhead
<1>4. ASSUME NEW d \in Callers, NEW r \in Runs, UNCHANGED runs,
             seen' = [seen EXCEPT ![d] = <<r, runs[r]>>]
      PROVE  SeenNotAhead'
  <2> SUFFICES ASSUME NEW c \in Callers, seen'[c] # << >>
               PROVE  /\ seen'[c][2].version <= runs'[seen'[c][1]].version
                      /\ seen'[c][2].version = runs'[seen'[c][1]].version
                           => seen'[c][2] = runs'[seen'[c][1]]
    BY DEF SeenNotAhead
  <2>1. CASE c = d
    <3>1. seen'[c] = <<r, runs[r]>> /\ runs' = runs
      BY <1>4, <2>1 DEF LifecycleTypeOK
    <3>2. runs[r].version \in Nat
      BY LifecycleConstantsOK DEF LifecycleTypeOK, Row
    <3> QED BY <3>1, <3>2
  <2>2. CASE c # d
    <3>1. seen'[c] = seen[c] /\ runs' = runs
      BY <1>4, <2>2 DEF LifecycleTypeOK
    <3> QED BY <3>1 DEF SeenNotAhead
  <2> QED BY <2>1, <2>2
<1>5. ASSUME NEW d \in Callers, ReadUsed(d)
      PROVE  SeenNotAhead'
  <2> SUFFICES ASSUME NEW c \in Callers, seen'[c] # << >>
               PROVE  /\ seen'[c][2].version <= runs'[seen'[c][1]].version
                      /\ seen'[c][2].version = runs'[seen'[c][1]].version
                           => seen'[c][2] = runs'[seen'[c][1]]
    BY DEF SeenNotAhead
  <2>1. seen'[c] = seen[c] /\ seen[c] # << >>
    BY <1>5 DEF ReadUsed, LifecycleTypeOK
  <2>2. seen[d][1] \in Runs
    BY <1>5, SeenType DEF ReadUsed
  <2>3. CASE RowWritten(seen[d][1])
    BY <2>1, <2>2, <2>3, <1>1
  <2>4. CASE UNCHANGED runs
    BY <2>1, <2>4 DEF SeenNotAhead
  <2> QED BY <1>5, <2>3, <2>4 DEF ReadUsed
<1> QED BY <1>2, <1>3, <1>4, <1>5 DEF RowStep

LEMMA LifecycleStepKeepsInv ==
  ASSUME LifecycleInv, [LifecycleNext]_lifecycleVars
  PROVE  LifecycleInv'
<1>1. LifecycleTypeOK /\ LeaseInv /\ SeenNotAhead
  BY DEF LifecycleInv
<1>2. RowStep
  BY <1>1, StepsOnRows
<1>3. [LeaseNext]_leaseVars
  BY <1>1, LifecycleStepIsLeaseStep
<1>4. LeaseInv'
  BY <1>1, <1>3, StepKeepsInv
<1>5. LeaseTypeOK'
  BY <1>4 DEF LeaseInv
<1>6. SeenNotAhead'
  BY <1>1, <1>2, RowStepKeepsSeen
<1>7. LifecycleTypeOK'
  BY <1>1, <1>2, <1>5, RowStepTypes, RecordsTypes DEF LifecycleTypeOK
<1> QED BY <1>4, <1>6, <1>7 DEF LifecycleInv

LEMMA LifecycleInitEstablishesInv == LifecycleInit => LifecycleInv
<1> SUFFICES ASSUME LifecycleInit PROVE LifecycleInv
  OBVIOUS
<1>1. LeaseInv
  BY InitEstablishesInv DEF LifecycleInit
<1>2. 0 \in 0..MaxVersion /\ 0 \in 0..MaxRevision
  BY LifecycleConstantsOK
<1>3. runs \in [Runs -> Row] /\ \A r \in Runs : runs[r].state = "NONE" <=> runs[r].version = 0
  BY <1>2 DEF LifecycleInit, Row
<1>4. LifecycleTypeOK
  BY <1>1, <1>3 DEF LifecycleInit, LifecycleTypeOK, LeaseInv, Intents
<1>5. SeenNotAhead
  BY DEF LifecycleInit, SeenNotAhead
<1> QED BY <1>1, <1>4, <1>5 DEF LifecycleInv

-----------------------------------------------------------------------------
(* Theorems *)

\* The inductive invariant of the lifecycle.
THEOREM LifecycleInvariant == LifecycleSpec => []LifecycleInv
  BY LifecycleInitEstablishesInv, LifecycleStepKeepsInv, PTL DEF LifecycleSpec

\* Every reachable state is well typed.
THEOREM LifecycleTypes == LifecycleSpec => []LifecycleTypeOK
<1>1. LifecycleInv => LifecycleTypeOK
  BY DEF LifecycleInv
<1> QED BY <1>1, LifecycleInvariant, PTL

\* The lifecycle implements the lease protocol: every theorem of LeasesProofs
\* holds whatever transitions, intents and revisions the runs go through.
THEOREM LifecycleImplementsLeases == LifecycleSpec => LeaseSpec
<1>1. LifecycleInit => LeaseInit
  BY DEF LifecycleInit
<1>2. LifecycleInv /\ [LifecycleNext]_lifecycleVars => [LeaseNext]_leaseVars
  BY LifecycleStepIsLeaseStep DEF LifecycleInv
<1> QED BY <1>1, <1>2, LifecycleInvariant, PTL DEF LifecycleSpec, LeaseSpec

LEMMA StepCommitsFromRead ==
  ASSUME LifecycleInv, [LifecycleNext]_lifecycleVars,
         NEW c \in Callers, seen[c] # << >>, seen'[c] = << >>, runs' # runs
  PROVE  runs[seen[c][1]] = seen[c][2]
<1>1. LifecycleTypeOK /\ SeenNotAhead
  BY DEF LifecycleInv
<1>2. RowStep
  BY <1>1, StepsOnRows
<1>3. ASSUME NEW d \in Callers, ReadUsed(d)
      PROVE  runs[seen[c][1]] = seen[c][2]
  <2>1. d = c
    BY <1>1, <1>3 DEF ReadUsed, LifecycleTypeOK
  <2>2. runs[seen[c][1]].version = seen[c][2].version
    BY <1>3, <2>1 DEF ReadUsed
  <2> QED BY <1>1, <2>2 DEF SeenNotAhead
<1> QED BY <1>2, <1>3 DEF RowStep

\* Compare-and-swap: a call on a row its caller read commits only if the run
\* still has that row.
THEOREM CompareAndSwapSound == LifecycleSpec => CommitsFromRowRead
<1>1. LifecycleInv /\ [LifecycleNext]_lifecycleVars
        => [\A c \in Callers :
              seen[c] # << >> /\ seen'[c] = << >> /\ runs' # runs
                => runs[seen[c][1]] = seen[c][2]]_lifecycleVars
  BY StepCommitsFromRead
<1> QED BY <1>1, LifecycleInvariant, PTL DEF LifecycleSpec, CommitsFromRowRead

\* No ended lease of a writer is accepted again, in any lifecycle.
THEOREM EndedStaysFencedInLifecycle == LifecycleSpec => EndedLeaseNeverAccepted
  BY LifecycleImplementsLeases, EndedStaysFenced, PTL

-----------------------------------------------------------------------------
(* What changes the row of a run *)

LEMMA RulesMove == \A rule \in Rules : rule[1] # rule[2]
  BY DEF Rules, Interruptible

LEMMA ReviewedNeeds == "NONE" \notin Reviewed /\ Reviewed \cap Unscoped = {}
  BY DEF Reviewed, Unscoped

\* The row of a run is written by createRun, a transition of that run or a
\* revision of its requirements, and by nothing else.
LEMMA RowChange ==
  ASSUME LifecycleTypeOK, [LifecycleNext]_lifecycleVars, NEW r \in Runs, runs'[r] # runs[r]
  PROVE  \/ CreateRun(r)
         \/ \E expected : SomeTransition(r, expected)
         \/ \E expected : \E revision \in 1..MaxRevision : ApplyRevision(r, revision, expected)
<1>1. ASSUME NEW s \in Runs, RowWritten(s) PROVE s = r
  BY <1>1, RowWrittenEffect
<1>2. ASSUME NEW s \in Runs, CreateRun(s) PROVE s = r
  BY <1>1, <1>2, CreateWritesRow
<1>3. ASSUME NEW s \in Runs, NEW expected, SomeTransition(s, expected) PROVE s = r
  BY <1>1, <1>3, TransitionWritesRow
<1>4. ASSUME NEW s \in Runs, NEW expected, NEW revision \in 1..MaxRevision,
             ApplyRevision(s, revision, expected)
      PROVE  s = r
  BY <1>1, <1>4, RevisionWritesRow
<1>5. ASSUME NEW s \in Runs, ActNow(s)
      PROVE  \/ \E expected : SomeTransition(r, expected)
             \/ \E expected : \E revision \in 1..MaxRevision : ApplyRevision(r, revision, expected)
  BY <1>3, <1>4, <1>5 DEF ActNow
<1>6. ASSUME NEW c \in Callers, ActOnRead(c)
      PROVE  \/ \E expected : SomeTransition(r, expected)
             \/ \E expected : \E revision \in 1..MaxRevision : ApplyRevision(r, revision, expected)
  <2>1. seen[c][1] \in Runs
    BY <1>6, SeenType DEF ActOnRead
  <2>2. \/ SomeTransition(seen[c][1], seen[c][2].version)
        \/ \E revision \in 1..MaxRevision :
             ApplyRevision(seen[c][1], revision, seen[c][2].version)
    BY <1>6 DEF ActOnRead
  <2> QED BY <1>3, <1>4, <2>1, <2>2
<1>7. ~UNCHANGED runs
  OBVIOUS
<1>8. ~LeaseStep /\ ~UNCHANGED lifecycleVars
  BY <1>7 DEF LeaseStep, runVars, lifecycleVars
<1> QED
  BY <1>2, <1>5, <1>6, <1>7, <1>8
  DEF LifecycleNext, BudgetMoves, RequestControl, SealCandidate, AskQuestion, AnswerQuestion,
      RecordContract, Read

\* What a transition writes: a row of another state that the constraints of
\* the table take.
LEMMA TransitionRow ==
  ASSUME LifecycleTypeOK, NEW r \in Runs, NEW expected, SomeTransition(r, expected)
  PROVE  /\ runs'[r].state # runs[r].state
         /\ RowLegal(r, runs'[r], Recorded(r))
<1>1. PICK rule \in RulesFrom(runs[r].state), revision \in 0..MaxRevision,
           candidate \in 0..MaxRevision : Transition(r, rule, revision, candidate, expected)
  BY DEF SomeTransition
<1>2. /\ runs[r].state = rule[1] /\ rule \in Rules
      /\ runs' = [runs EXCEPT ![r] = Updated(r, rule[2], revision, candidate)]
      /\ RowLegal(r, Updated(r, rule[2], revision, candidate), Recorded(r))
  BY <1>1 DEF Transition, RulesFrom
<1>3. runs'[r] = Updated(r, rule[2], revision, candidate)
  BY <1>2 DEF LifecycleTypeOK
<1>4. runs'[r].state = rule[2]
  BY <1>3 DEF Updated
<1> QED BY <1>2, <1>3, <1>4, RulesMove

\* What a revision writes: the candidate goes, and a row that needs one refuses.
LEMMA RevisionRow ==
  ASSUME LifecycleTypeOK, NEW r \in Runs, NEW expected, NEW revision \in 1..MaxRevision,
         ApplyRevision(r, revision, expected)
  PROVE  /\ runs'[r].candidate = 0
         /\ runs[r].state \notin Reviewed /\ runs'[r].state \notin Reviewed
         /\ RowLegal(r, runs[r], Recorded(r))'
         /\ FenceRun(r)
<1>1. /\ RowLegal(r, Updated(r, runs[r].state, revision, 0), Recorded(r) \cup {revision})
      /\ runs' = [runs EXCEPT ![r] = Updated(r, runs[r].state, revision, 0)]
      /\ contracts' = [contracts EXCEPT ![ProjectOf[r]] = @ \cup {revision}]
      /\ UNCHANGED sealed
      /\ FenceRun(r)
  BY DEF ApplyRevision
<1>2. runs'[r] = Updated(r, runs[r].state, revision, 0)
  BY <1>1 DEF LifecycleTypeOK
<1>3. runs'[r].candidate = 0 /\ runs'[r].state = runs[r].state
  BY <1>2 DEF Updated
<1>4. runs[r].state \notin Reviewed
  BY <1>1 DEF RowLegal, Updated
<1>5. Recorded(r)' = Recorded(r) \cup {revision}
  BY <1>1, ConstantsOK DEF Recorded, LifecycleTypeOK
<1>6. RowLegal(r, runs[r], Recorded(r))'
  BY <1>1, <1>2, <1>5 DEF RowLegal
<1> QED BY <1>1, <1>3, <1>4, <1>6

\* Contracts and candidates are only added to.
LEMMA RecordsGrow ==
  ASSUME LifecycleTypeOK, [LifecycleNext]_lifecycleVars, NEW r \in Runs
  PROVE  Recorded(r) \subseteq Recorded(r)' /\ sealed[r] \subseteq sealed'[r]
<1> DEFINE Grown == /\ \A p \in Projects : contracts[p] \subseteq contracts'[p]
                    /\ \A s \in Runs : sealed[s] \subseteq sealed'[s]
<1> USE DEF LifecycleTypeOK
<1>1. ASSUME UNCHANGED <<contracts, sealed>> PROVE Grown
  BY <1>1
<1>2. ASSUME NEW s, NEW expected, SomeTransition(s, expected) PROVE Grown
  BY <1>1, <1>2 DEF SomeTransition, Transition
<1>3. ASSUME NEW s, NEW revision, NEW expected, ApplyRevision(s, revision, expected) PROVE Grown
  BY <1>3 DEF ApplyRevision
<1>4. ASSUME NEW s, ActNow(s) PROVE Grown
  BY <1>2, <1>3, <1>4 DEF ActNow
<1>5. ASSUME NEW c, ActOnRead(c) PROVE Grown
  <2>1. \/ \E s, expected : SomeTransition(s, expected)
        \/ \E s, revision, expected : ApplyRevision(s, revision, expected)
        \/ UNCHANGED <<contracts, sealed>>
    BY <1>5 DEF ActOnRead
  <2> QED BY <2>1, <1>1, <1>2, <1>3
<1>6. ASSUME NEW p, NEW revision, RecordContract(p, revision) PROVE Grown
  BY <1>6 DEF RecordContract
<1>7. ASSUME NEW s, NEW revision, SealCandidate(s, revision) PROVE Grown
  BY <1>7 DEF SealCandidate
<1>8. ASSUME LeaseStep \/ UNCHANGED lifecycleVars PROVE Grown
  BY <1>1, <1>8 DEF LeaseStep, runVars, lifecycleVars
<1> HIDE DEF Grown
<1>9. Grown
  BY <1>1, <1>4, <1>5, <1>6, <1>7, <1>8
  DEF LifecycleNext, CreateRun, BudgetMoves, RequestControl, AskQuestion, AnswerQuestion, Read
<1>10. ProjectOf[r] \in Projects
  BY ConstantsOK
<1> QED BY <1>9, <1>10 DEF Grown, Recorded

\* What a run in review needs of its row.
Reviewable(r, row) == row.candidate \in sealed[r] /\ row.revision \in Recorded(r)

LEMMA ReviewedStep ==
  ASSUME LifecycleTypeOK, [LifecycleNext]_lifecycleVars, NEW r \in Runs,
         runs[r].state \in Reviewed, RowLegal(r, runs[r], Recorded(r))
  PROVE  /\ runs'[r].state = runs[r].state => runs'[r] = runs[r]
         /\ runs'[r].state \in Reviewed => Reviewable(r, runs'[r])
<1>1. ASSUME NEW row, RowLegal(r, row, Recorded(r)), row.state \in Reviewed
      PROVE  Reviewable(r, row)
  BY <1>1, ReviewedNeeds DEF RowLegal, Reviewable
<1>2. CASE runs'[r] = runs[r]
  BY <1>1, <1>2
<1>3. CASE CreateRun(r)
  BY <1>3 DEF CreateRun, Exists, Reviewed
<1>4. ASSUME NEW expected, SomeTransition(r, expected)
      PROVE  /\ runs'[r].state # runs[r].state
             /\ runs'[r].state \in Reviewed => Reviewable(r, runs'[r])
  BY <1>1, <1>4, TransitionRow
<1>5. ASSUME NEW expected, NEW revision \in 1..MaxRevision, ApplyRevision(r, revision, expected)
      PROVE  FALSE
  BY <1>5, RevisionRow
<1> QED BY <1>2, <1>3, <1>4, <1>5, RowChange

\* A row that needs records has them: what the table's constraints asked of
\* a row when it was written still holds of it.
RowsLegal == \A r \in Runs : Exists(r) => RowLegal(r, runs[r], Recorded(r))

LEMMA StepKeepsRowsLegal ==
  ASSUME LifecycleInv, RowsLegal, [LifecycleNext]_lifecycleVars
  PROVE  RowsLegal'
<1> SUFFICES ASSUME NEW r \in Runs, Exists(r)' PROVE RowLegal(r, runs[r], Recorded(r))'
  BY DEF RowsLegal
<1>1. LifecycleTypeOK
  BY DEF LifecycleInv
<1>2. ASSUME NEW row, RowLegal(r, row, Recorded(r)) PROVE RowLegal(r, row, Recorded(r))'
  <2>1. Recorded(r) \subseteq Recorded(r)' /\ sealed[r] \subseteq sealed'[r]
    BY <1>1, RecordsGrow
  <2> QED BY <1>2, <2>1 DEF RowLegal
<1>3. CASE runs'[r] = runs[r]
  BY <1>2, <1>3 DEF RowsLegal, Exists
<1>4. CASE CreateRun(r)
  <2>1. runs'[r] = Updated(r, "RECEIVED", 0, 0)
    BY <1>1, <1>4 DEF CreateRun, LifecycleTypeOK
  <2> QED BY <2>1 DEF RowLegal, Updated, Reviewed, Unscoped
<1>5. ASSUME NEW expected, SomeTransition(r, expected)
      PROVE  RowLegal(r, runs[r], Recorded(r))'
  <2>1. RowLegal(r, runs'[r], Recorded(r))
    BY <1>1, <1>5, TransitionRow
  <2> QED BY <1>2, <2>1 DEF RowLegal
<1>6. ASSUME NEW expected, NEW revision \in 1..MaxRevision, ApplyRevision(r, revision, expected)
      PROVE  RowLegal(r, runs[r], Recorded(r))'
  BY <1>1, <1>6, RevisionRow
<1> QED BY <1>1, <1>3, <1>4, <1>5, <1>6, RowChange

LEMMA RowsStayLegal == LifecycleSpec => []RowsLegal
<1>1. LifecycleInit => RowsLegal
  BY DEF LifecycleInit, RowsLegal, Exists
<1> QED BY <1>1, StepKeepsRowsLegal, LifecycleInvariant, PTL DEF LifecycleSpec

\* While a run is in review only a transition may replace what is reviewed,
\* by a candidate sealed in this very run at a recorded revision.
THEOREM ReviewKept == LifecycleSpec => ReviewKeepsCandidate
<1>1. LifecycleInv /\ RowsLegal /\ [LifecycleNext]_lifecycleVars
        => [\A r \in Runs : runs[r].state \in Reviewed
              => /\ runs'[r].state = runs[r].state => runs'[r] = runs[r]
                 /\ runs'[r].state \in Reviewed
                      => runs'[r].candidate \in sealed[r]
                           /\ runs'[r].revision \in Recorded(r)]_lifecycleVars
  BY ReviewedStep, ReviewedNeeds DEF LifecycleInv, RowsLegal, Exists, Reviewable
<1> QED BY <1>1, LifecycleInvariant, RowsStayLegal, PTL DEF LifecycleSpec, ReviewKeepsCandidate

LEMMA RevisionStepFences ==
  ASSUME LifecycleTypeOK, [LifecycleNext]_lifecycleVars, NEW r \in Runs,
         runs'[r].state = runs[r].state, runs'[r].revision # runs[r].revision
  PROVE  /\ runs'[r].candidate = 0
         /\ \A a \in Attempts, e \in 1..MaxEpoch : RunOf[a] = r => ~CheckFence(a, e)'
<1>1. ~CreateRun(r)
  <2>1. ASSUME CreateRun(r) PROVE FALSE
    <3>1. runs' = [runs EXCEPT ![r] = Updated(r, "RECEIVED", 0, 0)] /\ runs[r].state = "NONE"
      BY <2>1 DEF CreateRun, Exists
    <3>2. runs'[r].state = "RECEIVED"
      BY <3>1 DEF Updated, LifecycleTypeOK
    <3> QED BY <3>1, <3>2
  <2> QED BY <2>1
<1>2. ASSUME NEW expected, SomeTransition(r, expected) PROVE FALSE
  BY <1>2, TransitionRow, RulesMove
<1>3. PICK expected : \E revision \in 1..MaxRevision : ApplyRevision(r, revision, expected)
  BY <1>1, <1>2, RowChange
<1>4. runs'[r].candidate = 0 /\ FenceRun(r)
  BY <1>3, RevisionRow
<1>5. \A a \in Attempts, e \in 1..MaxEpoch : RunOf[a] = r => ~CheckFence(a, e)'
  <2>1. \A a \in Attempts : RunOf[a] = r => status'[a] \in {"ABSENT", "REVOKED"}
    BY <1>4 DEF FenceRun, Live
  <2> QED BY <2>1 DEF CheckFence
<1> QED BY <1>4, <1>5

\* A revision applied in place fences every attempt of the run and drops its
\* candidate, in the step that records it.
THEOREM RevisionFenced == LifecycleSpec => RevisionFences
<1>1. LifecycleInv /\ [LifecycleNext]_lifecycleVars
        => [\A r \in Runs :
              runs'[r].state = runs[r].state /\ runs'[r].revision # runs[r].revision
                => /\ runs'[r].candidate = 0
                   /\ \A a \in Attempts, e \in 1..MaxEpoch :
                        RunOf[a] = r => ~CheckFence(a, e)']_lifecycleVars
  BY RevisionStepFences DEF LifecycleInv
<1> QED BY <1>1, LifecycleInvariant, PTL DEF LifecycleSpec, RevisionFences
=============================================================================
