-------------------------- MODULE DocumentsProofs --------------------------
(***************************************************************************)
(* Proofs about the parts of a document job, for any documents, files,     *)
(* jobs and bounds.  DocumentJobs: the invariant adds to the properties    *)
(* what the verdict remembers (VerdictOnRow) and that the result a job is  *)
(* bound to was recorded for it (BoundRecorded), since a property of one   *)
(* award or one expiry rests on what every earlier step did to the row and *)
(* to the results.  Editing: the version an edit starts from says what the *)
(* source says, which rests on lemmas about reading a written document     *)
(* back.  Reading: the scope is of the inventory of the uploaded bytes,    *)
(* which rests on lemmas about ranges of rows and the walk over them.      *)
(* Workbook: what evaluation finds is what the formulas determine, by the  *)
(* cells that are not being evaluated yet.                                 *)
(***************************************************************************)
EXTENDS DocumentJobs, Editing, Reading, Workbook, FiniteSetTheorems, SequenceTheorems,
        WellFoundedInduction, TLAPS

-----------------------------------------------------------------------------
(***************************************************************************)
(* Document jobs                                                          *)
(***************************************************************************)

\* The result a job is bound to was recorded for that job: the foreign key.
BoundRecorded == \A j \in Jobs : bound[j] # NoResult => bound[j] \in RecordedFor(j)

\* A verdict is about a recorded result and about a row that existed; while
\* that row is unchanged the result is of its revision.
VerdictOnRow ==
  \A j \in Jobs : verdict[j] # << >> =>
    /\ verdict[j][1] \in RecordedFor(j)
    /\ verdict[j][2] <= version[j]
    /\ verdict[j][2] = version[j] => recorded[verdict[j][1]] = revision[j]

\* A question that is open was asked of a job that exists.
OpenAsked == \A q \in Questions : status[q] = "OPEN" => askedAt[q] >= 1

DocInv == /\ DocTypeOK /\ RunningAttemptsCurrent /\ OpenQuestionIsCurrent
          /\ BoundRecorded /\ VerdictOnRow /\ OpenAsked

\* Every transition leads out of a real state to a real state.
LEMMA TransitionsReal ==
  \A s, t : <<s, t>> \in TRANSITIONS => s \in JobStates /\ s # "NONE" /\ t \in JobStates /\ t # "NONE"
BY DEF TRANSITIONS, JobStates

-----------------------------------------------------------------------------
(* The initial state satisfies the invariant.                               *)

LEMMA DocInitInv == DocInit => DocInv
<1> SUFFICES ASSUME DocInit PROVE DocInv OBVIOUS
<1> USE DocConstantsOK DEF DocInit
<1>1. DocTypeOK BY DEF DocTypeOK, JobStates
<1>2. RunningAttemptsCurrent BY DEF RunningAttemptsCurrent
<1>3. OpenQuestionIsCurrent BY DEF OpenQuestionIsCurrent, OpenOf
<1>4. BoundRecorded BY DEF BoundRecorded
<1>5. VerdictOnRow BY DEF VerdictOnRow
<1>6. OpenAsked BY DEF OpenAsked
<1> QED BY <1>1, <1>2, <1>3, <1>4, <1>5, <1>6 DEF DocInv

-----------------------------------------------------------------------------
(* One lemma per handler that changes the job row; the others leave it.     *)

LEMMA CreateInv == ASSUME DocInv, NEW j \in Jobs, create(j) PROVE DocInv'
<1> USE DocConstantsOK DEF DocInv, create, Known, jobVars, questionVars
<1>1. DocTypeOK'
  <2>1. /\ state' \in [Jobs -> JobStates \cup {"NONE"}] /\ version' \in [Jobs -> 0..MaxVersion]
        /\ revision' \in [Jobs -> 0..MaxRevision]
    BY DEF DocTypeOK, JobStates
  <2>2. \A i \in Jobs : /\ state'[i] = "NONE" <=> version'[i] = 0
                        /\ state'[i] = "NONE" <=> revision'[i] = 0
    BY DEF DocTypeOK
  <2> QED BY <2>1, <2>2 DEF DocTypeOK
<1>2. RunningAttemptsCurrent'
  BY DEF RunningAttemptsCurrent, checkAttempt, DocTypeOK, Attempts
<1>3. OpenQuestionIsCurrent' BY DEF OpenQuestionIsCurrent, OpenOf, OpenAsked, DocTypeOK
<1>4. BoundRecorded' BY DEF BoundRecorded, RecordedFor
<1>5. VerdictOnRow' BY DEF VerdictOnRow, RecordedFor, DocTypeOK
<1>6. OpenAsked' BY DEF OpenAsked
<1> QED BY <1>1, <1>2, <1>3, <1>4, <1>5, <1>6

\* The compare-and-swap, for transition and award.
LEMMA SwapInv ==
  ASSUME DocInv, NEW j \in Jobs, NEW expected, NEW target, NEW result,
         Swap(j, expected, target, result)
  PROVE  DocInv'
<1> USE DocConstantsOK DEF DocInv, Swap, jobVars, questionVars
<1>0. /\ state[j] # "NONE" /\ target \in JobStates /\ target # "NONE"
      /\ result \in Results \cup {NoResult}
  BY TransitionsReal DEF RecordedFor
<1>1. DocTypeOK'
  <2>1. version[j] + 1 \in 1..MaxVersion
    BY DEF DocTypeOK
  <2>2. /\ state' \in [Jobs -> JobStates \cup {"NONE"}] /\ version' \in [Jobs -> 0..MaxVersion]
        /\ bound' \in [Jobs -> Results \cup {NoResult}]
    BY <1>0, <2>1 DEF DocTypeOK
  <2>3. \A i \in Jobs : /\ state'[i] = "NONE" <=> version'[i] = 0
                        /\ state'[i] = "NONE" <=> revision'[i] = 0
    BY <1>0, <2>1 DEF DocTypeOK
  <2>4. UNCHANGED <<attempts, running, recorded, expired, questionVars, verdict>> /\ DocTypeOK
    OBVIOUS
  <2>5. revision' \in [Jobs -> 0..MaxRevision]
    BY DEF DocTypeOK
  <2> HIDE DEF Swap, DocInv
  <2> QED BY <2>2, <2>3, <2>4, <2>5 DEF DocTypeOK
<1>2. RunningAttemptsCurrent' BY DEF RunningAttemptsCurrent, checkAttempt
<1>3. OpenQuestionIsCurrent' BY DEF OpenQuestionIsCurrent, OpenOf
<1>4. BoundRecorded' BY DEF BoundRecorded, RecordedFor, DocTypeOK
<1>5. VerdictOnRow' BY DEF VerdictOnRow, RecordedFor, DocTypeOK
<1>6. OpenAsked' BY DEF OpenAsked
<1> QED BY <1>1, <1>2, <1>3, <1>4, <1>5, <1>6

LEMMA JudgeInv == ASSUME DocInv, NEW j \in Jobs, judge(j) PROVE DocInv'
<1> USE DocConstantsOK DEF DocInv, judge, jobVars, questionVars
<1>0. state[j] # "NONE" /\ version[j] \in 1..MaxVersion
  BY DEF DocTypeOK
<1>1. DocTypeOK'
  <2>1. PICK r \in RecordedFor(j) : verdict' = [verdict EXCEPT ![j] = <<r, version[j]>>]
    OBVIOUS
  <2>2. <<r, version[j]>> \in Results \X (1..MaxVersion)
    BY <1>0 DEF RecordedFor
  <2>3. verdict' \in [Jobs -> {<< >>} \cup (Results \X (1..MaxVersion))]
    BY <2>1, <2>2 DEF DocTypeOK
  <2>4. UNCHANGED <<jobVars, attempts, running, recorded, expired, questionVars>>
    OBVIOUS
  <2> QED BY <2>3, <2>4 DEF DocTypeOK
<1>2. RunningAttemptsCurrent' BY DEF RunningAttemptsCurrent, checkAttempt
<1>3. OpenQuestionIsCurrent' BY DEF OpenQuestionIsCurrent, OpenOf
<1>4. BoundRecorded' BY DEF BoundRecorded, RecordedFor
<1>5. VerdictOnRow' BY <1>0 DEF VerdictOnRow, RecordedFor, DocTypeOK
<1>6. OpenAsked' BY DEF OpenAsked
<1> QED BY <1>1, <1>2, <1>3, <1>4, <1>5, <1>6

\* Revoking every running attempt and superseding the open question is what
\* keeps both current when the revision moves on.
LEMMA ReviseInv == ASSUME DocInv, NEW j \in Jobs, reviseInstructions(j) PROVE DocInv'
<1> USE DocConstantsOK DEF DocInv, reviseInstructions, Fence, Supersede, Known
<1>0. /\ version[j] + 1 \in 1..MaxVersion /\ revision[j] + 1 \in 1..MaxRevision
      /\ running' \subseteq attempts
  BY DEF DocTypeOK
<1>t. status' \in [Questions -> {"ABSENT", "OPEN", "ANSWERED", "SUPERSEDED"}]
  BY DEF DocTypeOK
<1>1. DocTypeOK'
  <2>1. /\ version' \in [Jobs -> 0..MaxVersion] /\ revision' \in [Jobs -> 0..MaxRevision]
        /\ \A i \in Jobs : /\ state'[i] = "NONE" <=> version'[i] = 0
                           /\ state'[i] = "NONE" <=> revision'[i] = 0
    BY <1>0 DEF DocTypeOK
  <2>2. UNCHANGED <<state, bound, attempts, recorded, expired, askedAt, verdict>> /\ DocTypeOK
    OBVIOUS
  <2> HIDE DEF reviseInstructions, Fence, Supersede, Known, DocInv
  <2> QED BY <1>0, <1>t, <2>1, <2>2 DEF DocTypeOK
<1>2. RunningAttemptsCurrent' BY DEF RunningAttemptsCurrent, checkAttempt, DocTypeOK, Attempts
<1>3. OpenQuestionIsCurrent'
  <2>1. ASSUME NEW i \in Jobs, NEW q \in OpenOf(i)' PROVE i # j /\ q \in OpenOf(i)
    BY <2>1 DEF OpenOf, DocTypeOK
  <2>2. \A i \in Jobs : i # j => revision'[i] = revision[i]
    BY DEF DocTypeOK
  <2>3. askedAt' = askedAt
    OBVIOUS
  <2>4. OpenQuestionIsCurrent
    OBVIOUS
  <2> HIDE DEF DocInv, reviseInstructions, Fence, Supersede, Known
  <2> QED BY <2>1, <2>2, <2>3, <2>4 DEF OpenQuestionIsCurrent
<1>4. BoundRecorded' BY DEF BoundRecorded, RecordedFor
<1>5. VerdictOnRow' BY DEF VerdictOnRow, RecordedFor, DocTypeOK
<1>6. OpenAsked' BY DEF OpenAsked
<1> QED BY <1>1, <1>2, <1>3, <1>4, <1>5, <1>6

LEMMA InvalidateInv == ASSUME DocInv, NEW v \in Versions, invalidateDerived(v) PROVE DocInv'
<1> USE DocConstantsOK DEF DocInv, invalidateDerived, questionVars
<1>0. \A j \in Staled(v) : j \in Jobs /\ state[j] # "NONE" /\ state[j] \in JobStates
  BY DEF Staled, Delivered, JobStates
<1>a. Derived(v) \subseteq Results BY DEF Derived
<1>1. DocTypeOK'
  <2>1. \A i \in Jobs : /\ state'[i] \in JobStates \cup {"NONE"} /\ version'[i] \in 0..MaxVersion
                        /\ state'[i] = "NONE" <=> version'[i] = 0
                        /\ state'[i] = "NONE" <=> revision'[i] = 0
    BY <1>0 DEF DocTypeOK, JobStates
  <2>2. expired' \subseteq Versions \X Results
    BY <1>a DEF DocTypeOK
  <2>3. state' = [i \in Jobs |-> state'[i]] /\ version' = [i \in Jobs |-> version'[i]]
    OBVIOUS
  <2>4. UNCHANGED <<revision, bound, attempts, running, recorded, questionVars, verdict>> /\ DocTypeOK
    OBVIOUS
  <2> HIDE DEF invalidateDerived, DocInv
  <2> QED BY <2>1, <2>2, <2>3, <2>4 DEF DocTypeOK
<1>2. RunningAttemptsCurrent' BY DEF RunningAttemptsCurrent, checkAttempt
<1>3. OpenQuestionIsCurrent' BY DEF OpenQuestionIsCurrent, OpenOf
<1>4. BoundRecorded' BY DEF BoundRecorded, RecordedFor
<1>5. VerdictOnRow' BY DEF VerdictOnRow, RecordedFor, DocTypeOK
<1>6. OpenAsked' BY DEF OpenAsked
<1> QED BY <1>1, <1>2, <1>3, <1>4, <1>5, <1>6

-----------------------------------------------------------------------------
(* The handlers that leave the job row alone.                               *)

LEMMA StartInv == ASSUME DocInv, NEW j \in Jobs, startAttempt(j) PROVE DocInv'
<1> USE DocConstantsOK DEF DocInv, startAttempt, Known, jobVars, questionVars
<1>0. revision[j] \in 1..MaxRevision BY DEF DocTypeOK
<1>1. DocTypeOK'
  <2>1. attempts' \subseteq Attempts /\ running' \subseteq attempts'
    BY <1>0 DEF DocTypeOK, Attempts
  <2>2. UNCHANGED <<jobVars, recorded, expired, questionVars, verdict>>
    OBVIOUS
  <2> QED BY <2>1, <2>2 DEF DocTypeOK
<1>2. RunningAttemptsCurrent' BY DEF RunningAttemptsCurrent, checkAttempt
<1>3. OpenQuestionIsCurrent' BY DEF OpenQuestionIsCurrent, OpenOf
<1>4. BoundRecorded' BY DEF BoundRecorded, RecordedFor
<1>5. VerdictOnRow' BY DEF VerdictOnRow, RecordedFor
<1>6. OpenAsked' BY DEF OpenAsked
<1> QED BY <1>1, <1>2, <1>3, <1>4, <1>5, <1>6

LEMMA AskInv == ASSUME DocInv, NEW q \in Questions, askQuestion(q) PROVE DocInv'
<1> USE DocConstantsOK DEF DocInv, askQuestion, Known, NoOpenQuestion, jobVars
<1>j. QuestionJob[q] \in Jobs /\ state[QuestionJob[q]] # "NONE"
  OBVIOUS
<1>0. revision[QuestionJob[q]] \in 1..MaxRevision
  BY <1>j DEF DocTypeOK
<1>1. DocTypeOK'
  <2>1. /\ status' \in [Questions -> {"ABSENT", "OPEN", "ANSWERED", "SUPERSEDED"}]
        /\ askedAt' \in [Questions -> 0..MaxRevision]
    BY <1>0 DEF DocTypeOK
  <2> QED BY <2>1 DEF DocTypeOK
<1>2. RunningAttemptsCurrent' BY DEF RunningAttemptsCurrent, checkAttempt
<1>3. OpenQuestionIsCurrent'
  <2>1. \A p \in Questions : /\ p # q => status'[p] = status[p] /\ askedAt'[p] = askedAt[p]
                             /\ p = q => askedAt'[p] = revision[QuestionJob[q]]
    BY DEF DocTypeOK
  <2>2. \A p \in Questions : p # q /\ status'[p] = "OPEN" => QuestionJob[p] # QuestionJob[q]
    BY <2>1 DEF OpenOf
  <2> QED BY <2>1, <2>2 DEF OpenQuestionIsCurrent, OpenOf
<1>4. BoundRecorded' BY DEF BoundRecorded, RecordedFor
<1>5. VerdictOnRow' BY DEF VerdictOnRow, RecordedFor
<1>6. OpenAsked' BY <1>0 DEF OpenAsked, DocTypeOK
<1> QED BY <1>1, <1>2, <1>3, <1>4, <1>5, <1>6

LEMMA AnswerInv == ASSUME DocInv, NEW q \in Questions, answerQuestion(q) PROVE DocInv'
<1> USE DocConstantsOK DEF DocInv, answerQuestion, jobVars
<1>1. DocTypeOK' BY DEF DocTypeOK
<1>2. RunningAttemptsCurrent' BY DEF RunningAttemptsCurrent, checkAttempt
<1>3. OpenQuestionIsCurrent' BY DEF OpenQuestionIsCurrent, OpenOf, DocTypeOK
<1>4. BoundRecorded' BY DEF BoundRecorded, RecordedFor
<1>5. VerdictOnRow' BY DEF VerdictOnRow, RecordedFor
<1>6. OpenAsked' BY DEF OpenAsked, DocTypeOK
<1> QED BY <1>1, <1>2, <1>3, <1>4, <1>5, <1>6

\* A result id is recorded once, so a verdict's result keeps its revision.
LEMMA RecordInv == ASSUME DocInv, NEW r \in Results, recordResult(r) PROVE DocInv'
<1> USE DocConstantsOK DEF DocInv, recordResult, jobVars, questionVars
<1>j. revision[ResultJob[r]] \in 0..MaxRevision BY DEF DocTypeOK
<1>n. PICK n \in 1..revision[ResultJob[r]] : recorded' = [recorded EXCEPT ![r] = n]
  OBVIOUS
<1>m. n \in 1..MaxRevision BY <1>j
<1>0. /\ recorded' \in [Results -> 0..MaxRevision] /\ recorded'[r] > 0
      /\ \A x \in Results : x # r => recorded'[x] = recorded[x]
  BY <1>n, <1>m DEF DocTypeOK
<1>1. DocTypeOK' BY <1>0 DEF DocTypeOK
<1>2. RunningAttemptsCurrent' BY DEF RunningAttemptsCurrent, checkAttempt
<1>3. OpenQuestionIsCurrent' BY DEF OpenQuestionIsCurrent, OpenOf
<1>4. BoundRecorded' BY <1>0 DEF BoundRecorded, RecordedFor
<1>5. VerdictOnRow'
  <2> SUFFICES ASSUME NEW j \in Jobs, verdict[j] # << >>
               PROVE  /\ verdict[j][1] \in RecordedFor(j)'
                      /\ verdict[j][2] <= version[j]
                      /\ verdict[j][2] = version[j] => recorded'[verdict[j][1]] = revision[j]
    BY DEF VerdictOnRow
  <2>1. verdict[j][1] \in RecordedFor(j) /\ verdict[j][1] # r
    BY DEF VerdictOnRow, RecordedFor
  <2> QED BY <1>0, <2>1 DEF VerdictOnRow, RecordedFor
<1>6. OpenAsked' BY DEF OpenAsked
<1> QED BY <1>1, <1>2, <1>3, <1>4, <1>5, <1>6

LEMMA DocStepInv == ASSUME DocInv, [DocNext]_docVars PROVE DocInv'
<1>1. ASSUME NEW j \in Jobs, transition(j) PROVE DocInv'
  BY <1>1, SwapInv DEF transition
<1>2. ASSUME NEW j \in Jobs, award(j) PROVE DocInv'
  BY <1>2, SwapInv DEF award
<1>3. CASE UNCHANGED docVars
  BY <1>3 DEF docVars, jobVars, questionVars, DocInv, DocTypeOK, RunningAttemptsCurrent,
     checkAttempt, OpenQuestionIsCurrent, OpenOf, BoundRecorded, VerdictOnRow, RecordedFor,
     OpenAsked
<1> QED BY <1>1, <1>2, <1>3, CreateInv, JudgeInv, ReviseInv, InvalidateInv, StartInv,
           AskInv, AnswerInv, RecordInv DEF DocNext

-----------------------------------------------------------------------------
(* The theorems.                                                            *)

\* The inductive invariant holds in every reachable state of jobs.ts.
THEOREM DocInvariant == DocSpec => []DocInv
<1> QED BY DocInitInv, DocStepInv, PTL DEF DocSpec

\* Type correctness: the job row, attempts, results, questions and verdicts
\* keep to the columns and checks of documents.sql.
THEOREM DocTypes == DocSpec => []DocTypeOK
<1>1. DocInv => DocTypeOK BY DEF DocInv
<1> QED BY <1>1, DocInvariant, PTL

\* However messages, restarts and revisions interleave, a RUNNING attempt
\* began under the present instructions.
THEOREM AttemptsFenced == DocSpec => []RunningAttemptsCurrent
<1>1. DocInv => RunningAttemptsCurrent BY DEF DocInv
<1> QED BY <1>1, DocInvariant, PTL

\* An open question is the only one of its job and about its present revision.
THEOREM QuestionsCurrent == DocSpec => []OpenQuestionIsCurrent
<1>1. DocInv => OpenQuestionIsCurrent BY DEF DocInv
<1> QED BY <1>1, DocInvariant, PTL

\* READY carries a result of the revision in force when it is awarded.
THEOREM AwardSound == DocSpec => AwardOnJudgedRow
<1>1. ASSUME DocInv, [DocNext]_docVars
      PROVE  [\A j \in Jobs : state[j] # "READY" /\ state'[j] = "READY" =>
                /\ bound'[j] \in RecordedFor(j)
                /\ recorded[bound'[j]] = revision'[j]]_docVars
  <2> SUFFICES ASSUME NEW j \in Jobs, state[j] # "READY", state'[j] = "READY"
               PROVE  bound'[j] \in RecordedFor(j) /\ recorded[bound'[j]] = revision'[j]
    OBVIOUS
  <2> USE <1>1 DEF DocInv, DocTypeOK
  <2>1. CASE award(j)
    <3>1. verdict[j][1] \in RecordedFor(j) /\ recorded[verdict[j][1]] = revision[j]
      BY <2>1 DEF award, Swap, VerdictOnRow
    <3>2. /\ bound'[j] = verdict[j][1] /\ revision' = revision /\ recorded' = recorded
      BY <2>1 DEF award, Swap
    <3> QED BY <3>1, <3>2
  <2>2. ASSUME NEW k \in Jobs, k # j, award(k) PROVE FALSE
    BY <2>2 DEF award, Swap
  <2>3. ASSUME NEW k \in Jobs, transition(k) PROVE FALSE
    BY <2>3 DEF transition, Swap
  <2>4. ASSUME NEW k \in Jobs, create(k) \/ judge(k) \/ reviseInstructions(k) \/ startAttempt(k)
        PROVE FALSE
    BY <2>4 DEF create, judge, reviseInstructions, startAttempt, jobVars
  <2>5. ASSUME NEW q \in Questions, askQuestion(q) \/ answerQuestion(q) PROVE FALSE
    BY <2>5 DEF askQuestion, answerQuestion, jobVars
  <2>6. ASSUME NEW r \in Results, recordResult(r) PROVE FALSE
    BY <2>6 DEF recordResult, jobVars
  <2>7. ASSUME NEW v \in Versions, invalidateDerived(v) PROVE FALSE
    BY <2>7 DEF invalidateDerived
  <2>8. ~UNCHANGED docVars BY DEF docVars, jobVars
  <2> QED BY <2>1, <2>2, <2>3, <2>4, <2>5, <2>6, <2>7, <2>8 DEF DocNext
<1> QED BY <1>1, DocInvariant, PTL DEF DocSpec, AwardOnJudgedRow

\* While a job stays delivered it keeps its result, and a current one stays
\* current: the step in which it expires makes the job STALE.
THEOREM ExpirySound == DocSpec => ExpiryMarksStale
<1>1. ASSUME DocInv, [DocNext]_docVars
      PROVE  [\A j \in Jobs : state[j] \in Delivered /\ state'[j] = state[j]
                => /\ bound'[j] = bound[j]
                   /\ bound[j] # NoResult /\ isCurrent(bound[j]) => isCurrent(bound[j])']_docVars
  <2> SUFFICES ASSUME NEW j \in Jobs, state[j] \in Delivered, state'[j] = state[j]
               PROVE  /\ bound'[j] = bound[j]
                      /\ bound[j] # NoResult /\ isCurrent(bound[j]) => isCurrent(bound[j])'
    OBVIOUS
  <2>1. ASSUME NEW k \in Jobs, NEW expected, NEW target, NEW result, Swap(k, expected, target, result)
        PROVE  j # k
    BY <1>1, <2>1 DEF Swap, DocInv, DocTypeOK, TRANSITIONS, Delivered
  <2>2. bound'[j] = bound[j]
    <3>1. ASSUME NEW k \in Jobs, NEW expected, NEW target, NEW result, Swap(k, expected, target, result)
          PROVE  bound'[j] = bound[j]
      BY <1>1, <2>1, <3>1 DEF Swap, DocInv, DocTypeOK
    <3>2. CASE UNCHANGED bound
      BY <3>2
    <3> QED BY <1>1, <3>1, <3>2 DEF DocNext, docVars, jobVars, create, transition, judge, award,
               reviseInstructions, startAttempt, askQuestion, answerQuestion, recordResult,
               invalidateDerived
  <2>3. ASSUME bound[j] # NoResult, isCurrent(bound[j]), ~ isCurrent(bound[j])'
        PROVE  FALSE
    <3>1. PICK v \in Versions : <<v, bound[j]>> \in expired' /\ <<v, bound[j]>> \notin expired
      BY <2>2, <2>3 DEF isCurrent
    <3>2. PICK w \in Versions : invalidateDerived(w)
      BY <1>1, <3>1 DEF DocNext, docVars, jobVars, questionVars, create, transition, judge, award,
         Swap, reviseInstructions, startAttempt, askQuestion, answerQuestion, recordResult
    <3>3. bound[j] \in Derived(w) BY <3>1, <3>2 DEF invalidateDerived
    <3>4. ResultJob[bound[j]] = j BY <1>1, <2>3 DEF DocInv, BoundRecorded, RecordedFor
    <3>5. state'[j] = "STALE" BY <3>2, <3>3, <3>4 DEF invalidateDerived, Staled
    <3> QED BY <3>5 DEF Delivered
  <2> QED BY <2>2, <2>3
<1> QED BY <1>1, DocInvariant, PTL DEF DocSpec, ExpiryMarksStale

-----------------------------------------------------------------------------
(***************************************************************************)
(* Editing                                                                *)
(***************************************************************************)

\* Every position among the members of a finite set of numbers is some member's.
LEMMA EveryRankTaken ==
  ASSUME NEW S \in SUBSET Nat, IsFiniteSet(S), NEW k \in 1..Cardinality(S)
  PROVE  \E i \in S : Cardinality({j \in S : j <= i}) = k
<1> DEFINE n == Cardinality(S)
           below(i) == {j \in S : j <= i}
           rank == [i \in S |-> Cardinality(below(i))]
<1>1. n \in Nat /\ \A i \in S : i \in Nat
  BY FS_CardinalityType
<1>2. ASSUME NEW i \in S
      PROVE  IsFiniteSet(below(i)) /\ Cardinality(below(i)) \in 1..n
  <2>1. below(i) \in SUBSET S /\ i \in below(i)
    OBVIOUS
  <2>2. IsFiniteSet(below(i)) /\ Cardinality(below(i)) <= n
    BY <2>1, FS_Subset
  <2>3. Cardinality(below(i)) \in Nat /\ Cardinality(below(i)) # 0
    BY <2>1, <2>2, FS_CardinalityType, FS_EmptySet
  <2> QED BY <1>1, <2>2, <2>3
<1>3. ASSUME NEW i \in S, NEW j \in S, i < j PROVE rank[i] # rank[j]
  <2>1. below(i) \in SUBSET below(j) /\ j \in below(j) /\ j \notin below(i)
    <3>1. i \in Nat /\ j \in Nat /\ i < j
      BY <1>1, <1>3
    <3>2. ASSUME NEW l \in S, l <= i PROVE l <= j
      BY <1>1, <3>1, <3>2
    <3>3. j <= j /\ ~(j <= i)
      BY <3>1
    <3> QED BY <3>2, <3>3
  <2>2. IsFiniteSet(below(j))
    BY <1>2
  <2>3. Cardinality(below(j)) # Cardinality(below(i))
    BY <2>1, <2>2, FS_Subset
  <2> QED BY <2>3
<1>4. rank \in [S -> 1..n]
  BY <1>2
<1> HIDE DEF rank
<1>5. \A i, j \in S : i # j => rank[i] # rank[j]
  <2> SUFFICES ASSUME NEW i \in S, NEW j \in S, i # j PROVE rank[i] # rank[j]
    OBVIOUS
  <2>1. i < j \/ j < i
    OBVIOUS
  <2> QED BY <1>3, <2>1
<1>6. rank \in Injection(S, 1..n)
  BY <1>4, <1>5 DEF Injection, IsInjective
<1>7. IsFiniteSet(1..n) /\ Cardinality(1..n) = n
  BY <1>1, FS_Interval
<1>8. rank \in Surjection(S, 1..n)
  BY <1>6, <1>7, FS_Injection
<1>9. PICK i \in S : rank[i] = k
  BY <1>8 DEF Surjection
<1> QED BY <1>9 DEF rank

\* A growing function that reaches every one of the places counts them off.
CountsOff(g, m, S) ==
  /\ S \in SUBSET Nat /\ m \in Nat /\ g \in [1..m -> S]
  /\ \A a, b \in 1..m : a < b => g[a] < g[b]
  /\ \A i \in S : \E a \in 1..m : g[a] = i

\* The elements at places that are counted off.
LEMMA CountedOff ==
  ASSUME NEW s, NEW S, NEW m, NEW g, CountsOff(g, m, S)
  PROVE  /\ Cardinality(S) = m /\ DOMAIN ElementsAt(s, S) = 1..m
         /\ \A k \in 1..m : ElementsAt(s, S)[k] = s[g[k]]
<1> USE DEF CountsOff
<1> DEFINE below(i) == {j \in S : j <= i}
<1>0. \A a \in 1..m : g[a] \in Nat /\ g[a] \in S
  OBVIOUS
<1>1. \A a, b \in 1..m : g[a] = g[b] => a = b
  <2> SUFFICES ASSUME NEW a \in 1..m, NEW b \in 1..m, g[a] = g[b], a # b PROVE FALSE
    OBVIOUS
  <2>1. a < b \/ b < a
    OBVIOUS
  <2>2. g[a] < g[b] \/ g[b] < g[a]
    BY <2>1
  <2> QED BY <1>0, <2>2
<1>2. ASSUME NEW k \in 0..m, NEW T \in SUBSET S,
             \A i \in T : \E a \in 1..k : g[a] = i, \A a \in 1..k : g[a] \in T
      PROVE  Cardinality(T) = k
  <2> DEFINE f == [a \in 1..k |-> g[a]]
  <2>1. \A a \in 1..k : a \in 1..m
    OBVIOUS
  <2>2. f \in [1..k -> T] /\ \A i \in T : \E a \in 1..k : f[a] = i
    BY <1>2
  <2>3. \A a, b \in 1..k : f[a] = f[b] => a = b
    BY <1>1, <2>1
  <2> HIDE DEF f
  <2>4. f \in Bijection(1..k, T)
    BY <2>2, <2>3 DEF Bijection, Injection, Surjection, IsInjective
  <2>5. ExistsBijection(1..k, T)
    BY <2>4 DEF ExistsBijection
  <2> QED BY <2>5, FS_CountingElements
<1>3. Cardinality(S) = m
  BY <1>2
<1>4. ASSUME NEW k \in 1..m PROVE Cardinality(below(g[k])) = k
  <2>1. \A a \in 1..k : g[a] \in below(g[k])
    <3> TAKE a \in 1..k
    <3>1. a \in 1..m /\ (a < k \/ a = k)
      OBVIOUS
    <3>2. g[a] < g[k] \/ g[a] = g[k]
      BY <3>1
    <3> QED BY <1>0, <3>1, <3>2
  <2>2. ASSUME NEW i \in below(g[k]) PROVE \E a \in 1..k : g[a] = i
    <3>1. PICK a \in 1..m : g[a] = i
      OBVIOUS
    <3>2. k < a => g[k] < g[a]
      OBVIOUS
    <3>3. ~(k < a)
      BY <1>0, <3>1, <3>2
    <3> QED BY <3>1, <3>3
  <2>3. below(g[k]) \in SUBSET S /\ k \in 0..m
    OBVIOUS
  <2> QED BY <1>2, <2>1, <2>2, <2>3
<1>5. ASSUME NEW k \in 1..m
      PROVE  (CHOOSE i \in S : Cardinality(below(i)) = k) = g[k]
  <2>1. ASSUME NEW i \in S, Cardinality(below(i)) = k PROVE i = g[k]
    <3>1. PICK a \in 1..m : g[a] = i
      OBVIOUS
    <3>2. Cardinality(below(i)) = a
      BY <1>4, <3>1
    <3> QED BY <2>1, <3>1, <3>2
  <2>2. g[k] \in S /\ Cardinality(below(g[k])) = k
    BY <1>4
  <2> HIDE DEF below
  <2> QED BY <2>1, <2>2
<1>6. \A k \in 1..m : s[CHOOSE i \in S : Cardinality({j \in S : j <= i}) = k] = s[g[k]]
  BY <1>5
<1> QED BY <1>3, <1>6 DEF ElementsAt

\* Elements at some places of a sequence are as many, each the one of a place.
LEMMA ElementsType ==
  ASSUME NEW T, NEW s \in Seq(T), NEW S \in SUBSET DOMAIN s
  PROVE  /\ ElementsAt(s, S) \in Seq(T) /\ Cardinality(S) \in Nat
         /\ Len(ElementsAt(s, S)) = Cardinality(S)
         /\ \A k \in 1..Cardinality(S) : \E i \in S : ElementsAt(s, S)[k] = s[i]
<1> DEFINE place(k) == CHOOSE i \in S : Cardinality({j \in S : j <= i}) = k
           n == Cardinality(S)
<1>1. Len(s) \in Nat /\ DOMAIN s = 1..Len(s) /\ \A i \in DOMAIN s : s[i] \in T
  BY LenProperties, ElementOfSeq
<1>2. S \in SUBSET Nat /\ IsFiniteSet(S)
  <2>1. IsFiniteSet(1..Len(s))
    BY <1>1, FS_Interval
  <2> QED BY <1>1, <2>1, FS_Subset
<1>3. n \in Nat
  BY <1>2, FS_CardinalityType
<1>4. \A k \in 1..n : place(k) \in S
  BY <1>2, EveryRankTaken
<1> HIDE DEF place
<1>5. ElementsAt(s, S) = [k \in 1..n |-> s[place(k)]]
  BY DEF ElementsAt, place
<1> HIDE DEF n
<1>6. \A k \in 1..n : s[place(k)] \in T
  BY <1>1, <1>4
<1>7. ElementsAt(s, S) \in Seq(T) /\ Len(ElementsAt(s, S)) = n
  BY <1>3, <1>5, <1>6
<1> QED BY <1>3, <1>4, <1>5, <1>7 DEF n

\* All the elements are the sequence itself.
LEMMA AllElements ==
  ASSUME NEW T, NEW s \in Seq(T)
  PROVE  ElementsAt(s, DOMAIN s) = s
<1> DEFINE n == Len(s)
           S == 1..n
           g == [i \in 1..n |-> i]
<1>1. n \in Nat /\ DOMAIN s = S /\ s = [k \in 1..n |-> s[k]]
  BY LenProperties
<1>2. g \in [1..n -> S] /\ S \in SUBSET Nat /\ \A k \in 1..n : g[k] = k
  BY <1>1
<1>3. \A a, b \in 1..n : a < b => g[a] < g[b]
  BY <1>2
<1>4. \A i \in S : \E a \in 1..n : g[a] = i
  BY <1>2
<1> HIDE DEF n, g, S
<1>5. Cardinality(S) = n /\ \A k \in 1..n : ElementsAt(s, S)[k] = s[g[k]]
  <2>1. n \in Nat /\ g \in [1..n -> S] /\ S \in SUBSET Nat
    BY <1>1, <1>2
  <2>2. CountsOff(g, n, S)
    BY <2>1, <1>3, <1>4 DEF CountsOff
  <2> QED BY <2>2, CountedOff
<1>6. \A k \in 1..n : ElementsAt(s, S)[k] = s[k]
  BY <1>2, <1>5
<1>7. ElementsAt(s, S) = [k \in 1..n |-> ElementsAt(s, S)[k]]
  BY <1>5 DEF ElementsAt
<1> QED BY <1>1, <1>6, <1>7

\* Of blocks, revisions and blocks joined, readDocx finds the two kinds again.
LEMMA ReadsBack ==
  ASSUME NEW A \in Seq(Blocks), NEW B \in Seq(Blocks), NEW C \in Seq(Blocks),
         \A i \in 1..Len(A) : A[i].kind # "revision",
         \A i \in 1..Len(B) : B[i].kind = "revision",
         \A i \in 1..Len(C) : C[i].kind # "revision"
  PROVE  RevisionsOf(A \o B \o C) = B /\ BlocksOf(A \o B \o C) = A \o C
<1> DEFINE a == Len(A)
           b == Len(B)
           c == Len(C)
           w == (A \o B) \o C
<1>1. a \in Nat /\ b \in Nat /\ c \in Nat
  BY LenProperties
<1>2. /\ A \o B \in Seq(Blocks) /\ Len(A \o B) = a + b
      /\ \A i \in 1..(a + b) : (A \o B)[i] = IF i <= a THEN A[i] ELSE B[i - a]
  BY ConcatProperties
<1>3. /\ w \in Seq(Blocks) /\ Len(w) = a + b + c
      /\ \A i \in 1..(a + b + c) : w[i] = IF i <= a + b THEN (A \o B)[i] ELSE C[i - (a + b)]
  BY <1>2, ConcatProperties
<1>4. /\ A \o C \in Seq(Blocks) /\ Len(A \o C) = a + c
      /\ \A i \in 1..(a + c) : (A \o C)[i] = IF i <= a THEN A[i] ELSE C[i - a]
  BY ConcatProperties
<1>5. DOMAIN w = 1..(a + b + c)
  BY <1>3, LenProperties
<1> HIDE DEF a, b, c, w
<1>6. \A k \in 1..a : k \in 1..(a + b + c) /\ w[k] = A[k] /\ w[k].kind # "revision"
  <2> TAKE k \in 1..a
  <2>1. k \in 1..(a + b) /\ k \in 1..(a + b + c) /\ k <= a + b /\ k <= a
    BY <1>1
  <2>2. w[k] = A[k]
    BY <1>2, <1>3, <2>1
  <2> QED BY <2>1, <2>2 DEF a
<1>7. \A k \in 1..b : a + k \in 1..(a + b + c) /\ w[a + k] = B[k] /\ w[a + k].kind = "revision"
  <2> TAKE k \in 1..b
  <2> DEFINE i == a + k
  <2>1. i \in 1..(a + b) /\ i \in 1..(a + b + c) /\ i <= a + b /\ ~(i <= a) /\ i - a = k
    BY <1>1
  <2> HIDE DEF i
  <2>2. w[i] = B[k]
    BY <1>2, <1>3, <2>1
  <2> QED BY <2>1, <2>2 DEF b, i
<1>8. \A k \in 1..c : /\ a + b + k \in 1..(a + b + c)
                      /\ w[a + b + k] = C[k] /\ w[a + b + k].kind # "revision"
  <2> TAKE k \in 1..c
  <2> DEFINE i == a + b + k
  <2>1. i \in 1..(a + b + c) /\ ~(i <= a + b) /\ i - (a + b) = k
    BY <1>1
  <2> HIDE DEF i
  <2>2. w[i] = C[k]
    BY <1>3, <2>1
  <2> QED BY <2>1, <2>2 DEF c, i
<1>9. ASSUME NEW i \in 1..(a + b + c)
      PROVE  \/ \E k \in 1..a : i = k
             \/ \E k \in 1..b : i = a + k
             \/ \E k \in 1..c : i = a + b + k
  <2>1. i \in 1..a \/ i - a \in 1..b \/ i - (a + b) \in 1..c
    BY <1>1
  <2>2. i = a + (i - a) /\ i = a + b + (i - (a + b))
    BY <1>1
  <2> QED BY <2>1, <2>2
<1>10. RevisionsOf(w) = B
  <2> DEFINE S == (a + 1)..(a + b)
             g == [k \in 1..b |-> a + k]
  <2>1. {i \in DOMAIN w : w[i].kind = "revision"} = S
    <3>1. ASSUME NEW i \in 1..(a + b + c), w[i].kind = "revision" PROVE i \in S
      <4>1. PICK k \in 1..b : i = a + k
        BY <1>6, <1>8, <1>9, <3>1
      <4> QED BY <1>1, <4>1
    <3>2. ASSUME NEW i \in S PROVE i \in 1..(a + b + c) /\ w[i].kind = "revision"
      <4>1. i - a \in 1..b /\ i = a + (i - a)
        BY <1>1
      <4> QED BY <1>7, <4>1
    <3> HIDE DEF S
    <3> QED BY <1>5, <3>1, <3>2
  <2>2. CountsOff(g, b, S)
    <3>1. g \in [1..b -> S] /\ S \in SUBSET Nat /\ \A k \in 1..b : g[k] = a + k
      BY <1>1
    <3>2. \A i \in S : i - a \in 1..b /\ g[i - a] = i
      BY <1>1, <3>1
    <3>3. \A i, j \in 1..b : i < j => g[i] < g[j]
      BY <1>1, <3>1
    <3> HIDE DEF g, S
    <3>4. \A i \in S : \E k \in 1..b : g[k] = i
      BY <3>2
    <3> QED BY <1>1, <3>1, <3>3, <3>4 DEF CountsOff
  <2>3. \A k \in 1..b : w[g[k]] = B[k]
    BY <1>7
  <2> HIDE DEF g, S
  <2>4. Cardinality(S) = b /\ \A k \in 1..b : ElementsAt(w, S)[k] = w[g[k]]
    BY <2>2, CountedOff
  <2>5. ElementsAt(w, S) = [k \in 1..b |-> ElementsAt(w, S)[k]]
    BY <2>4 DEF ElementsAt
  <2>6. B = [k \in 1..b |-> B[k]]
    BY LenProperties DEF b
  <2>7. ElementsAt(w, S) = B
    BY <2>3, <2>4, <2>5, <2>6
  <2> QED BY <2>1, <2>7 DEF RevisionsOf
<1>11. BlocksOf(w) = A \o C
  <2> DEFINE S == (1..a) \cup ((a + b + 1)..(a + b + c))
             m == a + c
             g == [k \in 1..m |-> IF k <= a THEN k ELSE b + k]
  <2>1. {i \in DOMAIN w : w[i].kind # "revision"} = S
    <3>1. ASSUME NEW i \in 1..(a + b + c), w[i].kind # "revision" PROVE i \in S
      <4>1. i \in 1..a \/ \E k \in 1..c : i = a + b + k
        BY <1>7, <1>9, <3>1
      <4> QED BY <1>1, <4>1
    <3>2. ASSUME NEW i \in S PROVE i \in 1..(a + b + c) /\ w[i].kind # "revision"
      <4>1. i \in 1..a \/ (i - (a + b) \in 1..c /\ i = a + b + (i - (a + b)))
        BY <1>1
      <4> QED BY <1>6, <1>8, <4>1
    <3> HIDE DEF S
    <3> QED BY <1>5, <3>1, <3>2
  <2>2. CountsOff(g, m, S)
    <3>1. \A k \in 1..m : g[k] \in S /\ (k <= a => g[k] = k) /\ (~(k <= a) => g[k] = b + k)
      BY <1>1
    <3>2. g \in [1..m -> S] /\ S \in SUBSET Nat /\ m \in Nat
      BY <1>1, <3>1
    <3>3. \A i \in 1..a : i \in 1..m /\ g[i] = i
      BY <1>1, <3>1
    <3>4. \A i \in (a + b + 1)..(a + b + c) : i - b \in 1..m /\ g[i - b] = i
      BY <1>1, <3>1
    <3>5. \A i, j \in 1..m : i < j => g[i] < g[j]
      BY <1>1, <3>1
    <3> HIDE DEF g, m
    <3>6. \A i \in S : \E k \in 1..m : g[k] = i
      BY <3>3, <3>4
    <3> QED BY <3>2, <3>5, <3>6 DEF CountsOff
  <2>3. \A k \in 1..m : w[g[k]] = (A \o C)[k]
    <3> TAKE k \in 1..m
    <3>1. CASE k <= a
      <4>1. k \in 1..a /\ g[k] = k /\ (A \o C)[k] = A[k]
        BY <1>1, <1>4, <3>1
      <4> QED BY <1>6, <4>1
    <3>2. CASE ~(k <= a)
      <4> DEFINE l == k - a
      <4>1. l \in 1..c /\ b + k = a + b + l /\ g[k] = b + k
        BY <1>1, <3>2
      <4>2. (A \o C)[k] = C[l]
        BY <1>4, <3>2
      <4> HIDE DEF l, g
      <4> QED BY <1>8, <4>1, <4>2
    <3> QED BY <3>1, <3>2
  <2>4. m = a + c
    OBVIOUS
  <2> HIDE DEF g, S, m
  <2>5. Cardinality(S) = m /\ \A k \in 1..m : ElementsAt(w, S)[k] = w[g[k]]
    BY <2>2, CountedOff
  <2>6. ElementsAt(w, S) = [k \in 1..m |-> ElementsAt(w, S)[k]]
    BY <2>5 DEF ElementsAt
  <2>7. A \o C = [k \in 1..m |-> (A \o C)[k]]
    <3>1. A \o C = [k \in 1..Len(A \o C) |-> (A \o C)[k]]
      BY <1>4, LenProperties
    <3> QED BY <1>4, <2>4, <3>1
  <2>8. \A k \in 1..m : ElementsAt(w, S)[k] = (A \o C)[k]
    BY <2>3, <2>4, <2>5
  <2>9. ElementsAt(w, S) = A \o C
    BY <2>6, <2>7, <2>8
  <2> QED BY <2>1, <2>9 DEF BlocksOf
<1> QED BY <1>10, <1>11 DEF w

\* What is read of a document: itself without the elements that have attributes,
\* its revisions and its other blocks.
LEMMA ReadsBlocks ==
  ASSUME NEW d \in Documents
  PROVE  /\ ReadDocx(d).body \in Seq(Blocks)
         /\ Revisions(d) \in Seq(Blocks)
         /\ BodyBlocks(d) \in Seq(Blocks)
         /\ \A i \in DOMAIN BodyBlocks(d) : BodyBlocks(d)[i].kind # "revision"
<1> DEFINE found == {i \in DOMAIN d.body : ~d.body[i].attributes}
           read == ElementsAt(d.body, found)
           revised == {i \in DOMAIN read : read[i].kind = "revision"}
           others == {i \in DOMAIN read : read[i].kind # "revision"}
<1>1. d.body \in Seq(Blocks)
  BY DEF Documents
<1>2. ReadDocx(d).body = read
  BY DEF ReadDocx, Documents
<1>3. found \in SUBSET DOMAIN d.body
  OBVIOUS
<1> HIDE DEF found
<1>4. read \in Seq(Blocks)
  BY <1>1, <1>3, ElementsType
<1> HIDE DEF read
<1>5. revised \in SUBSET DOMAIN read /\ others \in SUBSET DOMAIN read
      /\ \A i \in others : read[i].kind # "revision"
  OBVIOUS
<1>6. Revisions(d) = ElementsAt(read, revised) /\ BodyBlocks(d) = ElementsAt(read, others)
  BY <1>2 DEF Revisions, RevisionsOf, BodyBlocks, BlocksOf
<1> HIDE DEF revised, others
<1>7. Revisions(d) \in Seq(Blocks)
  BY <1>4, <1>5, <1>6, ElementsType
<1>8. /\ BodyBlocks(d) \in Seq(Blocks) /\ Len(BodyBlocks(d)) = Cardinality(others)
      /\ \A k \in 1..Cardinality(others) : \E i \in others : BodyBlocks(d)[k] = read[i]
  BY <1>4, <1>5, <1>6, ElementsType
<1>9. DOMAIN BodyBlocks(d) = 1..Cardinality(others)
  BY <1>8, LenProperties
<1>10. ASSUME NEW k \in DOMAIN BodyBlocks(d) PROVE BodyBlocks(d)[k].kind # "revision"
  <2>1. PICK i \in others : BodyBlocks(d)[k] = read[i]
    BY <1>8, <1>9
  <2> QED BY <1>5, <2>1
<1> QED BY <1>2, <1>4, <1>7, <1>8, <1>10

\* What is read of the output of an edit: the blocks with the texts they were
\* given, an empty paragraph for every footnote, and the revisions as they were.
LEMMA EditedReads ==
  ASSUME NEW d \in Documents, NEW edits \in DocxEdits
  PROVE  /\ Edited(d, edits) \in Documents
         /\ Edited(d, edits).notes = d.notes /\ Edited(d, edits).comments = d.comments
         /\ BlockTexts(Revisions(Edited(d, edits))) = BlockTexts(Revisions(d))
         /\ \A i \in DOMAIN BodyBlocks(d) \ DOMAIN edits :
              /\ i \in DOMAIN BodyBlocks(Edited(d, edits))
              /\ BodyBlocks(Edited(d, edits))[i].text = BodyBlocks(d)[i].text
              /\ BodyBlocks(Edited(d, edits))[i].kind = BodyBlocks(d)[i].kind
<1> DEFINE body == BodyBlocks(d)
           revisions == BlockTexts(Revisions(d))
           given(i) == IF i \in DOMAIN edits THEN edits[i] ELSE body[i].text
           A == [i \in DOMAIN body |-> NewBlock(body[i].kind, given(i))]
           B == [i \in DOMAIN revisions |-> NewBlock("revision", revisions[i])]
           C == [i \in DOMAIN d.notes |-> NewBlock("paragraph", Blank)]
           o == Edited(d, edits)
<1>1. /\ body \in Seq(Blocks) /\ \A i \in DOMAIN body : body[i].kind # "revision"
      /\ Revisions(d) \in Seq(Blocks)
  BY ReadsBlocks
<1>2. /\ d.header \in Seq(Texts) /\ d.footer \in Seq(Texts)
      /\ d.notes \in Seq(Texts) /\ d.comments \in Seq(Texts)
  BY DEF Documents
<1>3. o = [body |-> (A \o B) \o C, header |-> FirstParagraph(d.header),
           footer |-> FirstParagraph(d.footer), notes |-> d.notes, comments |-> d.comments,
           others |-> {}]
  BY DEF Edited, BuildDocx
<1> HIDE DEF body, o
<1>4. /\ A \in Seq(Blocks) /\ Len(A) = Len(body) /\ DOMAIN A = DOMAIN body
      /\ \A i \in DOMAIN body : /\ A[i].kind = body[i].kind /\ A[i].kind # "revision"
                                /\ A[i].text = given(i) /\ A[i].attributes = FALSE
  <2>1. Len(body) \in Nat /\ DOMAIN body = 1..Len(body)
    BY <1>1, LenProperties
  <2>2. ASSUME NEW i \in DOMAIN body
        PROVE  NewBlock(body[i].kind, given(i)) \in Blocks
    <3>1. body[i] \in Blocks
      BY <1>1, <2>1, ElementOfSeq
    <3>2. given(i) \in Texts
      BY <3>1, EditingConstantsOK DEF Blocks
    <3> HIDE DEF given
    <3> QED BY <3>1, <3>2 DEF NewBlock, Blocks
  <2> HIDE DEF given
  <2>3. A \in [1..Len(body) -> Blocks]
    BY <2>1, <2>2
  <2>4. A \in Seq(Blocks) /\ Len(A) = Len(body) /\ DOMAIN A = DOMAIN body
    BY <2>1, <2>3
  <2> QED BY <1>1, <2>4 DEF NewBlock
<1>5. /\ B \in Seq(Blocks) /\ Len(B) = Len(Revisions(d)) /\ DOMAIN B = DOMAIN Revisions(d)
      /\ \A i \in DOMAIN B : /\ B[i].kind = "revision" /\ B[i].attributes = FALSE
                             /\ B[i].text = Revisions(d)[i].text
  <2>1. /\ Len(Revisions(d)) \in Nat /\ DOMAIN Revisions(d) = 1..Len(Revisions(d))
        /\ DOMAIN revisions = DOMAIN Revisions(d)
        /\ \A i \in DOMAIN revisions : revisions[i] = Revisions(d)[i].text
    BY <1>1, LenProperties DEF BlockTexts
  <2> HIDE DEF revisions
  <2>2. ASSUME NEW i \in DOMAIN revisions
        PROVE  NewBlock("revision", revisions[i]) \in Blocks
    <3>1. Revisions(d)[i] \in Blocks
      BY <1>1, <2>1, ElementOfSeq
    <3> QED BY <2>1, <3>1 DEF NewBlock, Blocks
  <2>3. B \in [1..Len(Revisions(d)) -> Blocks]
    BY <2>1, <2>2
  <2>4. B \in Seq(Blocks) /\ Len(B) = Len(Revisions(d)) /\ DOMAIN B = DOMAIN Revisions(d)
    BY <2>1, <2>3
  <2> QED BY <2>1, <2>4 DEF NewBlock
<1>6. /\ C \in Seq(Blocks) /\ DOMAIN C = 1..Len(C)
      /\ \A i \in DOMAIN C : C[i].kind # "revision" /\ C[i].attributes = FALSE
  <2>1. Len(d.notes) \in Nat /\ DOMAIN d.notes = 1..Len(d.notes)
    BY <1>2, LenProperties
  <2>2. NewBlock("paragraph", Blank) \in Blocks
    BY EditingConstantsOK DEF NewBlock, Blocks
  <2>3. C \in [1..Len(d.notes) -> Blocks]
    BY <2>1, <2>2
  <2>4. C \in Seq(Blocks) /\ Len(C) = Len(d.notes)
    BY <2>1, <2>3
  <2> QED BY <2>1, <2>4 DEF NewBlock
<1>7. /\ DOMAIN A = 1..Len(A) /\ DOMAIN B = 1..Len(B)
      /\ Len(A) \in Nat /\ Len(B) \in Nat /\ Len(C) \in Nat
  BY <1>4, <1>5, <1>6, LenProperties
<1> HIDE DEF A, B, C
<1> DEFINE w == (A \o B) \o C
<1>8. RevisionsOf(w) = B /\ BlocksOf(w) = A \o C
  <2>1. A \in Seq(Blocks) /\ B \in Seq(Blocks) /\ C \in Seq(Blocks)
    BY <1>4, <1>5, <1>6
  <2>2. /\ \A i \in 1..Len(A) : A[i].kind # "revision"
        /\ \A i \in 1..Len(B) : B[i].kind = "revision"
        /\ \A i \in 1..Len(C) : C[i].kind # "revision"
    BY <1>4, <1>5, <1>6, <1>7
  <2> QED BY <2>1, <2>2, ReadsBack
<1>9. w \in Seq(Blocks) /\ \A i \in DOMAIN w : w[i].attributes = FALSE
  <2>1. /\ A \o B \in Seq(Blocks) /\ Len(A \o B) = Len(A) + Len(B)
        /\ \A i \in 1..Len(A) + Len(B) :
             (A \o B)[i] = IF i <= Len(A) THEN A[i] ELSE B[i - Len(A)]
    <3>1. A \in Seq(Blocks) /\ B \in Seq(Blocks)
      BY <1>4, <1>5
    <3> QED BY <3>1, ConcatProperties
  <2>2. /\ w \in Seq(Blocks) /\ Len(w) = Len(A \o B) + Len(C)
        /\ \A i \in 1..Len(A \o B) + Len(C) :
             w[i] = IF i <= Len(A \o B) THEN (A \o B)[i] ELSE C[i - Len(A \o B)]
    BY <1>6, <2>1, ConcatProperties
  <2>3. DOMAIN w = 1..Len(w)
    BY <2>2, LenProperties
  <2> HIDE DEF w
  <2>4. ASSUME NEW i \in 1..Len(w) PROVE w[i].attributes = FALSE
    <3>1. CASE i <= Len(A)
      <4>1. i \in 1..Len(A) /\ i <= Len(A \o B) /\ i \in 1..Len(A) + Len(B)
        BY <1>7, <2>1, <3>1
      <4>2. w[i] = A[i]
        BY <2>1, <2>2, <4>1
      <4> QED BY <1>4, <1>7, <4>1, <4>2
    <3>2. CASE ~(i <= Len(A)) /\ i <= Len(A \o B)
      <4>1. i - Len(A) \in 1..Len(B) /\ i \in 1..Len(A) + Len(B)
        BY <1>7, <2>1, <3>2
      <4>2. w[i] = B[i - Len(A)]
        BY <2>1, <2>2, <3>2, <4>1
      <4> QED BY <1>5, <1>7, <4>1, <4>2
    <3>3. CASE ~(i <= Len(A \o B))
      <4>1. i - Len(A \o B) \in 1..Len(C)
        BY <1>7, <2>1, <2>2, <3>3
      <4>2. w[i] = C[i - Len(A \o B)]
        BY <2>2, <3>3
      <4> QED BY <1>6, <4>1, <4>2
    <3> QED BY <3>1, <3>2, <3>3
  <2> QED BY <2>2, <2>3, <2>4
<1> HIDE DEF w
<1>10. o.body = w /\ o.notes = d.notes /\ o.comments = d.comments
  BY <1>3 DEF w
<1>11. o \in Documents
  <2>1. ASSUME NEW t \in Seq(Texts) PROVE FirstParagraph(t) \in Seq(Texts)
    <3> DEFINE last == IF t = <<>> THEN 0 ELSE 1
    <3>1. Len(t) \in Nat /\ (t # <<>> => Len(t) # 0)
      BY LenProperties, EmptySeq
    <3>2. \A i \in 1..last : i \in 1..Len(t)
      BY <3>1
    <3>3. \A i \in 1..last : t[i] \in Texts
      BY <3>2, ElementOfSeq
    <3>4. last \in Int
      OBVIOUS
    <3> HIDE DEF last
    <3>5. SubSeq(t, 1, last) \in Seq(Texts)
      BY <3>3, <3>4, SubSeqProperties
    <3> QED BY <3>5 DEF FirstParagraph, last
  <2>2. FirstParagraph(d.header) \in Seq(Texts) /\ FirstParagraph(d.footer) \in Seq(Texts)
    BY <1>2, <2>1
  <2> QED BY <1>2, <1>3, <1>9, <2>2 DEF Documents, w
<1>12. ReadDocx(o).body = w
  <2>1. {i \in DOMAIN w : ~w[i].attributes} = DOMAIN w
    BY <1>9
  <2>2. ReadDocx(o).body = ElementsAt(o.body, {i \in DOMAIN o.body : ~o.body[i].attributes})
    BY <1>11 DEF ReadDocx, Documents
  <2> QED BY <1>9, <1>10, <2>1, <2>2, AllElements
<1>13. Revisions(o) = B /\ BodyBlocks(o) = A \o C
  BY <1>8, <1>12 DEF Revisions, BodyBlocks
<1>14. BlockTexts(B) = BlockTexts(Revisions(d))
  BY <1>5 DEF BlockTexts
<1>15. ASSUME NEW i \in DOMAIN body \ DOMAIN edits
       PROVE  /\ i \in DOMAIN (A \o C) /\ (A \o C)[i].text = body[i].text
              /\ (A \o C)[i].kind = body[i].kind
  <2>1. /\ A \o C \in Seq(Blocks) /\ Len(A \o C) = Len(A) + Len(C)
        /\ \A k \in 1..Len(A) + Len(C) :
             (A \o C)[k] = IF k <= Len(A) THEN A[k] ELSE C[k - Len(A)]
    BY <1>4, <1>6, ConcatProperties, ZenonT(20)
  <2>2. DOMAIN (A \o C) = 1..Len(A) + Len(C)
    BY <2>1, LenProperties
  <2>3. i \in 1..Len(A) /\ i \in DOMAIN body
    BY <1>4, <1>7
  <2>4. i \in 1..Len(A) + Len(C) /\ i <= Len(A)
    BY <1>7, <2>3
  <2>5. (A \o C)[i] = A[i]
    BY <2>1, <2>4
  <2> QED BY <1>4, <2>2, <2>3, <2>4, <2>5
<1> QED BY <1>10, <1>11, <1>13, <1>14, <1>15 DEF body, o

-----------------------------------------------------------------------------
\* A document says what the original says, except in the blocks edits named.
Says(d) ==
  /\ MeaningOf(AllText(d)) = MeaningOf(AllText(original))
  /\ \A i \in DOMAIN BodyBlocks(original) \ touched :
       /\ i \in DOMAIN BodyBlocks(d)
       /\ BodyBlocks(d)[i].text = BodyBlocks(original)[i].text
       /\ BodyBlocks(d)[i].kind = BodyBlocks(original)[i].kind
  /\ BlockTexts(Revisions(d)) = BlockTexts(Revisions(original))
  /\ d.notes = original.notes /\ d.comments = original.comments

\* The version the next edit is made on says what the original says, an outcome
\* is of that version, and an artifact and what is served of it are that version.
EditingInv ==
  /\ document \in Documents /\ Says(document)
  /\ outcome # NoDocument =>
       \E e \in DocxEdits :
         /\ outcome.edits = e /\ outcome.output = Edited(document, e)
         /\ outcome.preserved = MeaningPreserved(AllText(document), AllText(outcome.output))
  /\ artifact # NoDocument => artifact.digest = document
  /\ served # NoDocument => artifact # NoDocument /\ served = document

\* An output that is kept says what the version it was made of says.
LEMMA KeepKeeps ==
  ASSUME EditingInv, Keep
  PROVE  EditingInv'
<1>1. PICK e \in DocxEdits :
        /\ outcome.edits = e /\ outcome.output = Edited(document, e)
        /\ outcome.preserved = MeaningPreserved(AllText(document), AllText(outcome.output))
  BY DEF EditingInv, Keep
<1> DEFINE o == Edited(document, e)
<1>2. /\ document' = o /\ touched' = touched \cup DOMAIN e
      /\ original' = original /\ outcome' = NoDocument /\ artifact' = artifact
      /\ artifact = NoDocument /\ served' = served
      /\ MeaningOf(AllText(o)) = MeaningOf(AllText(document))
  BY <1>1 DEF Keep, MeaningPreserved
<1>3. /\ o \in Documents /\ o.notes = document.notes /\ o.comments = document.comments
      /\ BlockTexts(Revisions(o)) = BlockTexts(Revisions(document))
      /\ \A i \in DOMAIN BodyBlocks(document) \ DOMAIN e :
           /\ i \in DOMAIN BodyBlocks(o)
           /\ BodyBlocks(o)[i].text = BodyBlocks(document)[i].text
           /\ BodyBlocks(o)[i].kind = BodyBlocks(document)[i].kind
  BY EditedReads DEF EditingInv
<1> HIDE DEF o
<1>4. ASSUME NEW i \in DOMAIN BodyBlocks(original) \ (touched \cup DOMAIN e)
      PROVE  /\ i \in DOMAIN BodyBlocks(o)
             /\ BodyBlocks(o)[i].text = BodyBlocks(original)[i].text
             /\ BodyBlocks(o)[i].kind = BodyBlocks(original)[i].kind
  <2>1. /\ i \in DOMAIN BodyBlocks(document) \ DOMAIN e
        /\ BodyBlocks(document)[i].text = BodyBlocks(original)[i].text
        /\ BodyBlocks(document)[i].kind = BodyBlocks(original)[i].kind
    BY DEF EditingInv, Says
  <2> QED BY <1>3, <2>1
<1>5. MeaningOf(AllText(o)) = MeaningOf(AllText(original))
  BY <1>2 DEF EditingInv, Says
<1>6. Says(document)'
  BY <1>2, <1>3, <1>4, <1>5 DEF EditingInv, Says
<1> QED BY <1>2, <1>3, <1>6 DEF EditingInv

\* Of the other steps none touches the version, nor what was described or served of it.
LEMMA EditingNextInv ==
  ASSUME EditingInv, [EditingNext]_editingVars
  PROVE  EditingInv'
<1>1. CASE Keep
  BY <1>1, KeepKeeps
<1>2. ASSUME NEW edits \in DocxEdits, EditDocx(edits) PROVE EditingInv'
  <2>1. /\ outcome'.edits = edits /\ outcome'.output = Edited(document, edits)
        /\ outcome'.preserved =
             MeaningPreserved(AllText(document), AllText(Edited(document, edits)))
    BY <1>2 DEF EditDocx
  <2>2. <<original, document, touched, artifact, served>>'
          = <<original, document, touched, artifact, served>>
    BY <1>2 DEF EditDocx
  <2> QED BY <2>1, <2>2 DEF EditingInv, Says
<1>3. ASSUME NEW project \in Projects, NEW html \in BOOLEAN, DescribeArtifact(project, html)
      PROVE  EditingInv'
  <2>1. /\ artifact = NoDocument /\ artifact'.digest = document
        /\ <<original, document, touched, outcome, served>>'
             = <<original, document, touched, outcome, served>>
    BY <1>3 DEF DescribeArtifact
  <2> QED BY <2>1 DEF EditingInv, Says
<1>4. ASSUME NEW project \in Projects, DownloadArtifact(project) PROVE EditingInv'
  <2>1. /\ artifact # NoDocument
        /\ <<original, document, touched, outcome, artifact>>'
             = <<original, document, touched, outcome, artifact>>
        /\ served' # NoDocument => served' = artifact.digest
    BY <1>4 DEF DownloadArtifact, PrepareDownload
  <2> QED BY <2>1 DEF EditingInv, Says
<1>5. CASE \/ \E pdf \in Pdfs : CheckRender(pdf)
           \/ \E d \in Originals : FileChanges(d)
           \/ UNCHANGED editingVars
  <2>1. <<original, document, touched, outcome, artifact, served>>'
          = <<original, document, touched, outcome, artifact, served>>
    BY <1>5 DEF CheckRender, FileChanges, editingVars
  <2> QED BY <2>1 DEF EditingInv, Says
<1> QED BY <1>1, <1>2, <1>3, <1>4, <1>5 DEF EditingNext

\* What is downloaded says what was read, over any chain of edits of any documents
\* (edit.ts:49, 72, 222): the meaning check compares neighbours, and only EditedReads
\* says that the blocks between them stay where they were.
THEOREM ServedMeansSourceAlways == EditingSpec => []ServedMeansSource
<1>1. EditingInit => EditingInv
  BY EditingConstantsOK DEF EditingInit, EditingInv, Says
<1>2. EditingInv => ServedMeansSource
  BY DEF EditingInv, Says, ServedMeansSource
<1> QED BY <1>1, <1>2, EditingNextInv, PTL DEF EditingSpec

-----------------------------------------------------------------------------
(***************************************************************************)
(* Reading                                                                *)
(***************************************************************************)

\* A non-empty set of natural numbers has a least member.
LEMMA LeastNumber ==
  ASSUME NEW T, T \subseteq Nat, T # {}
  PROVE  \E n \in T : \A m \in T : n <= m
<1>1. OpToRel(<, Nat) = {ss \in Nat \X Nat : ss[1] < ss[2]}
  BY DEF OpToRel
<1>2. PICK n \in T : \A m \in T : <<m, n>> \notin OpToRel(<, Nat)
  BY NatLessThanWellFounded, WFMin
<1>3. ASSUME NEW m \in T PROVE n <= m
  <2>1. m \in Nat /\ n \in Nat
    OBVIOUS
  <2>2. ~(m < n)
    BY <1>1, <1>2, <2>1
  <2> QED BY <2>1, <2>2
<1> QED BY <1>3

\* What a range of a version with some rows looks like.
RangeOf(x, u, rows) ==
  /\ x.of = u /\ x.first \in Nat /\ x.last \in Nat /\ 1 <= x.first
  /\ x.first <= x.last /\ x.last <= IF rows = 0 THEN 1 ELSE rows

\* The inventory of a version is a finite set of its ranges.
LEMMA InventoryRanges ==
  ASSUME NEW u, NEW rows \in Nat
  PROVE  /\ IsFiniteSet(UnitsOf(u, rows)) /\ UnitsOf(u, rows) # {}
         /\ \A x \in UnitsOf(u, rows) : RangeOf(x, u, rows)
<1> DEFINE end == IF rows = 0 THEN 1 ELSE rows
           starts == {RowsPerRange * k + 1 : k \in 0..rows} \cap 1..end
           range(n) == [of |-> u, first |-> n, last |-> IF n + RowsPerRange - 1 < end THEN n + RowsPerRange - 1 ELSE end]
           g == [n \in 1..end |-> range(n)]
<1>1. RowsPerRange \in Nat /\ RowsPerRange >= 1 /\ end \in Nat /\ end >= 1
  BY ReadingConstantsOK
<1>2. UnitsOf(u, rows) = {range(n) : n \in starts}
  BY DEF UnitsOf
<1>3. RowsPerRange * 0 + 1 = 1 /\ 0 \in 0..rows
  BY <1>1
<1>4. 1 \in starts
  BY <1>1, <1>3
<1>5. IsFiniteSet({g[n] : n \in 1..end})
  <2>1. 1 \in Int /\ end \in Int
    BY <1>1
  <2>2. IsFiniteSet(1..end)
    BY <2>1, FS_Interval
  <2>3. g \in Surjection(1..end, {g[n] : n \in 1..end})
    BY DEF Surjection
  <2> QED BY <2>2, <2>3, FS_Surjection
<1>6. \A n \in starts : n \in 1..end /\ range(n) = g[n]
  OBVIOUS
<1>7. UnitsOf(u, rows) \subseteq {g[n] : n \in 1..end}
  BY <1>2, <1>6
<1>8. ASSUME NEW n \in starts PROVE RangeOf(range(n), u, rows)
  <2>1. n \in Nat /\ 1 <= n /\ n <= end
    BY <1>1
  <2>2. range(n).of = u /\ range(n).first = n /\ range(n).last = IF n + RowsPerRange - 1 < end THEN n + RowsPerRange - 1 ELSE end
    OBVIOUS
  <2>3. CASE rows = 0
    BY <1>1, <2>1, <2>2, <2>3 DEF RangeOf
  <2>4. CASE rows # 0
    BY <1>1, <2>1, <2>2, <2>4 DEF RangeOf
  <2> QED BY <2>3, <2>4
<1>9. IsFiniteSet(UnitsOf(u, rows))
  BY <1>5, <1>7, FS_Subset
<1> HIDE DEF starts, range
<1> QED BY <1>2, <1>4, <1>8, <1>9

\* The inventory of a version leaves out no row.
LEMMA InventoryCovers ==
  ASSUME NEW u, NEW rows \in Nat, NEW r \in 1..rows
  PROVE  \E x \in UnitsOf(u, rows) : x.of = u /\ r \in x.first..x.last
<1> DEFINE Enough == {k \in Nat : r <= RowsPerRange * k + RowsPerRange}
<1>1. RowsPerRange \in Nat /\ RowsPerRange >= 1 /\ r \in Nat /\ 1 <= r /\ r <= rows
  BY ReadingConstantsOK
<1>2. \A k \in Nat : RowsPerRange * k \in Nat /\ k <= RowsPerRange * k
  BY <1>1, SMTT(30)
<1>3. Enough \subseteq Nat /\ rows \in Enough
  BY <1>1, <1>2
<1>4. PICK k \in Enough : \A m \in Enough : k <= m
  <2> HIDE DEF Enough
  <2> QED BY <1>3, LeastNumber
<1> DEFINE n == RowsPerRange * k + 1
<1>5. n \in Nat /\ 1 <= n /\ n <= r
  <2>1. CASE k = 0
    BY <1>1, <1>2, <2>1, SMTT(30)
  <2>2. CASE k # 0
    <3>1. k \in Nat /\ k - 1 \in Nat /\ ~(k <= k - 1)
      BY <2>2
    <3>2. k - 1 \notin Enough
      BY <1>4, <3>1
    <3>3. RowsPerRange * (k - 1) + RowsPerRange = RowsPerRange * k
      BY <1>1, <3>1, SMTT(30)
    <3> QED BY <1>1, <1>2, <3>1, <3>2, <3>3
  <2> QED BY <2>1, <2>2
<1>6. k \in 0..rows
  BY <1>3, <1>4
<1>7. r <= n + RowsPerRange - 1
  BY <1>1, <1>2
<1> DEFINE x == [of |-> u, first |-> n, last |-> IF n + RowsPerRange - 1 < rows THEN n + RowsPerRange - 1 ELSE rows]
<1>8. x \in UnitsOf(u, rows)
  <2>1. rows # 0 /\ n \in {RowsPerRange * j + 1 : j \in 0..rows} \cap 1..rows
    BY <1>1, <1>5, <1>6
  <2> QED BY <2>1 DEF UnitsOf
<1>9. x.of = u /\ r \in x.first..x.last
  <2> HIDE DEF n
  <2> QED BY <1>1, <1>5, <1>7
<1> QED BY <1>8, <1>9

-----------------------------------------------------------------------------
\* The walk of rowCoverage() over the ranges of a single version.
Before(mine, x) == {y \in mine : y.first < x.first}
Gaps(mine) == {x \in mine : \A cursor \in Cursors(Before(mine, x)) : x.first > cursor}
Counted(mine) == UNION {{x} \X (x.first..x.last) : x \in mine}

\* Ranges of a version, of which the walk leaves no gap and reaches the last row, have every row.
LEMMA WalkedIsCovered ==
  ASSUME NEW u, NEW rows \in Nat, NEW mine, \A x \in mine : RangeOf(x, u, rows),
         Gaps(mine) = {}, \E cursor \in Cursors(mine) : cursor > rows,
         NEW r \in 1..rows
  PROVE  \E x \in mine : r \in x.first..x.last
<1>1. SUFFICES ASSUME \A x \in mine : ~(x.first <= r /\ r <= x.last) PROVE FALSE
  <2>1. \A x \in mine : x.first \in Nat /\ x.last \in Nat
    BY DEF RangeOf
  <2> QED BY <2>1
<1>2. r \in Nat /\ 1 <= r /\ r <= rows
  OBVIOUS
<1>3. \A x \in mine : x.first \in Nat /\ x.last \in Nat
  BY DEF RangeOf
<1> DEFINE later == {x \in mine : x.first > r}
           firsts == {x.first : x \in later}
<1>4. later # {}
  <2>1. PICK z \in mine : z.last + 1 > rows
    BY <1>2 DEF Cursors
  <2> QED BY <1>1, <1>2, <1>3, <2>1
<1>5. firsts \subseteq Nat /\ firsts # {}
  BY <1>3, <1>4
<1>6. PICK n \in firsts : \A m \in firsts : n <= m
  <2> HIDE DEF firsts
  <2> QED BY <1>5, LeastNumber
<1>7. PICK y \in later : y.first = n
  BY <1>6
<1>8. PICK cursor \in Cursors(Before(mine, y)) : ~(y.first > cursor)
  BY <1>7 DEF Gaps
<1>9. PICK z \in Before(mine, y) : cursor = z.last + 1
  BY <1>2, <1>3, <1>7, <1>8 DEF Cursors
<1>10. z \in mine /\ z.first < y.first
  BY <1>9 DEF Before
<1>11. z \notin later
  <2>1. ASSUME z \in later PROVE FALSE
    <3>1. n <= z.first
      BY <1>6, <2>1
    <3> QED BY <1>3, <1>7, <1>10, <3>1
  <2> QED BY <2>1
<1> QED BY <1>1, <1>2, <1>3, <1>7, <1>8, <1>9, <1>10, <1>11

\* Conversely, of ranges that have every row the walk leaves no gap, reaches
\* the last row and counts as many as there are.
LEMMA CoveredIsWalked ==
  ASSUME NEW u, NEW rows \in Nat, NEW mine, \A x \in mine : RangeOf(x, u, rows),
         IsFiniteSet(mine), \A r \in 1..rows : \E x \in mine : r \in x.first..x.last
  PROVE  /\ Gaps(mine) = {} /\ \E cursor \in Cursors(mine) : cursor > rows
         /\ Cardinality(Counted(mine)) >= rows
<1>1. \A x \in mine : /\ x.first \in Nat /\ x.last \in Nat /\ 1 <= x.first /\ x.first <= x.last
                      /\ (x.last <= rows \/ x.first = 1)
                      /\ x.last <= rows + 1
  BY DEF RangeOf
<1>2. ASSUME NEW w \in Gaps(mine) PROVE FALSE
  <2>1. w \in mine /\ \A cursor \in Cursors(Before(mine, w)) : w.first > cursor
    BY DEF Gaps
  <2>2. w.first > 1
    BY <2>1 DEF Cursors
  <2>3. w.first - 1 \in 1..rows
    BY <1>1, <2>1, <2>2
  <2>4. PICK z \in mine : w.first - 1 \in z.first..z.last
    BY <2>3
  <2>5. z \in Before(mine, w) /\ ~(w.first > z.last + 1)
    BY <1>1, <2>1, <2>4 DEF Before
  <2>6. z.last + 1 \in Cursors(Before(mine, w))
    BY <2>5 DEF Cursors
  <2> QED BY <2>1, <2>5, <2>6
<1>3. \E cursor \in Cursors(mine) : cursor > rows
  <2>1. CASE rows = 0
    BY <2>1 DEF Cursors
  <2>2. CASE rows # 0
    <3>1. rows \in 1..rows
      BY <2>2
    <3>2. PICK z \in mine : rows \in z.first..z.last
      BY <3>1
    <3> QED BY <1>1, <3>2 DEF Cursors
  <2> QED BY <2>1, <2>2
<1>4. IsFiniteSet(Counted(mine))
  <2>1. IsFiniteSet(mine \X (1..(rows + 1)))
    <3>1. 1 \in Int /\ rows + 1 \in Int
      OBVIOUS
    <3>2. IsFiniteSet(1..(rows + 1))
      BY <3>1, FS_Interval
    <3> QED BY <3>2, FS_Product
  <2>2. Counted(mine) \subseteq mine \X (1..(rows + 1))
    BY <1>1 DEF Counted
  <2> QED BY <2>1, <2>2, FS_Subset
<1> DEFINE row == [p \in Counted(mine) |-> p[2]]
<1>5. 1..rows \subseteq {row[p] : p \in Counted(mine)}
  <2>1. ASSUME NEW r \in 1..rows PROVE r \in {row[p] : p \in Counted(mine)}
    <3>1. PICK z \in mine : r \in z.first..z.last
      OBVIOUS
    <3>2. <<z, r>> \in Counted(mine)
      BY <3>1 DEF Counted
    <3> QED BY <3>2
  <2> QED BY <2>1
<1>6. /\ IsFiniteSet({row[p] : p \in Counted(mine)})
      /\ Cardinality({row[p] : p \in Counted(mine)}) <= Cardinality(Counted(mine))
  <2>1. row \in Surjection(Counted(mine), {row[p] : p \in Counted(mine)})
    BY DEF Surjection
  <2> QED BY <1>4, <2>1, FS_Surjection
<1>7. Cardinality(1..rows) <= Cardinality({row[p] : p \in Counted(mine)})
  BY <1>5, <1>6, FS_Subset
<1>8. Cardinality(1..rows) = rows
  BY FS_Interval
<1>9. Cardinality(Counted(mine)) \in Nat /\ Cardinality({row[p] : p \in Counted(mine)}) \in Nat
  BY <1>4, <1>6, FS_CardinalityType
<1> QED BY <1>2, <1>3, <1>6, <1>7, <1>8, <1>9

-----------------------------------------------------------------------------
\* The versions keep the bytes of their upload; a unit of the scope is of the
\* inventory of these bytes, and a scope that was not selected has a version's
\* whole inventory; what is extracted is of the scope, and after a coverage
\* reported COMPLETE every unit of the scope has been read.
SourceRows == [bytes : Files \cup {NoBytes}, passed : BOOLEAN, revoked : BOOLEAN]
RowsIn(u) == sources[u].bytes.rows
Uploaded(u) == u \in Uploads /\ sources[u].bytes \in Files
Read == {e.unit : e \in {x \in extracted : x.readable}}

SourcesInv ==
  /\ sources \in [Uploads -> SourceRows]
  /\ \A u \in Uploads : sources[u].bytes = NoBytes => sources[u] = NoSource

ScopeInv ==
  /\ \A unit \in scope.units : Uploaded(unit.of) /\ unit \in UnitsOf(unit.of, RowsIn(unit.of))
  /\ ~scope.selected => \A unit \in scope.units : UnitsOf(unit.of, RowsIn(unit.of)) \subseteq scope.units

CoverageInv ==
  coverage = "COMPLETE" => scope # NoScope /\ scope.units \subseteq Read

CitedInv ==
  cited # NoBytes =>
    /\ Uploaded(cited.of) /\ sources[cited.of].bytes = cited.bytes
    /\ cited.excerpt # NoBytes => cited.excerpt[1] = cited.bytes
    /\ cited.first \in Nat /\ cited.last \in Nat /\ 1 <= cited.first /\ cited.last <= cited.bytes.rows

ReadingInv == SourcesInv /\ ScopeInv /\ CoverageInv /\ CitedInv

\* Whatever a step does to the sources, what was uploaded keeps its bytes.
SourcesKept == \A u \in Uploads : sources[u].bytes \in Files => sources'[u].bytes = sources[u].bytes

\* Uploading, dying in an upload, revoking and overwriting keep the versions so.
LEMMA SourcesNextInv ==
  ASSUME SourcesInv, [ReadingNext]_readingVars
  PROVE  SourcesInv' /\ SourcesKept
<1>0. NoBytes \notin Files
  BY ReadingConstantsOK
<1>1. ASSUME NEW u \in Uploads, NEW f \in Files, StoreUpload(u, f) PROVE SourcesInv' /\ SourcesKept
  <2>1. Passes(f) \in BOOLEAN
    BY DEF Passes
  <2>2. [bytes |-> f, passed |-> Passes(f), revoked |-> FALSE] \in SourceRows
    BY <2>1 DEF SourceRows
  <2>3. sources[u].bytes = NoBytes
    BY <1>1 DEF StoreUpload, NoSource
  <2>4. sources' = [sources EXCEPT ![u] = [bytes |-> f, passed |-> Passes(f), revoked |-> FALSE]]
    BY <1>1 DEF StoreUpload
  <2>5. sources'[u].bytes = f
    BY <2>4 DEF SourcesInv
  <2> QED BY <1>0, <2>2, <2>3, <2>4, <2>5 DEF SourcesInv, SourcesKept
<1>2. ASSUME NEW u \in Uploads, Revoke(u) PROVE SourcesInv' /\ SourcesKept
  <2>1. sources' = [sources EXCEPT ![u].revoked = TRUE] /\ sources[u] # NoSource
    BY <1>2 DEF Revoke
  <2>2. sources[u] \in SourceRows
    BY DEF SourcesInv
  <2>3. /\ [sources[u] EXCEPT !.revoked = TRUE] \in SourceRows
        /\ [sources[u] EXCEPT !.revoked = TRUE].bytes = sources[u].bytes
    BY <2>2 DEF SourceRows
  <2>4. sources' = [sources EXCEPT ![u] = [sources[u] EXCEPT !.revoked = TRUE]]
    BY <2>1
  <2>5. \A v \in Uploads : sources'[v].bytes = sources[v].bytes /\ (v # u => sources'[v] = sources[v])
    BY <2>3, <2>4 DEF SourcesInv
  <2> QED BY <2>1, <2>3, <2>4, <2>5 DEF SourcesInv, SourcesKept
<1>3. ASSUME UNCHANGED sources PROVE SourcesInv' /\ SourcesKept
  BY <1>3 DEF SourcesInv, SourcesKept
<1>4. ASSUME NEW u \in Uploads, NEW f \in Files, DieStoring(u, f) \/ Overwritten(u, f) PROVE UNCHANGED sources
  BY <1>4 DEF DieStoring, Overwritten
<1>5. ASSUME NEW us, BuildScope(us) \/ \E units : SelectUnits(us, units) PROVE UNCHANGED sources
  BY <1>5 DEF BuildScope, SelectUnits
<1>6. ASSUME NEW u, NEW pdfText, \/ \E units : ExtractUnits(u, units, pdfText)
                                 \/ ReportCoverage \/ ResolveCitation(u, pdfText) PROVE UNCHANGED sources
  BY <1>6 DEF ExtractUnits, ReportCoverage, ResolveCitation
<1>7. CASE UNCHANGED readingVars
  BY <1>3, <1>7 DEF readingVars
<1> QED BY <1>1, <1>2, <1>3, <1>4, <1>5, <1>6, <1>7 DEF ReadingNext

\* A version that can be read has the inventory of the bytes of its upload.
LEMMA ReadableInventory ==
  ASSUME SourcesInv, NEW u \in Uploads, Readable(u)
  PROVE  Uploaded(u) /\ Inventory(u) = UnitsOf(u, RowsIn(u))
<1>1. sources[u] \in SourceRows
  BY DEF SourcesInv
<1>2. sources[u].bytes \in Files
  BY <1>1 DEF SourcesInv, SourceRows, Readable
<1> QED BY <1>2 DEF Readable, Uploaded, Inventory, RowsIn

\* What the inventories of readable versions hold is of the version it names.
LEMMA InventoriedUnits ==
  ASSUME SourcesInv, NEW us \in SUBSET Uploads, \A u \in us : Readable(u)
  PROVE  \A unit \in Inventoried(us) :
           /\ Uploaded(unit.of) /\ unit \in UnitsOf(unit.of, RowsIn(unit.of))
           /\ UnitsOf(unit.of, RowsIn(unit.of)) \subseteq Inventoried(us)
<1> SUFFICES ASSUME NEW unit \in Inventoried(us)
             PROVE  /\ Uploaded(unit.of) /\ unit \in UnitsOf(unit.of, RowsIn(unit.of))
                    /\ UnitsOf(unit.of, RowsIn(unit.of)) \subseteq Inventoried(us)
  OBVIOUS
<1>1. PICK u \in us : unit \in Inventory(u)
  BY DEF Inventoried
<1>2. Uploaded(u) /\ Inventory(u) = UnitsOf(u, RowsIn(u))
  BY ReadableInventory
<1>3. RowsIn(u) \in Nat
  BY <1>2, ReadingConstantsOK DEF Uploaded, RowsIn
<1>4. unit.of = u
  BY <1>1, <1>2, <1>3, InventoryRanges DEF RangeOf
<1>5. Inventory(u) \subseteq Inventoried(us)
  BY DEF Inventoried
<1> QED BY <1>1, <1>2, <1>4, <1>5

\* No step takes a unit from the scope, a row from what was read or a version from under a citation.
LEMMA ReadingNextInv ==
  ASSUME ReadingInv, [ReadingNext]_readingVars
  PROVE  ReadingInv'
<1> USE DEF ReadingInv
<1>1. SourcesInv' /\ SourcesKept
  BY SourcesNextInv
<1>2. \A u : Uploaded(u) => Uploaded(u)' /\ RowsIn(u)' = RowsIn(u) /\ sources'[u].bytes = sources[u].bytes
  BY <1>1 DEF SourcesKept, Uploaded, RowsIn
<1>3. ASSUME UNCHANGED scope PROVE ScopeInv'
  BY <1>2, <1>3 DEF ScopeInv
<1>4. ASSUME UNCHANGED <<scope, coverage>>, extracted \subseteq extracted' PROVE CoverageInv'
  <2>1. Read \subseteq Read'
    BY <1>4 DEF Read
  <2> QED BY <1>4, <2>1 DEF CoverageInv
<1>5. ASSUME UNCHANGED cited PROVE CitedInv'
  BY <1>2, <1>5 DEF CitedInv
<1>6. ASSUME NEW u \in Uploads, NEW f \in Files, StoreUpload(u, f) \/ DieStoring(u, f) \/ Overwritten(u, f)
      PROVE  UNCHANGED <<scope, extracted, coverage, cited>>
  BY <1>6 DEF StoreUpload, DieStoring, Overwritten
<1>6a. ASSUME NEW u \in Uploads, Revoke(u) PROVE UNCHANGED <<scope, extracted, coverage, cited>>
  BY <1>6a DEF Revoke
<1>7. ASSUME NEW us \in SUBSET Uploads, BuildScope(us) PROVE ReadingInv'
  <2>1. UNCHANGED <<sources, extracted, coverage, cited>> /\ scope = NoScope
        /\ scope' = [units |-> Inventoried(us), selected |-> FALSE] /\ \A u \in us : Readable(u)
    BY <1>7 DEF BuildScope
  <2>2. ScopeInv'
    <3>1. scope'.units = Inventoried(us) /\ \A u : Uploaded(u)' = Uploaded(u) /\ RowsIn(u)' = RowsIn(u)
      BY <2>1 DEF Uploaded, RowsIn
    <3>2. \A unit \in Inventoried(us) :
             /\ Uploaded(unit.of) /\ unit \in UnitsOf(unit.of, RowsIn(unit.of))
             /\ UnitsOf(unit.of, RowsIn(unit.of)) \subseteq Inventoried(us)
      BY <2>1, InventoriedUnits
    <3> QED BY <3>1, <3>2 DEF ScopeInv
  <2>3. CoverageInv'
    BY <2>1 DEF CoverageInv
  <2> QED BY <1>1, <1>5, <2>1, <2>2, <2>3
<1>8. ASSUME NEW us \in SUBSET Uploads, NEW units, SelectUnits(us, units) PROVE ReadingInv'
  <2>1. UNCHANGED <<sources, extracted, coverage, cited>> /\ scope = NoScope
        /\ units \subseteq Inventoried(us)
        /\ scope' = [units |-> units, selected |-> TRUE] /\ \A u \in us : Readable(u)
    BY <1>8 DEF SelectUnits
  <2>2. ScopeInv'
    <3>1. scope'.units = units /\ scope'.selected /\ \A u : Uploaded(u)' = Uploaded(u) /\ RowsIn(u)' = RowsIn(u)
      BY <2>1 DEF Uploaded, RowsIn
    <3>2. \A unit \in units : Uploaded(unit.of) /\ unit \in UnitsOf(unit.of, RowsIn(unit.of))
      BY <2>1, InventoriedUnits
    <3> QED BY <3>1, <3>2 DEF ScopeInv
  <2>3. CoverageInv'
    BY <2>1 DEF CoverageInv
  <2> QED BY <1>1, <1>5, <2>1, <2>2, <2>3
<1>9. ASSUME NEW u, NEW units, NEW pdfText, ExtractUnits(u, units, pdfText) PROVE ReadingInv'
  <2>1. UNCHANGED <<scope, coverage, cited>> /\ extracted \subseteq extracted'
    BY <1>9 DEF ExtractUnits
  <2> QED BY <1>1, <1>3, <1>4, <1>5, <2>1
<1>10. ASSUME ReportCoverage PROVE ReadingInv'
  <2>1. UNCHANGED <<scope, extracted, cited>> /\ scope # NoScope /\ coverage' = CoverageOf
    BY <1>10 DEF ReportCoverage
  <2>2. ASSUME coverage' = "COMPLETE" PROVE scope.units \subseteq Read
    <3>1. (\A unit \in scope.units : \E e \in extracted : e.unit = unit) /\ \A e \in extracted : e.readable
      BY <2>1, <2>2 DEF CoverageOf
    <3> QED BY <3>1 DEF Read
  <2>3. CoverageInv'
    BY <2>1, <2>2 DEF CoverageInv, Read
  <2> QED BY <1>1, <1>3, <1>5, <2>1, <2>3
<1>11. ASSUME NEW c \in Citations, NEW pdfText \in BOOLEAN, ResolveCitation(c, pdfText) PROVE ReadingInv'
  <2>1. UNCHANGED <<sources, scope, extracted, coverage>> /\ cited' = c
    BY <1>11 DEF ResolveCitation
  <2>2. c.of \in Uploads /\ c.bytes \in Files /\ c.first \in Nat /\ c.last \in Nat
    BY ReadingConstantsOK
  <2>3. /\ sources[c.of].bytes = c.bytes /\ 1 <= c.first /\ c.last <= c.bytes.rows
        /\ c.excerpt # NoBytes => c.excerpt[1] = c.bytes
    BY <1>11 DEF ResolveCitation
  <2>4. CitedInv'
    BY <2>1, <2>2, <2>3 DEF CitedInv, Uploaded
  <2> QED BY <1>1, <1>3, <1>4, <2>1, <2>4
<1>12. CASE UNCHANGED readingVars
  BY <1>1, <1>3, <1>4, <1>5, <1>12 DEF readingVars
<1>13. ASSUME UNCHANGED <<scope, extracted, coverage, cited>> PROVE ReadingInv'
  BY <1>1, <1>3, <1>4, <1>5, <1>13
<1> QED BY <1>6, <1>6a, <1>7, <1>8, <1>9, <1>10, <1>11, <1>12, <1>13 DEF ReadingNext

\* The walk of rowCoverage() over a sheet that no two versions name is over the ranges of the one.
LEMMA GapsAreGaps ==
  ASSUME ReadingInv, NEW u, \E unit \in scope.units : unit.of = u,
         \A unit \in scope.units : SameSheet(unit.of, u) => unit.of = u
  PROVE  RowsComplete(scope.units, sources[u].bytes.sheet)
           <=> 1..sources[u].bytes.rows \subseteq RowsOf(scope.units, u)
<1> DEFINE mine == {unit \in scope.units : sources[unit.of].bytes.sheet = sources[u].bytes.sheet}
           rows == RowsIn(u)
           head == CHOOSE unit \in mine : Before(mine, unit) = {}
<1>1. mine = {unit \in scope.units : unit.of = u} /\ mine # {}
  BY DEF SameSheet
<1>2. Uploaded(u) /\ mine \subseteq UnitsOf(u, rows)
  BY <1>1 DEF ReadingInv, ScopeInv
<1>3. rows \in Nat
  BY <1>2, ReadingConstantsOK DEF Uploaded, RowsIn
<1>4. IsFiniteSet(mine) /\ \A x \in mine : RangeOf(x, u, rows)
  BY <1>2, <1>3, InventoryRanges, FS_Subset
<1>5. sources[head.of].bytes.rows = rows
  <2> DEFINE firsts == {x.first : x \in mine}
  <2>1. firsts \subseteq Nat /\ firsts # {}
    BY <1>1, <1>4 DEF RangeOf
  <2>2. PICK n \in firsts : \A m \in firsts : n <= m
    <3> HIDE DEF firsts
    <3> QED BY <2>1, LeastNumber
  <2>3. PICK x \in mine : x.first = n
    BY <2>2
  <2>4. Before(mine, x) = {}
    <3>1. ASSUME NEW y \in mine, y.first < x.first PROVE FALSE
      <4>1. y.first \in Nat /\ n \in Nat /\ n <= y.first
        BY <2>1, <2>2
      <4> QED BY <2>3, <3>1, <4>1
    <3> QED BY <3>1 DEF Before
  <2>5. head \in mine
    BY <2>3, <2>4
  <2>6. head.of = u
    BY <1>1, <2>5
  <2> QED BY <2>6 DEF RowsIn
<1>6. RowsComplete(scope.units, sources[u].bytes.sheet)
        <=> Gaps(mine) = {} /\ (\E cursor \in Cursors(mine) : cursor > rows) /\ Cardinality(Counted(mine)) >= rows
  BY <1>1, <1>5 DEF RowsComplete, Gaps, Before, Counted
<1>7. \A r : r \in RowsOf(scope.units, u) <=> \E x \in mine : r \in x.first..x.last
  BY <1>1 DEF RowsOf
<1> HIDE DEF mine, rows, head
<1>8. ASSUME Gaps(mine) = {}, \E cursor \in Cursors(mine) : cursor > rows
      PROVE  \A r \in 1..rows : \E x \in mine : r \in x.first..x.last
  BY <1>3, <1>4, <1>8, WalkedIsCovered
<1>9. ASSUME \A r \in 1..rows : \E x \in mine : r \in x.first..x.last
      PROVE  /\ Gaps(mine) = {} /\ (\E cursor \in Cursors(mine) : cursor > rows)
             /\ Cardinality(Counted(mine)) >= rows
  BY <1>3, <1>4, <1>9, CoveredIsWalked
<1>10. (1..rows \subseteq RowsOf(scope.units, u)) <=> \A r \in 1..rows : \E x \in mine : r \in x.first..x.last
  BY <1>7
<1>11. rows = sources[u].bytes.rows
  BY DEF rows, RowsIn
<1> QED BY <1>6, <1>8, <1>9, <1>10, <1>11

\* With the scope and the versions so, what is reported complete is the whole.
LEMMA CompleteFromInv ==
  ASSUME ReadingInv
  PROVE  CompleteIsWhole
<1>1. ASSUME coverage = "COMPLETE", NEW unit \in scope.units, ~scope.selected, NEW r \in 1..sources[unit.of].bytes.rows
      PROVE  r \in RowsOf(Read, unit.of)
  <2>1. Uploaded(unit.of) /\ UnitsOf(unit.of, RowsIn(unit.of)) \subseteq Read
    BY <1>1 DEF ReadingInv, ScopeInv, CoverageInv
  <2>2. RowsIn(unit.of) \in Nat /\ r \in 1..RowsIn(unit.of)
    BY <1>1, <2>1, ReadingConstantsOK DEF Uploaded, RowsIn
  <2>3. PICK x \in UnitsOf(unit.of, RowsIn(unit.of)) : x.of = unit.of /\ r \in x.first..x.last
    BY <2>2, InventoryCovers
  <2> QED BY <2>1, <2>3 DEF RowsOf
<1>2. coverage = "COMPLETE" =>
        LET read == {e.unit : e \in {x \in extracted : x.readable}}
        IN /\ scope.units \subseteq read
           /\ \A u \in {unit.of : unit \in scope.units} :
                ~scope.selected => 1..sources[u].bytes.rows \subseteq RowsOf(read, u)
  <2>1. Read = {e.unit : e \in {x \in extracted : x.readable}}
    BY DEF Read
  <2>2. coverage = "COMPLETE" => scope.units \subseteq Read
    BY DEF ReadingInv, CoverageInv
  <2> QED BY <1>1, <2>1, <2>2
<1>3. \A u \in {unit.of : unit \in scope.units} :
        (\A unit \in scope.units : SameSheet(unit.of, u) => unit.of = u) =>
          (RowsComplete(scope.units, sources[u].bytes.sheet)
             <=> 1..sources[u].bytes.rows \subseteq RowsOf(scope.units, u))
  BY GapsAreGaps
<1>4. ASSUME cited # NoBytes, Readable(cited.of), NEW r \in cited.first..cited.last
      PROVE  r \in RowsOf(Inventory(cited.of), cited.of)
  <2>1. /\ Uploaded(cited.of) /\ sources[cited.of].bytes = cited.bytes
        /\ cited.first \in Nat /\ cited.last \in Nat /\ 1 <= cited.first /\ cited.last <= cited.bytes.rows
    BY <1>4 DEF ReadingInv, CitedInv
  <2>2. RowsIn(cited.of) \in Nat /\ r \in 1..RowsIn(cited.of)
    BY <1>4, <2>1, ReadingConstantsOK DEF Uploaded, RowsIn
  <2>3. PICK x \in UnitsOf(cited.of, RowsIn(cited.of)) : x.of = cited.of /\ r \in x.first..x.last
    BY <2>2, InventoryCovers
  <2>4. Inventory(cited.of) = UnitsOf(cited.of, RowsIn(cited.of))
    BY <1>4, <2>1, ReadableInventory DEF ReadingInv, Uploaded
  <2> QED BY <2>3, <2>4 DEF RowsOf
<1>5. cited # NoBytes =>
        /\ sources[cited.of].bytes = cited.bytes
        /\ cited.excerpt # NoBytes => cited.excerpt[1] = sources[cited.of].bytes
  BY DEF ReadingInv, CitedInv
<1> QED BY <1>2, <1>3, <1>4, <1>5 DEF CompleteIsWhole

\* For any files, keys and size of a range, through revocations, overwritten files and
\* runs that stop anywhere: a coverage reported complete is of every row, rowCoverage() has
\* no gap exactly when the scope has none, and a citation resolves inside the inventory.
THEOREM CompleteIsWholeAlways == ReadingSpec => []CompleteIsWhole
<1>1. ReadingInit => ReadingInv
  BY ReadingConstantsOK DEF ReadingInit, ReadingInv, SourcesInv, SourceRows, ScopeInv, CoverageInv, CitedInv, NoSource, NoScope
<1> QED BY <1>1, ReadingNextInv, CompleteFromInv, PTL DEF ReadingSpec

-----------------------------------------------------------------------------
(***************************************************************************)
(* Calculations                                                           *)
(***************************************************************************)

\* What cellValue() makes of every cell while some are being evaluated, from
\* what it makes of them while one more is.
Values(over, visiting, value) ==
  [c \in Cells |->
     CASE c \in DOMAIN over -> Number(over[c])
       [] c \notin DOMAIN over /\ c \in visiting -> Error("#CYCLE!")
       [] c \notin DOMAIN over \cup visiting ->
            IF book[c] = NoValue THEN Empty
            ELSE Evaluate(book[c].node, value[visiting \cup {c}])]

\* What is known at a stage, from what was known at the one before.
Unasked(over) ==
  [c \in {d \in Cells : d \in DOMAIN over \/ book[d] = NoValue} |->
     IF c \in DOMAIN over THEN Number(over[c]) ELSE Empty]
Stage(over, stage, n) == IF n = 0 THEN Unasked(over) ELSE NextStage(stage[n - 1])
Stages == 0..Cardinality(Cells) + 1

\* The values of a cell ask for one more cell in progress only.
LEMMA ValuesAskDeeper ==
  ASSUME NEW over, NEW v \in SUBSET Cells, NEW f, NEW g,
         \A c \in Cells \ v : f[v \cup {c}] = g[v \cup {c}]
  PROVE  Values(over, v, f) = Values(over, v, g)
<1>1. ASSUME NEW c \in Cells PROVE Values(over, v, f)[c] = Values(over, v, g)[c]
  <2>1. CASE c \in DOMAIN over
    BY <2>1 DEF Values
  <2>2. CASE c \notin DOMAIN over /\ c \in v
    BY <2>2 DEF Values
  <2>3. CASE c \notin DOMAIN over \cup v
    <3>1. f[v \cup {c}] = g[v \cup {c}]
      BY <2>3
    <3> QED BY <2>3, <3>1 DEF Values
  <2> QED BY <2>1, <2>2, <2>3
<1>2. /\ Values(over, v, f) = [c \in Cells |-> Values(over, v, f)[c]]
      /\ Values(over, v, g) = [c \in Cells |-> Values(over, v, g)[c]]
  BY DEF Values
<1> QED BY <1>1, <1>2

\* The cells that are not in progress are fewer when one more is.
LEMMA OneFewer ==
  ASSUME NEW v \in SUBSET Cells, NEW c \in Cells \ v
  PROVE  /\ Cardinality(Cells \ v) \in Nat /\ Cardinality(Cells \ (v \cup {c})) \in Nat
         /\ Cardinality(Cells \ v) = Cardinality(Cells \ (v \cup {c})) + 1
         /\ Cardinality(Cells \ v) <= Cardinality(Cells)
<1>1. IsFiniteSet(Cells \ v) /\ Cardinality(Cells \ v) <= Cardinality(Cells)
  BY WorkbookConstantsOK, FS_Subset
<1>2. Cells \ (v \cup {c}) = (Cells \ v) \ {c}
  OBVIOUS
<1>3. /\ IsFiniteSet((Cells \ v) \ {c})
      /\ Cardinality((Cells \ v) \ {c}) = Cardinality(Cells \ v) - 1
  BY <1>1, FS_RemoveElement
<1>4. Cardinality(Cells \ v) \in Nat /\ Cardinality((Cells \ v) \ {c}) \in Nat
  BY <1>1, <1>3, FS_CardinalityType
<1> QED BY <1>1, <1>2, <1>3, <1>4

\* The recursion of cellValue() ends: its equation holds of what it computes.
LEMMA ValuesFound ==
  ASSUME NEW over
  PROVE  CellValue(over) = [v \in SUBSET Cells |-> Values(over, v, CellValue(over))]
<1> DEFINE Left(v) == Cardinality(Cells \ v)
           Upto(f, k) == /\ f = [v \in SUBSET Cells |-> f[v]]
                         /\ \A v \in SUBSET Cells : Left(v) < k => f[v] = Values(over, v, f)
           Never == {k \in Nat : ~\E f : Upto(f, k)}
<1>0. Cardinality(Cells) \in Nat
  BY WorkbookConstantsOK, FS_CardinalityType
<1>1. ASSUME NEW v \in SUBSET Cells PROVE Left(v) \in Nat /\ Left(v) <= Cardinality(Cells)
  <2>1. IsFiniteSet(Cells \ v) /\ Left(v) <= Cardinality(Cells)
    BY WorkbookConstantsOK, FS_Subset
  <2> QED BY <2>1, FS_CardinalityType
<1>2. ASSUME NEW k \in Nat, NEW f, Upto(f, k) PROVE \E g : Upto(g, k + 1)
  <2> DEFINE g == [v \in SUBSET Cells |-> IF Left(v) < k THEN f[v] ELSE Values(over, v, f)]
  <2>1. \A v \in SUBSET Cells : g[v] = Values(over, v, f)
    BY <1>2
  <2>2. ASSUME NEW v \in SUBSET Cells, Left(v) < k + 1 PROVE g[v] = Values(over, v, g)
    <3>1. ASSUME NEW c \in Cells \ v PROVE f[v \cup {c}] = g[v \cup {c}]
      <4>1. v \cup {c} \in SUBSET Cells /\ Left(v \cup {c}) < k
        BY <2>2, OneFewer
      <4> QED BY <4>1
    <3> HIDE DEF g
    <3>2. Values(over, v, f) = Values(over, v, g)
      BY <3>1, ValuesAskDeeper
    <3> QED BY <2>1, <3>2
  <2>3. g = [v \in SUBSET Cells |-> g[v]]
    OBVIOUS
  <2> HIDE DEF g
  <2> QED BY <2>2, <2>3
<1>3. Never = {}
  <2> SUFFICES ASSUME Never # {} PROVE FALSE
    OBVIOUS
  <2>1. PICK n \in Never : \A m \in Never : n <= m
    <3>1. Never \subseteq Nat
      OBVIOUS
    <3> HIDE DEF Never
    <3> QED BY <3>1, LeastNumber
  <2>2. n # 0
    <3> DEFINE f == [v \in SUBSET Cells |-> v]
    <3>1. f = [v \in SUBSET Cells |-> f[v]]
      OBVIOUS
    <3>2. \A v \in SUBSET Cells : ~(Left(v) < 0)
      <4> HIDE DEF Left
      <4> QED BY <1>1
    <3> HIDE DEF f, Left
    <3> QED BY <3>1, <3>2
  <2>3. n - 1 \in Nat /\ n - 1 \notin Never
    <3>1. n \in Nat
      OBVIOUS
    <3>2. n - 1 \in Nat /\ ~(n <= n - 1)
      BY <2>2, <3>1
    <3> HIDE DEF Never
    <3> QED BY <2>1, <3>2
  <2>4. PICK f : Upto(f, n - 1)
    BY <2>3
  <2>5. \E g : Upto(g, n - 1 + 1)
    <3> HIDE DEF Upto
    <3> QED BY <1>2, <2>3, <2>4
  <2>6. n - 1 + 1 = n
    BY <2>1
  <2> HIDE DEF Upto
  <2> QED BY <2>1, <2>5, <2>6
<1>4. PICK f : Upto(f, Cardinality(Cells) + 1)
  <2>1. Cardinality(Cells) + 1 \in Nat
    BY <1>0
  <2> HIDE DEF Upto
  <2> QED BY <1>3, <2>1
<1>5. f = [v \in SUBSET Cells |-> Values(over, v, f)]
  <2>1. \A v \in SUBSET Cells : f[v] = Values(over, v, f)
    <3>1. \A v \in SUBSET Cells : Left(v) < Cardinality(Cells) + 1
      <4> HIDE DEF Left
      <4> QED BY <1>0, <1>1
    <3> HIDE DEF Left
    <3> QED BY <1>4, <3>1
  <2> QED BY <1>4, <2>1
<1> QED BY <1>5 DEF CellValue, Values

\* The stages of what is known follow one another.
LEMMA StagesFound ==
  ASSUME NEW over
  PROVE  Meaning(over) = [n \in Stages |-> Stage(over, Meaning(over), n)]
<1> DEFINE Upto(f, k) == /\ f = [n \in Stages |-> f[n]]
                         /\ \A n \in Stages : n < k => f[n] = Stage(over, f, n)
           Never == {k \in Nat : ~\E f : Upto(f, k)}
<1>0. /\ Cardinality(Cells) \in Nat /\ Stages \subseteq Nat
      /\ \A n \in Stages : n < Cardinality(Cells) + 2 /\ (n # 0 => n - 1 \in Stages)
  BY WorkbookConstantsOK, FS_CardinalityType DEF Stages
<1>1. ASSUME NEW k \in Nat, NEW f, Upto(f, k) PROVE \E g : Upto(g, k + 1)
  <2> DEFINE g == [n \in Stages |-> IF n < k THEN f[n] ELSE Stage(over, f, n)]
  <2>1. \A n \in Stages : g[n] = Stage(over, f, n)
    BY <1>1
  <2>2. ASSUME NEW n \in Stages, n < k + 1 PROVE g[n] = Stage(over, g, n)
    <3>1. n # 0 => f[n - 1] = g[n - 1]
      BY <1>0, <2>2
    <3> HIDE DEF g
    <3>2. Stage(over, f, n) = Stage(over, g, n)
      BY <3>1 DEF Stage
    <3> QED BY <2>1, <3>2
  <2>3. g = [n \in Stages |-> g[n]]
    OBVIOUS
  <2> HIDE DEF g
  <2> QED BY <2>2, <2>3
<1>2. Never = {}
  <2> SUFFICES ASSUME Never # {} PROVE FALSE
    OBVIOUS
  <2>1. PICK n \in Never : \A m \in Never : n <= m
    <3>1. Never \subseteq Nat
      OBVIOUS
    <3> HIDE DEF Never
    <3> QED BY <3>1, LeastNumber
  <2>2. n # 0
    <3> DEFINE f == [m \in Stages |-> m]
    <3>1. f = [m \in Stages |-> f[m]] /\ \A m \in Stages : ~(m < 0)
      BY <1>0
    <3> HIDE DEF f
    <3> QED BY <3>1
  <2>3. n \in Nat /\ n - 1 \in Nat /\ ~(n <= n - 1) /\ n - 1 + 1 = n
    BY <2>2
  <2>4. PICK f : Upto(f, n - 1)
    <3> HIDE DEF Upto
    <3> QED BY <2>1, <2>3
  <2> HIDE DEF Upto
  <2>5. \E g : Upto(g, n - 1 + 1)
    BY <1>1, <2>3, <2>4
  <2> QED BY <2>1, <2>3, <2>5
<1>3. PICK f : Upto(f, Cardinality(Cells) + 2)
  <2>1. Cardinality(Cells) + 2 \in Nat
    BY <1>0
  <2> HIDE DEF Upto
  <2> QED BY <1>2, <2>1
<1>4. f = [n \in Stages |-> Stage(over, f, n)]
  BY <1>0, <1>3
<1> QED BY <1>4 DEF Meaning, Stage, Stages, Unasked

-----------------------------------------------------------------------------
\* What a cell is worth when its operands are worth what is known of them.
Applied(known, c) ==
  Apply(book[c].node, [i \in DOMAIN Operands(book[c].node) |-> known[Operands(book[c].node)[i]]])

\* What is known of a cell was asked of nobody, or follows from the rest.
Founded(over, known) ==
  /\ DOMAIN known \subseteq Cells
  /\ \A c \in DOMAIN known :
       \/ c \in DOMAIN over \/ book[c] = NoValue
       \/ /\ Range(Operands(book[c].node)) \subseteq DOMAIN known
          /\ known[c] = Applied(known, c)

\* Nothing that was known is forgotten.
Grown(known, next) ==
  DOMAIN known \subseteq DOMAIN next /\ \A c \in DOMAIN known : next[c] = known[c]

LEMMA AppliedAgree ==
  ASSUME NEW c, NEW f, NEW g, \A d \in Range(Operands(book[c].node)) : f[d] = g[d]
  PROVE  Applied(f, c) = Applied(g, c)
<1> DEFINE args == Operands(book[c].node)
<1>1. [i \in DOMAIN args |-> f[args[i]]] = [i \in DOMAIN args |-> g[args[i]]]
  <2>1. \A i \in DOMAIN args : args[i] \in Range(args)
    BY DEF Range
  <2> HIDE DEF args
  <2> QED BY <2>1 DEF args
<1> QED BY <1>1 DEF Applied

LEMMA NextStageFounded ==
  ASSUME NEW over, NEW known, Founded(over, known)
  PROVE  Founded(over, NextStage(known)) /\ Grown(known, NextStage(known))
<1> DEFINE next == NextStage(known)
           New == {d \in Cells \ DOMAIN known : Range(Operands(book[d].node)) \subseteq DOMAIN known}
<1>1. /\ DOMAIN next = DOMAIN known \cup New
      /\ \A c \in DOMAIN known : next[c] = known[c]
      /\ \A c \in New : next[c] = Applied(known, c)
  BY DEF NextStage, Applied, Evaluate
<1>2. ASSUME NEW c, Range(Operands(book[c].node)) \subseteq DOMAIN known
      PROVE  Applied(known, c) = Applied(next, c)
  <2>1. \A d \in Range(Operands(book[c].node)) : known[d] = next[d]
    BY <1>1, <1>2
  <2> HIDE DEF next
  <2> QED BY <2>1, AppliedAgree
<1> HIDE DEF next
<1>3. Grown(known, next)
  BY <1>1 DEF Grown
<1>4. Founded(over, next)
  BY <1>1, <1>2 DEF Founded
<1> QED BY <1>3, <1>4 DEF next

\* What is known at a stage is founded, and known at every later one.
LEMMA StagesGrow ==
  ASSUME NEW over, NEW n \in Stages
  PROVE  /\ Founded(over, Meaning(over)[n])
         /\ \A m \in 0..n : Grown(Meaning(over)[m], Meaning(over)[n])
<1> DEFINE Good(k) == /\ Founded(over, Meaning(over)[k])
                      /\ \A m \in 0..k : Grown(Meaning(over)[m], Meaning(over)[k])
           Bad == {k \in Stages : ~Good(k)}
<1>0. /\ Cardinality(Cells) \in Nat /\ Stages \subseteq Nat /\ 0 \in Stages
      /\ \A k \in Stages : k # 0 => k - 1 \in Stages /\ k - 1 < k
  BY WorkbookConstantsOK, FS_CardinalityType DEF Stages
<1>1. \A k \in Stages : Meaning(over)[k] = Stage(over, Meaning(over), k)
  BY StagesFound
<1>2. Good(0)
  <2>1. Meaning(over)[0] = Unasked(over)
    BY <1>0, <1>1 DEF Stage
  <2>2. Founded(over, Meaning(over)[0])
    BY <2>1 DEF Founded, Unasked
  <2>3. \A m \in 0..0 : m = 0
    OBVIOUS
  <2> QED BY <2>2, <2>3 DEF Grown
<1>3. ASSUME NEW k \in Stages, k # 0, Good(k - 1) PROVE Good(k)
  <2>1. Meaning(over)[k] = NextStage(Meaning(over)[k - 1])
    BY <1>1, <1>3 DEF Stage
  <2>2. Founded(over, Meaning(over)[k]) /\ Grown(Meaning(over)[k - 1], Meaning(over)[k])
    BY <1>3, <2>1, NextStageFounded
  <2>3. \A m \in 0..k : m = k \/ m \in 0..k - 1
    BY <1>0
  <2> QED BY <1>3, <2>2, <2>3 DEF Grown
<1>4. Bad = {}
  <2> SUFFICES ASSUME Bad # {} PROVE FALSE
    OBVIOUS
  <2>1. PICK k \in Bad : \A m \in Bad : k <= m
    <3>1. Bad \subseteq Nat
      BY <1>0
    <3> HIDE DEF Bad
    <3> QED BY <3>1, LeastNumber
  <2> HIDE DEF Good
  <2>2. k \in Stages /\ k \in Nat /\ k # 0 /\ k - 1 \in Stages /\ ~(k <= k - 1)
    BY <1>0, <1>2
  <2>3. Good(k - 1)
    BY <2>1, <2>2
  <2> QED BY <1>3, <2>2, <2>3
<1> QED BY <1>4

-----------------------------------------------------------------------------
\* The operands of a formula are cells of the file.
LEMMA OperandsAreCells ==
  ASSUME NEW x \in Contents
  PROVE  /\ DOMAIN Operands(x.node) \subseteq Nat
         /\ Range(Operands(x.node)) \subseteq Cells
         /\ x.node.op \in {"number", "external", "unsupported"} => DOMAIN Operands(x.node) = {}
         /\ x.node.op = "ref" => DOMAIN Operands(x.node) = {1}
<1> DEFINE node == x.node
<1>1. node.args \in Seq(Cells) /\ Cells \subseteq Nat
  BY WorkbookConstantsOK
<1>2. CASE node.op = "RANGE"
  <2> DEFINE S == InRange(node.args[1], node.args[2])
  <2>1. S \subseteq Cells
    BY DEF InRange
  <2>2. Operands(node) = [c \in S |-> c]
    BY <1>2 DEF Operands
  <2> HIDE DEF S, node
  <2> QED BY <1>1, <1>2, <2>1, <2>2 DEF Range, node
<1>3. CASE node.op # "RANGE"
  <2>1. Operands(node) = node.args
    BY <1>3 DEF Operands
  <2>2. DOMAIN node.args = 1..Len(node.args) /\ \A i \in DOMAIN node.args : node.args[i] \in Cells
    BY <1>1
  <2>3. node.op \in {"number", "external", "unsupported"} => DOMAIN node.args = {}
    BY WorkbookConstantsOK
  <2>4. node.op = "ref" => DOMAIN node.args = {1}
    BY <2>2, WorkbookConstantsOK
  <2> HIDE DEF node
  <2> QED BY <2>1, <2>2, <2>3, <2>4 DEF Range, node
<1> QED BY <1>2, <1>3

\* A value that is no error comes from values that are none.
LEMMA ErrorsPropagate ==
  ASSUME NEW x \in Contents, NEW values, DOMAIN values = DOMAIN Operands(x.node),
         Apply(x.node, values).kind # "error"
  PROVE  \A i \in DOMAIN values : values[i].kind # "error"
<1> DEFINE failures == {i \in DOMAIN values : values[i].kind = "error"}
<1>1. CASE x.node.op = "number"
  BY <1>1, OperandsAreCells
<1>2. CASE x.node.op \in {"external", "unsupported"}
  <2>1. Apply(x.node, values).kind = "error"
    BY <1>2 DEF Apply, Error
  <2> QED BY <2>1
<1>3. CASE x.node.op = "ref"
  <2>1. Apply(x.node, values) = values[1] /\ DOMAIN values = {1}
    BY <1>3, OperandsAreCells DEF Apply
  <2> QED BY <2>1
<1>4. CASE x.node.op \notin {"number", "external", "unsupported", "ref"} /\ failures # {}
  <2>1. Apply(x.node, values) = values[Min(failures)]
    BY <1>4 DEF Apply
  <2>2. Min(failures) \in failures
    <3>1. failures \subseteq Nat
      BY OperandsAreCells
    <3> HIDE DEF failures
    <3>2. \E n \in failures : \A m \in failures : n <= m
      BY <1>4, <3>1, LeastNumber
    <3> QED BY <3>2 DEF Min
  <2> QED BY <2>1, <2>2
<1> QED BY <1>1, <1>2, <1>3, <1>4

\* Whatever cells are being evaluated already, a value that cellValue() finds
\* is the one that the workbook means, known after as many stages as there are
\* cells that are not.
LEMMA ValueIsMeant ==
  ASSUME WorkbookTypeOK, NEW over
  PROVE  \A v \in SUBSET Cells, c \in Cells :
           LET known == Meaning(over)[Cardinality(Cells \ v)]
           IN  CellValue(over)[v][c].kind # "error" =>
                 c \in DOMAIN known /\ known[c] = CellValue(over)[v][c]
<1> DEFINE Left(v) == Cardinality(Cells \ v)
           Value(v) == CellValue(over)[v]
           KnownAt(n) == Meaning(over)[n]
           Meant(v, c) == Value(v)[c].kind # "error" =>
                            c \in DOMAIN KnownAt(Left(v)) /\ KnownAt(Left(v))[c] = Value(v)[c]
           Wrong == {n \in Nat : \E v \in SUBSET Cells, c \in Cells : Left(v) = n /\ ~Meant(v, c)}
<1>0. ASSUME NEW v \in SUBSET Cells
      PROVE  Left(v) \in Stages /\ Left(v) \in Nat
  <2>1. IsFiniteSet(Cells \ v) /\ Left(v) <= Cardinality(Cells)
    BY WorkbookConstantsOK, FS_Subset
  <2>2. Left(v) \in Nat /\ Cardinality(Cells) \in Nat
    BY <2>1, FS_CardinalityType, WorkbookConstantsOK
  <2> HIDE DEF Left
  <2> QED BY <2>1, <2>2 DEF Stages
<1>1. ASSUME NEW v \in SUBSET Cells, NEW c \in Cells, Value(v)[c].kind # "error",
             \A w \in SUBSET Cells, d \in Cells : Left(w) < Left(v) => Meant(w, d)
      PROVE  Meant(v, c)
  <2>1. Value(v) = Values(over, v, CellValue(over))
    BY ValuesFound
  <2>2. CASE c \in DOMAIN over \/ (c \notin DOMAIN over \cup v /\ book[c] = NoValue)
    <3>1. c \in DOMAIN KnownAt(0) /\ KnownAt(0)[c] = Value(v)[c]
      <4>1. 0 \in Stages
        BY WorkbookConstantsOK, FS_CardinalityType DEF Stages
      <4>2. KnownAt(0) = Unasked(over)
        BY <4>1, StagesFound DEF Stage
      <4>3. Value(v)[c] = IF c \in DOMAIN over THEN Number(over[c]) ELSE Empty
        BY <2>1, <2>2 DEF Values
      <4> HIDE DEF KnownAt, Value
      <4> QED BY <2>2, <4>2, <4>3 DEF Unasked
    <3>2. Grown(KnownAt(0), KnownAt(Left(v)))
      <4>1. 0 \in 0..Left(v) /\ Left(v) \in Stages
        BY <1>0
      <4> HIDE DEF Left
      <4> QED BY <4>1, StagesGrow
    <3> HIDE DEF KnownAt, Left, Value
    <3> QED BY <3>1, <3>2 DEF Grown
  <2>3. CASE c \notin DOMAIN over /\ c \in v
    BY <1>1, <2>1, <2>3 DEF Values, Error
  <2>4. CASE c \notin DOMAIN over \cup v /\ book[c] # NoValue
    <3> DEFINE w == v \cup {c}
               node == book[c].node
               args == Operands(node)
               values == [i \in DOMAIN args |-> Value(w)[args[i]]]
    <3>1. book[c] \in Contents /\ args = Operands(node)
      BY <2>4 DEF WorkbookTypeOK
    <3>2. Value(v)[c] = Apply(node, values)
      BY <2>1, <2>4 DEF Values, Evaluate
    <3>3. w \in SUBSET Cells /\ Left(v) = Left(w) + 1 /\ Left(w) \in Nat
      BY <2>4, OneFewer
    <3>4. \A i \in DOMAIN args : args[i] \in Cells /\ args[i] \in Range(args)
      BY <3>1, OperandsAreCells DEF Range
    <3>5. \A i \in DOMAIN args : values[i].kind # "error"
      <4>1. Apply(node, values).kind # "error" /\ DOMAIN values = DOMAIN Operands(book[c].node)
        BY <1>1, <3>2
      <4> HIDE DEF values, Value
      <4>2. \A i \in DOMAIN values : values[i].kind # "error"
        BY <3>1, <4>1, ErrorsPropagate
      <4> QED BY <4>1, <4>2
    <3> DEFINE known == KnownAt(Left(w))
               next == KnownAt(Left(v))
    <3>6. \A i \in DOMAIN args : args[i] \in DOMAIN known /\ known[args[i]] = values[i]
      <4>1. \A d \in Cells : Meant(w, d)
        <5>1. Left(w) < Left(v)
          BY <3>3
        <5> HIDE DEF Left, Meant, w
        <5> QED BY <1>1, <3>3, <5>1
      <4> HIDE DEF Left, w, Value, KnownAt, args
      <4> QED BY <3>4, <3>5, <4>1
    <3>7. Range(args) \subseteq DOMAIN known
      BY <3>6 DEF Range
    <3>8. next = NextStage(known) /\ Founded(over, known) /\ Grown(known, next)
      <4>1. Left(w) \in Stages /\ Left(v) \in Stages /\ Left(v) # 0 /\ Left(v) - 1 = Left(w)
        <5>1. Left(w) \in Stages /\ Left(v) \in Stages
          BY <1>0, <3>3
        <5> HIDE DEF Left, w
        <5> QED BY <3>3, <5>1
      <4> HIDE DEF Left, w
      <4>2. next = NextStage(known)
        BY <4>1, StagesFound DEF Stage
      <4>3. Founded(over, known)
        BY <4>1, StagesGrow
      <4> HIDE DEF known, next
      <4> QED BY <4>2, <4>3, NextStageFounded
    <3>9. Applied(known, c) = Apply(node, values)
      <4>1. [i \in DOMAIN args |-> known[args[i]]] = values
        <5> HIDE DEF known, args, Value
        <5> QED BY <3>6
      <4> HIDE DEF known, values, args
      <4>2. Applied(known, c) = Apply(node, [i \in DOMAIN args |-> known[args[i]]])
        BY <3>1 DEF Applied
      <4> QED BY <4>1, <4>2
    <3>10. c \in DOMAIN next /\ next[c] = Applied(known, c)
      <4> HIDE DEF known, next, args
      <4>1. CASE c \in DOMAIN known
        BY <2>4, <3>8, <4>1 DEF Founded, Grown
      <4>2. CASE c \notin DOMAIN known
        BY <3>1, <3>7, <3>8, <4>2 DEF NextStage, Applied, Evaluate
      <4> QED BY <4>1, <4>2
    <3> HIDE DEF Value, known, values, args, node
    <3> QED BY <3>2, <3>9, <3>10
  <2> QED BY <2>2, <2>3, <2>4
<1>2. Wrong = {}
  <2> SUFFICES ASSUME Wrong # {} PROVE FALSE
    OBVIOUS
  <2>1. PICK n \in Wrong : \A m \in Wrong : n <= m
    <3>1. Wrong \subseteq Nat
      OBVIOUS
    <3> HIDE DEF Wrong
    <3> QED BY <3>1, LeastNumber
  <2>2. PICK v \in SUBSET Cells, c \in Cells : Left(v) = n /\ ~Meant(v, c)
    OBVIOUS
  <2>3. \A w \in SUBSET Cells, d \in Cells : Left(w) < Left(v) => Meant(w, d)
    <3> SUFFICES ASSUME NEW w \in SUBSET Cells, NEW d \in Cells, Left(w) < Left(v), ~Meant(w, d)
                 PROVE  FALSE
      OBVIOUS
    <3>1. Left(w) \in Nat /\ Left(v) \in Nat
      BY <1>0
    <3> HIDE DEF Left, Meant
    <3>2. Left(w) \in Wrong
      BY <3>1
    <3> QED BY <2>1, <2>2, <3>1, <3>2
  <2>4. Value(v)[c].kind # "error"
    BY <2>2
  <2> HIDE DEF Meant, Left, Value
  <2> QED BY <1>1, <2>2, <2>3, <2>4
<1>3. ASSUME NEW v \in SUBSET Cells, NEW c \in Cells PROVE Meant(v, c)
  <2>1. Left(v) \in Nat
    BY <1>0
  <2> HIDE DEF Meant, Left
  <2> QED BY <1>2, <2>1
<1> QED BY <1>3

\* So does the meaning of a cell that a request asks for.
LEMMA TargetIsMeant ==
  ASSUME WorkbookTypeOK, NEW over, NEW t \in Cells, t \notin DOMAIN over,
         Target(t, over) # NoValue, Target(t, over).kind = "number"
  PROVE  /\ t \in DOMAIN Meaning(over)[Cardinality(Cells) + 1]
         /\ Target(t, over) = Meaning(over)[Cardinality(Cells) + 1][t]
<1> DEFINE N == Cardinality(Cells)
           known == Meaning(over)[N]
           meant == Meaning(over)[N + 1]
           value == CellValue(over)[{}]
           args == Operands(book[t].node)
           values == [i \in DOMAIN args |-> value[args[i]]]
<1> SUFFICES t \in DOMAIN meant /\ Target(t, over) = meant[t]
  OBVIOUS
<1>1. \A c \in Cells : value[c].kind # "error" => c \in DOMAIN known /\ known[c] = value[c]
  <2>1. {} \in SUBSET Cells /\ Cells \ {} = Cells
    OBVIOUS
  <2>2. \A v \in SUBSET Cells, c \in Cells :
          CellValue(over)[v][c].kind # "error" =>
            /\ c \in DOMAIN Meaning(over)[Cardinality(Cells \ v)]
            /\ Meaning(over)[Cardinality(Cells \ v)][c] = CellValue(over)[v][c]
    BY ValueIsMeant
  <2> QED BY <2>1, <2>2
<1>2. meant = NextStage(known) /\ Founded(over, known) /\ Grown(known, meant)
  <2>1. N \in Nat /\ N \in Stages /\ N + 1 \in Stages /\ N + 1 # 0 /\ N + 1 - 1 = N
    BY WorkbookConstantsOK, FS_CardinalityType DEF Stages
  <2> HIDE DEF N
  <2>2. meant = NextStage(known)
    <3>1. \A n \in Stages : Meaning(over)[n] = Stage(over, Meaning(over), n)
      BY StagesFound
    <3>2. meant = Stage(over, Meaning(over), N + 1)
      BY <2>1, <3>1
    <3>3. Stage(over, Meaning(over), N + 1) = NextStage(Meaning(over)[N + 1 - 1])
      BY <2>1 DEF Stage
    <3> QED BY <2>1, <3>2, <3>3
  <2>3. Founded(over, known)
    BY <2>1, StagesGrow
  <2> HIDE DEF known, meant
  <2> QED BY <2>2, <2>3, NextStageFounded
<1>3. book[t] # NoValue /\ book[t] \in Contents
  BY DEF Target, WorkbookTypeOK
<1>4. CASE book[t].node.op = "number"
  <2>1. Target(t, over) = value[t]
    BY <1>3, <1>4 DEF Target
  <2>2. value[t].kind # "error"
    BY <2>1
  <2> HIDE DEF value, known, meant
  <2> QED BY <1>1, <1>2, <2>1, <2>2 DEF Grown
<1>5. CASE book[t].node.op # "number"
  <2>1. Target(t, over) = Apply(book[t].node, values)
    BY <1>3, <1>5 DEF Target, Evaluate
  <2>2. \A i \in DOMAIN args : values[i].kind # "error"
    <3>1. Apply(book[t].node, values).kind # "error" /\ DOMAIN values = DOMAIN args
      BY <2>1
    <3> HIDE DEF values
    <3>2. \A i \in DOMAIN values : values[i].kind # "error"
      BY <1>3, <3>1, ErrorsPropagate
    <3> QED BY <3>1, <3>2
  <2>3. args = Operands(book[t].node) /\ \A i \in DOMAIN args : args[i] \in Cells
    BY <1>3, OperandsAreCells DEF Range
  <2> HIDE DEF value, known, meant, args
  <2>4. \A i \in DOMAIN args : args[i] \in DOMAIN known /\ known[args[i]] = values[i]
    BY <1>1, <2>2, <2>3
  <2>5. [i \in DOMAIN args |-> known[args[i]]] = values
    BY <2>4
  <2>6. Applied(known, t) = Apply(book[t].node, values)
    <3>1. Applied(known, t) = Apply(book[t].node, [i \in DOMAIN args |-> known[args[i]]])
      BY <2>3 DEF Applied
    <3> HIDE DEF values
    <3> QED BY <2>5, <3>1
  <2>7. t \in DOMAIN meant /\ meant[t] = Applied(known, t)
    <3>1. CASE t \in DOMAIN known
      BY <1>2, <1>3, <3>1 DEF Founded, Grown
    <3>2. CASE t \notin DOMAIN known
      <4>1. Range(args) \subseteq DOMAIN known
        BY <2>4 DEF Range
      <4> QED BY <1>2, <2>3, <3>2, <4>1 DEF NextStage, Applied, Evaluate
    <3> QED BY <3>1, <3>2
  <2> HIDE DEF values
  <2> QED BY <2>1, <2>6, <2>7
<1> QED BY <1>4, <1>5

-----------------------------------------------------------------------------
\* What calculate() returned is of the workbook as it still is, and a numeric
\* result that is called ready was ready when it was judged.
OutcomeStands ==
  calculation # NoValue =>
    \E targets \in SUBSET Cells :
      \/ \E over \in Overrides : calculation = Outcome(targets, over)
      \/ ~calculation.engine /\ ~calculation.verified /\ DOMAIN calculation.cells = targets

ReadyWasReady ==
  ReadyNumbers =>
    /\ calculation # NoValue /\ calculation.engine /\ StaleTargets = {}
    /\ ~calculation.verified => calculation.reasons = {} /\ readiness.status = "UNVERIFIED"

WorkbookInv == WorkbookTypeOK /\ OutcomeStands /\ ReadyWasReady

\* What is made of a workbook does not change while it does not.
LEMMA OperandsKept ==
  ASSUME book' = book, NEW node PROVE Operands(node)' = Operands(node)
<1>1. \A first, last : InRange(first, last)' = InRange(first, last)
  BY DEF InRange
<1> QED BY <1>1 DEF Operands

LEMMA EvaluateKept ==
  ASSUME book' = book, NEW node, NEW value PROVE Evaluate(node, value)' = Evaluate(node, value)
BY OperandsKept DEF Evaluate

LEMMA CellValueKept ==
  ASSUME book' = book, NEW over PROVE CellValue(over)' = CellValue(over)
BY EvaluateKept DEF CellValue

LEMMA TrailKept ==
  ASSUME book' = book, NEW t, NEW over PROVE Trail(t, over)' = Trail(t, over)
BY SMTT(20) DEF Trail, Follow, Operands, InRange, Range

LEMMA OutcomeKept ==
  ASSUME book' = book, NEW targets, NEW over PROVE Outcome(targets, over)' = Outcome(targets, over)
<1>1. \A t : Target(t, over)' = Target(t, over)
  BY EvaluateKept, CellValueKept DEF Target
<1>2. \A t : CachedOf(t)' = CachedOf(t)
  BY DEF CachedOf
<1>3. \A t, value : Matches(t, value)' = Matches(t, value)
  BY <1>2 DEF Matches
<1>4. \A op : Depends(targets, over, op)' <=> Depends(targets, over, op)
  BY TrailKept DEF Depends
<1>5. Outcome(targets, over)'.cells = Outcome(targets, over).cells
  BY <1>1, <1>2, <1>3 DEF Outcome
<1>6. WhyNot(targets, over)' = WhyNot(targets, over)
  BY <1>1, <1>4 DEF WhyNot
<1>7. Outcome(targets, over)'.verified = Outcome(targets, over).verified
  BY <1>1, <1>6 DEF Outcome
<1> QED BY <1>5, <1>6, <1>7 DEF Outcome

LEMMA WorkbookStepInv ==
  ASSUME WorkbookInv, [WorkbookNext]_workbookVars PROVE WorkbookInv'
<1> USE WorkbookConstantsOK DEF WorkbookInv
<1>1. ASSUME NEW c \in Cells, NEW content \in Contents, EnterCell(c, content) PROVE WorkbookInv'
  <2>1. WorkbookTypeOK'
    BY <1>1 DEF EnterCell, WorkbookTypeOK
  <2>2. OutcomeStands' /\ ReadyWasReady'
    BY <1>1 DEF EnterCell, OutcomeStands, ReadyWasReady, ReadyNumbers
  <2> QED BY <2>1, <2>2
<1>2. ASSUME NEW targets \in SUBSET Cells, CalculateWithoutEngine(targets) PROVE WorkbookInv'
  <2>1. /\ ~calculation'.engine /\ ~calculation'.verified /\ DOMAIN calculation'.cells = targets
        /\ calculation = NoValue /\ readiness' = readiness /\ UNCHANGED <<book, entries>>
    BY <1>2 DEF CalculateWithoutEngine
  <2>2. WorkbookTypeOK'
    BY <1>2, <2>1 DEF CalculateWithoutEngine, WorkbookTypeOK
  <2>3. OutcomeStands'
    BY <2>1 DEF OutcomeStands
  <2>4. ReadyWasReady'
    BY <2>1 DEF ReadyWasReady, ReadyNumbers
  <2> QED BY <2>2, <2>3, <2>4
<1>3. ASSUME NEW targets \in SUBSET Cells, NEW over \in Overrides, Calculate(targets, over)
      PROVE  WorkbookInv'
  <2>1. /\ calculation' = Outcome(targets, over) /\ calculation = NoValue
        /\ readiness' = readiness /\ UNCHANGED <<book, entries>>
    BY <1>3 DEF Calculate
  <2>2. /\ DOMAIN calculation'.cells = targets /\ calculation'.engine = TRUE
        /\ calculation'.verified \in BOOLEAN
    BY <2>1 DEF Outcome
  <2>3. WorkbookTypeOK'
    BY <2>1, <2>2 DEF WorkbookTypeOK
  <2>4. Outcome(targets, over)' = Outcome(targets, over)
    BY <2>1, OutcomeKept
  <2>5. OutcomeStands'
    BY <2>1, <2>4 DEF OutcomeStands
  <2>6. ReadyWasReady'
    BY <2>1 DEF ReadyWasReady, ReadyNumbers
  <2> QED BY <2>3, <2>5, <2>6
<1>4. ASSUME NEW numeric \in BOOLEAN, NEW declared, Judge(numeric, declared) PROVE WorkbookInv'
  <2>1. /\ readiness' = [numeric |-> numeric,
                         status |-> IF numeric THEN CalculationStatus ELSE "NOT_APPLICABLE",
                         ready |-> IF numeric THEN NumericReady(declared)
                                   ELSE declared = "NOT_APPLICABLE"]
        /\ UNCHANGED <<book, entries, calculation>>
    BY <1>4 DEF Judge
  <2>2. /\ readiness'.ready \in BOOLEAN /\ readiness'.numeric = numeric
        /\ readiness'.status \in {"VERIFIED", "UNVERIFIED", "NOT_APPLICABLE"}
    BY <2>1 DEF NumericReady, CalculationStatus
  <2>3. WorkbookTypeOK'
    BY <2>1, <2>2 DEF WorkbookTypeOK
  <2>4. OutcomeStands'
    BY <2>1, OutcomeKept DEF OutcomeStands
  <2>5. ReadyWasReady'
    BY <2>1 DEF ReadyWasReady, ReadyNumbers, NumericReady, CalculationStatus, StaleTargets
  <2> QED BY <2>3, <2>4, <2>5
<1>5. CASE UNCHANGED workbookVars
  <2>1. UNCHANGED <<book, entries, calculation, readiness>>
    BY <1>5 DEF workbookVars
  <2>2. WorkbookTypeOK' /\ ReadyWasReady'
    BY <2>1 DEF WorkbookTypeOK, ReadyWasReady, ReadyNumbers, StaleTargets
  <2>3. OutcomeStands'
    BY <2>1, OutcomeKept DEF OutcomeStands
  <2> QED BY <2>2, <2>3
<1> QED BY <1>1, <1>2, <1>3, <1>4, <1>5 DEF WorkbookNext

\* In a state of the invariant, what is called ready was recalculated.
LEMMA ReadyFromInv == ASSUME WorkbookInv PROVE ReadyIsRecalculated
<1> SUFFICES ASSUME ReadyNumbers, NEW t \in DOMAIN calculation.cells \ DOMAIN calculation.over
             PROVE  /\ IF calculation.cells[t].value = NoValue
                       THEN readiness.status = "UNVERIFIED"
                       ELSE calculation.cells[t].value.kind = "number" =>
                              /\ t \in DOMAIN Meaning(calculation.over)[Cardinality(Cells) + 1]
                              /\ calculation.cells[t].value =
                                   Meaning(calculation.over)[Cardinality(Cells) + 1][t]
                              /\ calculation.cells[t].cached \in {NoValue, calculation.cells[t].value.value}
                    /\ \A c \in Trail(t, calculation.over) :
                         book[c].node.op \notin {"external", "unsupported"}
  BY DEF ReadyIsRecalculated
<1>1. /\ WorkbookTypeOK /\ calculation # NoValue /\ calculation.engine /\ StaleTargets = {}
      /\ ~calculation.verified => calculation.reasons = {} /\ readiness.status = "UNVERIFIED"
  BY DEF WorkbookInv, ReadyWasReady
<1>2. PICK targets \in SUBSET Cells, over \in Overrides : calculation = Outcome(targets, over)
  BY <1>1 DEF WorkbookInv, OutcomeStands
<1>3. calculation.over = over /\ t \in targets /\ t \in Cells /\ t \notin DOMAIN over
  BY <1>2 DEF Outcome
<1>4. /\ calculation.cells[t].value = Target(t, over) /\ calculation.cells[t].cached = CachedOf(t)
      /\ calculation.cells[t].matches = Matches(t, Target(t, over))
      /\ calculation.reasons = WhyNot(targets, over)
      /\ calculation.verified => /\ WhyNot(targets, over) = {}
                                 /\ \A s \in targets : StatusOf(Target(s, over)) = "COMPUTED"
  BY <1>2, <1>3 DEF Outcome
<1>5. ~Depends(targets, over, "external") /\ ~Depends(targets, over, "unsupported")
  BY <1>1, <1>4 DEF WhyNot
<1>6. ASSUME Target(t, over) = NoValue PROVE readiness.status = "UNVERIFIED"
  <2>1. StatusOf(Target(t, over)) # "COMPUTED"
    BY <1>6 DEF StatusOf
  <2>2. ~calculation.verified
    BY <1>3, <1>4, <2>1
  <2> QED BY <1>1, <2>2
<1>7. ASSUME Target(t, over) # NoValue, Target(t, over).kind = "number"
      PROVE  /\ t \in DOMAIN Meaning(over)[Cardinality(Cells) + 1]
             /\ Target(t, over) = Meaning(over)[Cardinality(Cells) + 1][t]
             /\ CachedOf(t) \in {NoValue, Target(t, over).value}
  <2>1. Matches(t, Target(t, over)) # "no"
    <3>1. t \in DOMAIN calculation.cells
      OBVIOUS
    <3> QED BY <1>1, <1>4, <3>1 DEF StaleTargets
  <2>2. CachedOf(t) \in {NoValue, Target(t, over).value}
    BY <1>7, <2>1 DEF Matches
  <2> QED BY <1>1, <1>3, <1>7, <2>2, TargetIsMeant
<1>8. ASSUME NEW c \in Trail(t, over)
      PROVE  book[c].node.op \notin {"external", "unsupported"}
  BY <1>3, <1>5, <1>8 DEF Depends
<1> QED BY <1>3, <1>4, <1>6, <1>7, <1>8

LEMMA WorkbookInitInv == WorkbookInit => WorkbookInv
BY WorkbookConstantsOK
   DEF WorkbookInit, WorkbookInv, WorkbookTypeOK, OutcomeStands, ReadyWasReady, ReadyNumbers

\* The inductive invariant holds in every reachable state of calc.ts.
THEOREM WorkbookInvariant == WorkbookSpec => []WorkbookInv
<1> QED BY WorkbookInitInv, WorkbookStepInv, PTL DEF WorkbookSpec

\* Whatever formulas refer to one another, also in circles, and whatever is put
\* over cells: a number that calculate() gives and numericReadiness() calls
\* ready is the one the formulas determine, and a target without a value leaves the
\* status UNVERIFIED.
THEOREM ReadyIsRecalculatedAlways == WorkbookSpec => []ReadyIsRecalculated
<1>1. WorkbookInv => ReadyIsRecalculated
  BY ReadyFromInv
<1> QED BY <1>1, WorkbookInvariant, PTL
=============================================================================
