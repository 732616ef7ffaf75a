---------------------------- MODULE DocumentJobs ----------------------------
(***************************************************************************)
(* Document jobs: packages/documents/src/jobs.ts over the tables of        *)
(* contracts/storage/documents.sql.  A job runs through its own states,    *)
(* its instructions are revised by client messages, workers start attempts *)
(* and record results, and a source that changes expires what was derived  *)
(* from it.  The document verifier judges a result (decideDocumentReadiness *)
(* of packages/document-verifier) and awards READY in a later call.        *)
(*                                                                         *)
(* A job stands for one (project, request, operation).  The budget, events *)
(* and the outbox are left out; attempts keep only what checkAttempt reads.*)
(***************************************************************************)
EXTENDS Integers, FiniteSets

CONSTANTS
  Jobs, Versions,      \* document jobs and source document versions
  Results, ResultJob,  \* result ids and the job each is recorded for
  Sources,             \* Sources[r]: the versions result r was derived from
  Questions, QuestionJob,
  NoResult,
  MaxRevision,         \* bound on instruction revisions
  MaxVersion,          \* bound on a job's state_version
  MaxAttempts          \* bound on attempts per job

ASSUME DocConstantsOK ==
  /\ ResultJob \in [Results -> Jobs]
  /\ Sources \in [Results -> SUBSET Versions]
  /\ QuestionJob \in [Questions -> Jobs]
  /\ NoResult \notin Results
  /\ MaxRevision \in Nat \ {0} /\ MaxVersion \in Nat \ {0} /\ MaxAttempts \in Nat

VARIABLES
  state, version, revision, bound,  \* the job row; bound is its result_id
  attempts, running,   \* attempts as <<job, epoch, revision>>, and those RUNNING
  recorded,            \* recorded[r]: the revision r was recorded under, 0 if not
  expired,             \* the dependencies <<version, result>> with invalidated_at
  status, askedAt,     \* of each question: status, and the revision it is bound to
  verdict              \* the verifier's latest judgement: << >> or <<r, version>>

jobVars == <<state, version, revision, bound>>
questionVars == <<status, askedAt>>
docVars == <<jobVars, attempts, running, recorded, expired, questionVars, verdict>>

JobStates == {"RECEIVED", "PROCESSING", "NEEDS_CLARIFICATION", "VERIFYING", "READY",
              "PARTIAL", "BLOCKED", "PAUSED", "CANCELLED", "FAILED", "STALE"}

TRANSITIONS ==
  {"RECEIVED"} \X {"PROCESSING", "BLOCKED", "PAUSED", "CANCELLED"}
  \cup {"PROCESSING"} \X {"NEEDS_CLARIFICATION", "VERIFYING", "PARTIAL", "BLOCKED",
                          "PAUSED", "CANCELLED", "FAILED"}
  \cup {"NEEDS_CLARIFICATION"} \X {"PROCESSING", "PAUSED", "CANCELLED"}
  \cup {"VERIFYING"} \X {"READY", "PARTIAL", "PROCESSING", "BLOCKED", "PAUSED",
                         "CANCELLED", "FAILED"}
  \cup {"READY", "PARTIAL"} \X {"STALE"}
  \cup {"BLOCKED", "PAUSED"} \X {"PROCESSING", "CANCELLED"}

Delivered == {"READY", "PARTIAL"}
Attempts == Jobs \X (1..MaxAttempts) \X (1..MaxRevision)

DocTypeOK ==
  /\ state \in [Jobs -> JobStates \cup {"NONE"}]
  /\ version \in [Jobs -> 0..MaxVersion]
  /\ revision \in [Jobs -> 0..MaxRevision]
  /\ bound \in [Jobs -> Results \cup {NoResult}]
  /\ \A j \in Jobs : /\ state[j] = "NONE" <=> version[j] = 0
                     /\ state[j] = "NONE" <=> revision[j] = 0
  /\ attempts \subseteq Attempts
  /\ running \subseteq attempts
  /\ recorded \in [Results -> 0..MaxRevision]
  /\ expired \subseteq Versions \X Results
  /\ status \in [Questions -> {"ABSENT", "OPEN", "ANSWERED", "SUPERSEDED"}]
  /\ askedAt \in [Questions -> 0..MaxRevision]
  /\ verdict \in [Jobs -> {<< >>} \cup (Results \X (1..MaxVersion))]

DocInit ==
  /\ state = [j \in Jobs |-> "NONE"]
  /\ version = [j \in Jobs |-> 0]
  /\ revision = [j \in Jobs |-> 0]
  /\ bound = [j \in Jobs |-> NoResult]
  /\ attempts = {} /\ running = {}
  /\ recorded = [r \in Results |-> 0]
  /\ expired = {}
  /\ status = [q \in Questions |-> "ABSENT"]
  /\ askedAt = [q \in Questions |-> 0]
  /\ verdict = [j \in Jobs |-> << >>]

Known(j) == state[j] # "NONE"
RecordedFor(j) == {r \in Results : ResultJob[r] = j /\ recorded[r] > 0}
isCurrent(r) == \A v \in Versions : <<v, r>> \notin expired
OpenOf(j) == {q \in Questions : QuestionJob[q] = j /\ status[q] = "OPEN"}

-----------------------------------------------------------------------------
(* The job row.                                                             *)

createAtZero(j) ==
  /\ ~Known(j)
  /\ state' = [state EXCEPT ![j] = "RECEIVED"]
  /\ revision' = [revision EXCEPT ![j] = 1]
  /\ UNCHANGED <<version, bound, attempts, running, recorded, expired, questionVars, verdict>>
\* create: a repeated request finds the existing job and changes nothing.
create(j) ==
  /\ ~Known(j)
  /\ state' = [state EXCEPT ![j] = "RECEIVED"]
  /\ version' = [version EXCEPT ![j] = 1]
  /\ revision' = [revision EXCEPT ![j] = 1]
  /\ UNCHANGED <<bound, attempts, running, recorded, expired, questionVars, verdict>>

\* The compare-and-swap, expected being the version the caller read.
Swap(j, expected, target, result) ==
  /\ <<state[j], target>> \in TRANSITIONS
  /\ version[j] = expected /\ version[j] < MaxVersion
  /\ result \in RecordedFor(j) \cup {NoResult}
  /\ state' = [state EXCEPT ![j] = target]
  /\ version' = [version EXCEPT ![j] = @ + 1]
  /\ bound' = [bound EXCEPT ![j] = result]
  /\ UNCHANGED <<revision, attempts, running, recorded, expired, questionVars, verdict>>

\* transition by anyone but the verifier: READY is refused, and the result
\* is kept, cleared or replaced by one the foreign key finds for this job.
transition(j) ==
  \E target \in JobStates \ {"READY"}, result \in RecordedFor(j) \cup {NoResult, bound[j]} :
    Swap(j, version[j], target, result)

\* decideDocumentReadiness: the verdict is about a result of the job's present
\* revision and remembers the row it was about.  Whether a dependency of the
\* result was invalidated is not looked at.
judge(j) ==
  \E r \in RecordedFor(j) :
    /\ state[j] = "VERIFYING"
    /\ recorded[r] = revision[j]
    /\ verdict' = [verdict EXCEPT ![j] = <<r, version[j]>>]
    /\ UNCHANGED <<jobVars, attempts, running, recorded, expired, questionVars>>

\* transition to READY by the verifier, with the row its verdict was about.
awardOnPresentRow(j) ==
  /\ verdict[j] # << >>
  /\ Swap(j, version[j], "READY", verdict[j][1])
award(j) ==
  /\ verdict[j] # << >>
  /\ Swap(j, verdict[j][2], "READY", verdict[j][1])

\* Every running attempt is revoked, an open question is superseded.
FenceNothing(j) == running' = running
Fence(j) == running' = {t \in running : t[1] # j}
SupersedeNothing(j) == status' = status
Supersede(j) ==
  status' = [q \in Questions |-> IF q \in OpenOf(j) THEN "SUPERSEDED" ELSE status[q]]

reviseInstructions(j) ==
  /\ Known(j) /\ version[j] < MaxVersion /\ revision[j] < MaxRevision
  /\ revision' = [revision EXCEPT ![j] = @ + 1]
  /\ version' = [version EXCEPT ![j] = @ + 1]
  /\ Fence(j) /\ Supersede(j)
  /\ UNCHANGED <<state, bound, attempts, recorded, expired, askedAt, verdict>>

-----------------------------------------------------------------------------
(* Attempts, questions and results.                                         *)

\* lease_epoch is one more than the largest of the job.
startAttempt(j) ==
  \E epoch \in 1..MaxAttempts :
    /\ Known(j)
    /\ \A t \in attempts : t[1] = j => t[2] < epoch
    /\ epoch = 1 \/ \E t \in attempts : t[1] = j /\ t[2] = epoch - 1
    /\ attempts' = attempts \cup {<<j, epoch, revision[j]>>}
    /\ running' = running \cup {<<j, epoch, revision[j]>>}
    /\ UNCHANGED <<jobVars, recorded, expired, questionVars, verdict>>

\* What checkAttempt answers a worker that returns under its own revision.
checkAttempt(t) == t \in running /\ revision[t[1]] = t[3]

\* The check of askQuestion and the unique index behind it.
NoOpenQuestion(j) == OpenOf(j) = {}

askQuestion(q) ==
  LET j == QuestionJob[q] IN
  /\ status[q] = "ABSENT" /\ Known(j) /\ NoOpenQuestion(j)
  /\ status' = [status EXCEPT ![q] = "OPEN"]
  /\ askedAt' = [askedAt EXCEPT ![q] = revision[j]]
  /\ UNCHANGED <<jobVars, attempts, running, recorded, expired, verdict>>

answerQuestion(q) ==
  /\ status[q] = "OPEN" /\ askedAt[q] = revision[QuestionJob[q]]
  /\ status' = [status EXCEPT ![q] = "ANSWERED"]
  /\ UNCHANGED <<jobVars, attempts, running, recorded, expired, askedAt, verdict>>

\* recordResult looks at nothing but the keys: the writer names the revision
\* it worked under, the present one or an earlier one.
recordResult(r) ==
  /\ recorded[r] = 0
  /\ \E n \in 1..revision[ResultJob[r]] : recorded' = [recorded EXCEPT ![r] = n]
  /\ UNCHANGED <<jobVars, attempts, running, expired, questionVars, verdict>>

-----------------------------------------------------------------------------
(* A source version was revised: the results derived from it expire, and    *)
(* the jobs that delivered become STALE.                                    *)

Derived(v) == {r \in Results : recorded[r] > 0 /\ v \in Sources[r] /\ <<v, r>> \notin expired}
Staled(v) == {j \in Jobs : state[j] \in Delivered /\ \E r \in Derived(v) : ResultJob[r] = j}

invalidateDerived(v) ==
  /\ \A j \in Staled(v) : version[j] < MaxVersion
  /\ expired' = expired \cup ({v} \X Derived(v))
  /\ state' = [j \in Jobs |-> IF j \in Staled(v) THEN "STALE" ELSE state[j]]
  /\ version' = [j \in Jobs |-> IF j \in Staled(v) THEN version[j] + 1 ELSE version[j]]
  /\ UNCHANGED <<revision, bound, attempts, running, recorded, questionVars, verdict>>

DocNext ==
  \/ \E j \in Jobs : \/ create(j) \/ transition(j) \/ judge(j) \/ award(j)
                     \/ reviseInstructions(j) \/ startAttempt(j)
  \/ \E q \in Questions : askQuestion(q) \/ answerQuestion(q)
  \/ \E r \in Results : recordResult(r)
  \/ \E v \in Versions : invalidateDerived(v)

DocSpec == DocInit /\ [][DocNext]_docVars

-----------------------------------------------------------------------------
(* Properties.                                                              *)

\* An attempt is RUNNING only while the job's instructions are those it began
\* under: revising fences "every attempt started against the old one"
\* (jobs.ts:125), so that checkAttempt never has a RUNNING attempt to refuse.
RunningAttemptsCurrent == \A t \in running : checkAttempt(t)

\* A job has one open question at most, and it was asked about the present
\* instructions, so that no answer is applied to an older revision.
OpenQuestionIsCurrent ==
  \A j \in Jobs : /\ \A q \in OpenOf(j) : askedAt[q] = revision[j]
                  /\ \A q1, q2 \in OpenOf(j) : q1 = q2

\* READY is awarded on the row the verdict was about: the result carried into
\* READY was recorded under the instructions in force at that moment, though
\* the verdict and the award are two calls (jobs.ts:102).
AwardOnJudgedRow ==
  [][\A j \in Jobs : state[j] # "READY" /\ state'[j] = "READY" =>
       /\ bound'[j] \in RecordedFor(j)
       /\ recorded[bound'[j]] = revision'[j]]_docVars

\* A job that stays READY or PARTIAL keeps its result, and a result that expires
\* makes its job STALE in the same step (jobs.ts:253): no reader sees a delivered
\* job lose its result's currency, only one that had none when it was delivered.
ExpiryMarksStale ==
  [][\A j \in Jobs : state[j] \in Delivered /\ state'[j] = state[j]
       => /\ bound'[j] = bound[j]
          /\ bound[j] # NoResult /\ isCurrent(bound[j]) => isCurrent(bound[j])']_docVars

\* A job that is READY presents a current result: "A new version of a source
\* marks everything derived from the old one stale" (jobs.ts:251).  The code
\* does not keep this: a source may be revised before the award, which does not
\* change the version of a VERIFYING job, and neither the verdict nor the award
\* looks at the dependencies.
ReadyIsCurrent ==
  \A j \in Jobs : state[j] = "READY" => bound[j] \in Results /\ isCurrent(bound[j])
=============================================================================
