------------------------------ MODULE Delivery ------------------------------
(***************************************************************************)
(* Who does what for a run, and how often it is repaired: the plan of      *)
(* responsibilities (packages/core/src/company.ts, router.ts), the claim   *)
(* of the integration, the repair cycles and the review of a diff          *)
(* (router.ts).  Attempts work at the same time and ask the controller in  *)
(* any order, more than once, each call one transaction.  Nothing checks   *)
(* that the attempt a call names is of the run it names, or known at all.  *)
(***************************************************************************)
EXTENDS Naturals, Sequences, FiniteSets

CONSTANTS
  Runs, Attempts, Known,         \* attempts a caller may name, those in task_attempts
  RunOf, TaskOf, NoAttempt,      \* the run and task of each, and a plan without one
  ByHand,      \* plans asked for without planWork: [run, task, attempt, tier, list]
  Shapes,      \* work shapes: [high, data : BOOLEAN, stacks : 1 .. 2, documents : BOOLEAN]
  Diagnoses, NoEvidence, Evidences,
  MaxRepairs,  \* DISPATCH_LIMITS.maximum_repair_cycles
  MaxCycles    \* bound: rows of repair_cycles of a task

WorkTasks == {TaskOf[a] : a \in Attempts}

Responsibilities ==
  {"engineering", "quality", "design", "documentation", "architecture", "security",
   "reliability", "product", "integration"}

ASSUME DeliveryConstantsOK ==
  /\ RunOf \in [Attempts -> Runs] /\ Known \subseteq Attempts /\ NoAttempt \notin Attempts
  /\ \A p \in ByHand : p.run \in Runs /\ p.attempt \in Attempts \cup {NoAttempt}
                       /\ p.list \subseteq Responsibilities
  /\ NoEvidence \in Evidences
  /\ MaxRepairs \in Nat /\ MaxCycles \in Nat

VARIABLES
  assigned,  \* rows of responsibility_assignments
  truthful,  \* every answer of planResponsibilities was on record
  owned,     \* <<run, attempt>> claimIntegration answered owned
  cycles     \* rows of repair_cycles of each task, in order

deliveryVars == <<assigned, truthful, owned, cycles>>

DeliveryTypeOK ==
  /\ truthful \in BOOLEAN
  /\ \A row \in assigned : row.run \in Runs /\ row.attempt \in Attempts \cup {NoAttempt}
                           /\ row.what \in Responsibilities /\ row.review \in BOOLEAN
  /\ \A row, other \in assigned :
       row.run = other.run /\ row.task = other.task /\ row.what = other.what => row = other
  /\ owned \subseteq Runs \X Attempts
  /\ \A t \in WorkTasks : Len(cycles[t]) <= MaxCycles

DeliveryInit ==
  /\ assigned = {} /\ truthful = TRUE /\ owned = {}
  /\ cycles = [t \in WorkTasks |-> <<>>]

-----------------------------------------------------------------------------
(* Responsibilities *)

\* assessRisk: money, access, an irreversible change or a high-risk surface;
\* then several stacks or a data surface.
AssessRisk(work) ==
  CASE work.high -> "high" [] work.stacks > 1 \/ work.data -> "moderate" [] OTHER -> "low"

\* TIER_RESPONSIBILITIES.
TierResponsibilities(tier) ==
  CASE tier = "low" -> {"engineering", "quality"}
    [] tier = "moderate" -> {"engineering", "quality", "design", "documentation"}
    [] OTHER -> {"architecture", "engineering", "quality", "security", "reliability",
                 "product", "documentation"}

\* planWork: documents alone need no reliability.
PlanWork(work) ==
  TierResponsibilities(AssessRisk(work)) \ (IF work.documents THEN {"reliability"} ELSE {})

ReviewRequired(tier, what) ==
  tier # "low" /\ what \in {"security", "quality", "reliability", "architecture"}

\* A claim's row has the attempt's name in its key, asg_int_<attempt>.
Row(run, task, a, what, review, claimed) ==
  [run |-> run, task |-> task, attempt |-> a, what |-> what, review |-> review, claimed |-> claimed]

Taken(run, task, what) ==
  \E row \in assigned : row.run = run /\ row.task = task /\ row.what = what

\* INSERT OR IGNORE: a row of the same responsibility stays as it was, though
\* the answer says what was asked for.  Any list will do.
PlanResponsibilities(run, task, a, tier, responsibilities) ==
  LET asked == {Row(run, task, a, what, ReviewRequired(tier, what), FALSE) : what \in responsibilities} IN
  /\ assigned' = assigned \cup {row \in asked : ~Taken(row.run, row.task, row.what)}
  /\ truthful' = (truthful /\ asked \subseteq assigned')
  /\ UNCHANGED <<owned, cycles>>

IntegrationRows(run) == {row \in assigned : row.run = run /\ row.what = "integration"}

\* LIMIT 1 without an order: which of several rows is found is not said.
Integrators(run) == {row.attempt : row \in IntegrationRows(run)}

\* INSERT ... SELECT FROM task_attempts: the row is of the attempt's own run and
\* task, and UNIQUE (run, task, responsibility) may refuse it.  Of an attempt that
\* is not known there is none, and nothing says so.
InsertClaim(a) ==
  \/ a \notin Known /\ UNCHANGED assigned
  \/ /\ a \in Known /\ ~Taken(RunOf[a], TaskOf[a], "integration")
     /\ assigned' = assigned \cup {Row(RunOf[a], TaskOf[a], a, "integration", TRUE, TRUE)}

\* Whatever was claimed before.
ClaimWithoutLooking(run, a) ==
  /\ InsertClaim(a)
  /\ owned' = owned \cup {<<run, a>>}
  /\ UNCHANGED <<truthful, cycles>>

\* First claim wins.  The run asked about is looked up; the row inserted is the
\* attempt's, so a claim for another run answers owned and leaves that run free.
ClaimIntegration(run, a) ==
  /\ \/ /\ \E owner \in Integrators(run) :
             owned' = IF owner = a THEN owned \cup {<<run, a>>} ELSE owned
        /\ UNCHANGED assigned
     \/ /\ Integrators(run) = {}
        /\ InsertClaim(a) /\ owned' = owned \cup {<<run, a>>}
  /\ UNCHANGED <<truthful, cycles>>

\* integrationOwner().
IntegrationOwner(run) == Integrators(run)

-----------------------------------------------------------------------------
(* Review and repair *)

\* admissibleFindings: a blocking finding needs a reproduction.
Admissible(finding) == finding.severity = "blocking" /\ finding.reproduced

Repeats(task, diagnosis) == {i \in DOMAIN cycles[task] : cycles[task][i].diagnosis = diagnosis}

\* evaluateRepair: every cycle asked for is a row, a blocked one too.
RepairOutcome(task, diagnosis, evidence, late) ==
  CASE late -> "DEADLINE_PASSED"
    [] ~late /\ Len(cycles[task]) >= MaxRepairs -> "ATTEMPT_LIMIT"
    [] ~late /\ Len(cycles[task]) < MaxRepairs
       /\ Repeats(task, diagnosis) # {} /\ evidence = NoEvidence -> "REPEATED_DIAGNOSIS"
    [] OTHER -> "PROCEED"

EvaluateRepair(a, finding, diagnosis, evidence, late) ==
  LET t == TaskOf[a] IN
  /\ Admissible(finding) /\ Len(cycles[t]) < MaxCycles
  /\ cycles' = [cycles EXCEPT ![t] = Append(@,
       [diagnosis |-> diagnosis, evidence |-> evidence,
        outcome |-> RepairOutcome(t, diagnosis, evidence, late)])]
  /\ UNCHANGED <<assigned, truthful, owned>>

ReviewFindings == [severity : {"blocking", "minor"}, reproduced : BOOLEAN]

AssignNext ==
  \/ \E a \in Attempts :
       \/ \E work \in Shapes :
            PlanResponsibilities(RunOf[a], TaskOf[a], a, AssessRisk(work), PlanWork(work))
       \/ \E run \in Runs : ClaimIntegration(run, a)
  \/ \E p \in ByHand : PlanResponsibilities(p.run, p.task, p.attempt, p.tier, p.list)

RepairNext ==
  \E a \in Attempts, f \in ReviewFindings, d \in Diagnoses, e \in Evidences, late \in BOOLEAN :
    EvaluateRepair(a, f, d, e, late)

DeliveryNext == AssignNext \/ RepairNext

DeliverySpec == DeliveryInit /\ [][DeliveryNext]_deliveryVars

-----------------------------------------------------------------------------
(* Properties *)

\* A plan named an integrator of the run, or an attempt of the run was answered
\* that it owns another, and the row of that is of this one.
IntegrationPlanned(run) == \E row \in IntegrationRows(run) : ~row.claimed
ClaimedAcross(run) == \E claim \in owned : claim[1] # run /\ claim[2] \in Known /\ RunOf[claim[2]] = run

\* However attempts raced for the integration of a run and asked again, those of
\* other runs and unknown ones too, and whatever was planned for their tasks: an
\* attempt of the run that was answered owned is the owner on record, and the only
\* one, unless the run's integrator was planned or one of its attempts claimed
\* another run (router.ts:221, 234).
OneIntegrator ==
  \A claim \in owned :
    LET run == claim[1] IN
    claim[2] \in Known /\ RunOf[claim[2]] = run /\ ~IntegrationPlanned(run) /\ ~ClaimedAcross(run) =>
      IntegrationOwner(run) = {claim[2]}

\* Exactly one attempt integrates a run (router.ts:221).  An unknown attempt, or one
\* of another run, is answered owned, and no row of the run says so.
ExactlyOneIntegrates ==
  \A claim \in owned : IntegrationOwner(claim[1]) = {claim[2]}

\* At most MaxRepairs cycles of a task proceed, whichever attempts asked, and
\* one diagnosis proceeds again only with evidence (router.ts:186-187).
RepairsConverge ==
  \A t \in WorkTasks : \A i \in DOMAIN cycles[t] :
    cycles[t][i].outcome = "PROCEED" =>
      /\ i <= MaxRepairs
      /\ \A j \in 1 .. i - 1 :
           cycles[t][j].diagnosis = cycles[t][i].diagnosis => cycles[t][i].evidence # NoEvidence

\* What the planner is told is what the table says (router.ts:167-168).  A plan
\* of a higher tier over an earlier one is answered as if its rows were written.
PlannedIsRecorded == truthful
=============================================================================
