# Verification of the client-mode controller

TLA+ specifications of this repository's own state: the run lifecycle and its
leases, the budget, document jobs, the protected verifier, release, and the
components around them, from the state directory to the installer. TLC checks them
on small instances; TLAPS proves the theorems about the core for every value of
the constants. `PROJECT.json` lists, per definition, the source lines it stands for;
it also lists the runs, the faulty variants that show each property can fail, the
findings and the hazards.

    tlc -workers 2 -config MCLeases.cfg MCLeases.tla     # any pair from the tables
    tlapm LeasesProofs.tla                               # any *Proofs module

## 1. The system

One controller process owns the controller database (`state.sqlite`); the approval
authority, which release spends from, and the verifier keep databases of their own.
Every service method that touches a database is synchronous, so a method without an
`await` is one atomic step, and nothing else in the process runs during it.
Concurrency enters in six ways: workers and provider hosts run outside the process
and return results late; a caller reads a row and acts on it in a later call;
`deploy`, `rollback`, `runSmoke`, `reconcileUnknown` and `verify` await something
between two writes; HTTP requests are authenticated before their bodies arrive;
processes die and restart over their rows and files; the deployment destination, the
person who edits settings and whoever works in a tree act when they like.

| component | state it keeps | operations | what makes it correct |
|---|---|---|---|
| attempts, leases, fence (`packages/state`, `workspace/src/ownership.ts`, `integrate.ts`) | `task_attempts`, `workspace_leases` | create, claim, reassign, admit, claim a write scope, expire, fence a run, check a result | one writer per project; a result is accepted only from the attempt's current lease and inside its own scope |
| run lifecycle (`core/src/lifecycle.ts`, `contracts/state-machine.json`) | `runs`, `contracts`, `candidates`, `run_control_intents`, `client_questions` | transition, control, revise, seal, ask, answer | compare-and-swap on `state_version`; what was reviewed is what is deployed; new requirements fence old work |
| budget and router (`core/src/budget.ts`, `router.ts`, `company.ts`) | `budget_policies`, `budget_reservations`, `usage_events`, `responsibility_assignments`, `repair_cycles` | reserve, settle, bill, admit, plan, claim the integration, repair | the limit is never exceeded by an admission; a lead's children are bounded; one integrator; repairs converge |
| approval authority (`core/src/approvals.ts`) | `approval_requests`, `approval_decisions` | request, decide, authorize | one decision per request, by an actor who may take it |
| release (`packages/release`) | `approvals`, `deployments`, and the destination | consume, deploy, reconcile, smoke, rollback | an approval is spent once, and for the artifact it names |
| evidence (`verifier/src/evidence.ts`, `document-verifier`, `release/src/attestation.ts`) | issuer keys, trust rows, envelopes | seal, open, decide readiness, attest, check a promotion | a promotion rests on a passed, trusted verdict about that very candidate |
| verifier (`packages/verifier`) | `policy_versions`, `execution_definitions`, `verification_jobs`, `check_executions` | register, verify, decide readiness | a verdict rests on the definitions the policy froze, executed in that very call |
| document jobs (`documents/src/jobs.ts`) | `document_jobs`, attempts, questions, results, dependencies | create, transition, revise, attempt, ask, answer, record, invalidate | an award is of the row that was judged; revised sources make deliveries STALE |
| reading (`documents/src/{ingest,inventory,extract}.ts`) | uploaded versions, inventories, scopes, extracts | upload, inventory, select, extract, cover, cite | COMPLETE only when every selected unit was read from the stored bytes |
| editing and calculation (`documents/src/{edit,ooxml,pdf,calc}.ts`) | outputs, renders, the served artifact | edit, reopen, render, download, recalculate | no edit moves or drops what it did not name; no READY over a stale or unsupported number |
| database, events, outbox (`state/src/database.ts`, `apps/controller/src/events.ts`) | directory lock, `schema_migrations`, `events`, `outbox` | open, migrate, append, replay | a migration is applied once; the stream has no hole and no repetition |
| controller service (`apps/controller`) | sessions, questions, receipts | exchange, post, answer | an answer that was acknowledged stands, posted once or again |
| task ledger and handoff (`core/src/{tasks,handoff}.ts`) | `run_tasks`, host sessions | plan, claim, finish, block, brief | a session is briefed with what is unfinished |
| providers (`packages/providers`) | the child process of a run | detect, admit, start, read, abort, end | a clean end is reported only of a clean turn |
| packaging and `cm` setup (`packages/packaging`, `apps/cli/src/setup.ts`) | files, settings and records of a person's hosts | plan, apply, uninstall, upgrade, roll back | what was the person's is theirs again afterwards |
| workspace (`packages/workspace`, `verification-targets`) | trees, snapshots, candidates | walk, onboard, seal, observe, dispose | a manifest is a tree that existed |
| intake, context, stack grounding, service cases | documents computed from text; one row per case | render, classify | outside the model, see section 5 |
| browser, benchmark, qualification, observability, CLI, console pages, plugin | external programs and files | measure, show | outside the model, see section 5 |

How they interact: the lifecycle creates attempts and leases through `state` and
fences them when a run is cancelled or revised; the router admits an attempt only if
the budget takes its reservation; a worker's result comes back through
`checkIntegration`, which asks the fence; a sealed candidate goes to the verifier,
whose evidence satisfies the guard `current_authenticated_evidence`; a run awaiting
release approval is deployed by `release` under a spent approval; document jobs live
beside runs and share only the project and its budget; everything appends to the
event log that the console streams.

What is hard here: late results of fenced workers; the time between reading a row
and acting on it; overlapping calls that spend one grant, one key, one job or one
reservation; lost and late answers; crashes between two commits or two files;
deadlines that must end what they watch; trees and settings that change under the
code. `PROJECT.json` lists each at its line under `hazards`, with the property that
would catch it or the reason why there is none.

## 2. Modules

| module | models | abstraction |
|---|---|---|
| `Leases` | `leases.ts`, `recovery.ts`, `ownership.ts`, `integrate.ts`, the claim and reassign handlers of `lifecycle.ts`, the router's write to an attempt (`Admit`) | no clock: the sweep's input is the set of leases whose deadline has passed; a path is a value with a prefix order `Covers` |
| `Lifecycle` (extends `Leases`) | `lifecycle.ts`, `state-machine.json`, the constraints of table `runs` | a contract is its revision, a candidate the revision it was sealed for, 0 is NULL; events, outbox and messages are left out |
| `Ledger` | what a budget promises to each account that draws on it; abstract, no code of its own | sums, not rows |
| `Dispatch` (extends `Leases`) | `router.ts`, `budget.ts`, usage of `lifecycle.ts` and `jobs.ts` | a sum of rows is the entry of an account; all runs belong to one project |
| `DocumentJobs` | `documents/src/jobs.ts`, the facts `decideDocumentReadiness` reads | the verdict is one step; budget, events and outbox are left out |
| `Verification` | `policy.ts`, `coordinator.ts`, `executor.ts`, `verdict.ts` | statuses are PASSED or not; signing, timestamps and environment profiles are left out |
| `Release` | `release/src/approvals.ts`, `deploy.ts`, `smoke.ts`, `rollback.ts`, and the destination as the code uses it | the artifact an approval names stands for its candidate, digest and environment too, none of which it has to name; observations and audit rows are left out |
| `Authority` (extends `Release`) | `core/src/approvals.ts`: decide() statement by statement, with crashes between them | a scope is an action and an artifact |
| `Evidence` | `evidence.ts`, `document-verifier`, `verdict.ts`, `attestation.ts` | an envelope is what its signature binds |
| `StateStore` | `database.ts`, `events.ts`: the directory lock, migrations, transactions, event stream | a transaction is an optional effect that commits or rolls back |
| `Continuity` | `tasks.ts`, `handoff.ts` | a plan is a sequence of tasks; the run is its state, what may follow a constant |
| `Console` | `auth.ts`, `server.ts`, `routes.ts` and the service calls behind them | requests wait between authentication and body |
| `Delivery` | `company.ts`, the integration claim, repairs and reviews of `router.ts` | a work shape is four facts; lists asked for by hand are a constant |
| `Reading` | `ingest.ts`, `zip.ts`, `inventory.ts`, `extract.ts` | a file is the facts the checks read |
| `Editing` | `edit.ts`, `ooxml.ts` (DOCX), `pdf.ts`, `downloadArtifact()` | a text is a value with the figures found in it |
| `Workbook` | `calc.ts` on what `ooxml.ts` reads | a formula is one operation over cells; a column has a name and a place |
| `Providers` | `packages/providers` | an output line is what the adapters tell apart |
| `Packaging` | `install.ts`, `upgrade.ts` | a file is theirs, ours or absent; settings are a function on their keys |
| `Setup` | `cm install`, `cm uninstall` over several hosts, write by write | a setting is a key of a JSON or TOML file or a file of its own; the keys `cm` sets in one file stand for one value |
| `Workspace` | `snapshot.ts`, `onboard.ts`, `integrate.ts`, `verification-targets`, `cleanup.ts` | a file is a node with its bytes; git is external, its quoting of names left out |
| `LeasesProofs`, `LifecycleProofs`, `DispatchProofs`, `VerificationProofs` | theorems and proofs about the module of that name | |
| `ReleaseProofs` | proofs about `Release`, `Authority`, `Evidence` | |
| `DocumentsProofs` | proofs about `DocumentJobs`, `Editing`, `Reading` | |
| `ControllerProofs` | proofs about `StateStore`, `Console`, `Delivery`, `Continuity` | |
| `HostProofs` | proofs about `Packaging`, `Providers`, `Workspace`, `Setup` | |
| `MC*` | constants for TLC; `MCComponents` also picks one component per behaviour | |

Abstract specifications and their implementations:

- `Leases` is the abstract specification of exclusive writing. `Lifecycle` and
  `Dispatch` implement it with the same variables, so the refinement mapping is
  the identity. `LeaseSpec` is a property of the `lifecycle` run;
  `LifecycleImplementsLeases` and `DispatchImplementsLeases` prove both for all
  constants, and `EndedStaysFencedInLifecycle` carries a lease theorem over.
- `Ledger` is the abstract budget: a reservation is taken only while it, what is
  held and what was charged fit the limit; charges are never taken back. `Dispatch`
  implements it through `BudgetOf == INSTANCE Ledger WITH ...`, which maps the sums
  over a run's rows to the account's balance. `KeepsLedger` is a property of the
  `dispatch` run and the theorem `DispatchImplementsLedger`.

`Dispatch` composes admission, the leases it writes and the budget; `Authority`
composes the decision with the approvals `Release` spends, and takes the place of
`Release`'s action `Grant`. The other components meet only through values of a
finished step (a verdict, an approval, a snapshot), so each is a module of its own;
`MCComponents` explores them in one run, where a behaviour first picks a component.

Each variable is a table, a column, a file or the locals of a pending call; each
action is one handler up to its next `await` or, where a crash between two writes
matters, up to its next write, with its early returns as guards. A handler that
throws rolls its transaction back and is no step. Definitions named after what they
leave out (`AcquireWithoutIndex`, `UpdatedKeepsVersion`, `MigrateWithoutLooking`,
...) stand before the right one and are used only to show that a property notices
the fault.

Assumptions about callers, all of which the code leaves to them:

- `transition` writes what `bind` names, whatever the rule: `Lifecycle` lets a caller
  bind any recorded revision and any candidate sealed in this run. What is kept all the
  same is `ReviewKeepsCandidate`.
- Guards `lifecycle.ts` does not define are supplied by the deployment; the runs
  inject all of them and they may hold at any time.
- A request to the router repeats the parent and the depth its attempt's row has.
- In the passing `release` run a deployment key is used for one artifact
  (`Attested`). `release_key_reused` drops that assumption.
- In `DocumentJobs` the verifier judges a result, current or not, and later awards
  with the version it read when it judged. Anyone else may take every other transition.
- In `Verification` every definition's environment profile is registered.
- In `Editing` the caller keeps the outputs whose meaning check passes.

## 3. Runs

Passing runs. All of them are exhaustive within their bounds.

| run | instance | what it shows |
|---|---|---|
| `leases` | 3 attempts, 2 tasks, 2 runs, one project, 3 paths, 3 leases per attempt | every order of claims, admissions, reassignments, scope claims, sweeps and fencing: one active writer, superseded leases refused for good, accepted writes disjoint |
| `lifecycle` | 1 run, 1 attempt with 2 leases, 2 revisions, 6 row versions | refinement of `LeaseSpec`; while a run is in review only a transition whose caller binds another sealed candidate replaces what is reviewed; a revision in place fences all attempts and drops the candidate |
| `callers` | 1 run, one deferred caller, 2 questions, 1 revision, 4 row versions | what a caller decided on a row commits only on that row |
| `dispatch` | a lead with two children, 2 policies, one event of the run and one of a document, 2 reservations per attempt | refinement of `Ledger`; a lead's admitted children are bounded whatever was fenced and admitted again; an event is billed once |
| `documents` | 1 job, 2 results over 2 source versions, 2 questions, 2 attempts, 2 revisions, 6 row versions | revised instructions fence attempts and questions; an award is of the row that was judged |
| `verification` | 2 overlapping calls of one key, 2 candidates, 2 policies, 2 checks, 3 definitions | a verified candidate ran its policy's definitions; a COMPLETE job was earned; a call ends unless an escaped process holds its pipes |
| `release` | 2 keys, 2 artifacts, a deploy grant of one, an installation grant that names none, a rollback grant of the other, 2 overlapping calls | the destination performs nothing that the spent grant excludes, and nothing more often than grants were spent |
| `components` | thirteen components in sixteen scenes, one per behaviour, below | the safety properties of each |

The scenes of `components`. No two share state, so the state space is the sum of
theirs (about 930 000 states); `SceneView` leaves out what never changes in a scene.

| scene | instance | property |
|---|---|---|
| `store` | 3 processes, 2 of them exclusive, the reference schema, 2 events | `MigratedOnce`: racing openers and deaths apply each migration once, and who finished opening finds the whole schema. `StreamContinuous`: a client sees every event once and in order over reconnects, deaths and rollbacks |
| `continuity` | 2 tasks, 2 sessions, overlapping plans, a run that pauses, is verified and needs repair | `ResumesUnfinished`: of a run it tells of, the next briefing passes over no task without evidence, though sessions write late what they read before others wrote |
| `authority` | 1 request, 2 grants, an actor who may decide and one who may not | `DecisionsHold`: whatever statement decide() died after, request, decision, audit and approval agree on what was granted, and a deployment goes back to a request |
| `setup`, `options` | a host with a JSON key and a 1.x install, one with a file of its own, in a shared directory of skills; edits between read and write, comments that break the JSON, kills. `options` adds `--no-autonomy` for one host | `PersonsValueKept`: where our value stands, a record knows the person's but for the four ways of `lost`, and no other host loses what it has |
| `console` | 1 tab, 2 questions, 3 keys | `AnswersStand`: a question has one answer, and what a client was told is recorded has its rows |
| `workbook` | 3 cells in columns A, B and AA, ranges over them, targets that are not in the file | `ReadyIsRecalculated`: a READY number that is in the file is what the workbook means, evaluated the other way round, and rests on no external, unsupported or cyclic cell; one that is not makes the outcome UNVERIFIED |
| `reading` | 2 uploads of a sheet of three rows and a PDF, 2 rows per range, one death | `CompleteIsWhole`: COMPLETE coverage means every row or selected unit, read from the uploaded bytes; citations resolve to them |
| `editing` | 2 documents, 6 edits, chains of 2 | `ServedMeansSource`: what is served has the figures of its source in their order, and every block no edit named in its place |
| `evidence` | 1 issuer with 2 keys, 2 candidates, 1 envelope | `PromotionIsEvidenced`: no verdict rests on a key revoked before it, and what is promotable has a passing verdict at its revision |
| `providers` | a Claude and a Codex run of one attempt | `CompletedIsClean`: completion is never reported of a failed, cancelled or killed turn; `ended` comes once and last |
| `delivery` | 2 attempts of 2 tasks in one run, an attempt the table does not have, a second run, one shape and 3 plans by hand that name an integrator | `OneIntegrator`: an attempt of the run that was told it owns the integration is the only owner on record, unless the integrator was planned or an attempt of the run claimed another |
| `repair` | 3 attempts of 2 tasks, 2 cycles, one may proceed | the types; the repairs share no variable with the rest of `Delivery`, `RepairsConverge` is a theorem |
| `packaging`, `upgrade` | 1 file, 2 settings, ours among them, edits between read and write, kills between any two writes; 1 migration | `SettingsAreTheirs`: what the person set under another key is as they set it, until a write that was decided before; a successful upgrade left no migration out |
| `workspace` | 4 places, two differing in case and one in `bin/Debug`, 3 states of the index, 2 changes, at any time of a walk, one onboarding or candidate | `SnapshotIsTheTree`: a digest taken of a quiet tree is the tree's; an onboarding whose git status answered names every difference from HEAD but the kinds git or the code passes over; no snapshot names an excluded or colliding file or lists a link that leaves the root |

Runs that refute a sentence of the repository; each is a finding in `PROJECT.json`.

| run | sentence | what the code does |
|---|---|---|
| `release_key_reused` | `deploy.ts:72`, the approval names an artifact | a repeated key without an operation promotes another artifact |
| `shared_budget` | `docs/DOCUMENT_WORKFLOW.md:85`, no two independent balances | a run and a document job each reserve against a balance of their own |
| `replan` | `tasks.ts:53`, re-planning is additive | a plan that repeats a task leaves a gap in the numbers, and a later plan is refused |
| `quiet_change` | `edit.ts:7`, never shipping quietly | an edit drops paragraphs whose element has attributes, and the meaning check passes |

More sentences the code does not keep are stated in the modules, each with the line
it comes from. Those with a configuration are refuted by
`tlc -config <cfg>` of their module; the others by adding the invariant to
`MCComponents.cfg` with `Scenes` reduced to the scene.

| property | of | sentence | what the code does |
|---|---|---|---|
| `AcceptedFromItsLease` (`MCLeasesCurrent.cfg`) | `Leases` | `integrate.ts:34`, "only from a current lease" | a reviewer with two leases is accepted under the one that expired |
| `ReviewedRowFrozen` (`MCLifecycleBind.cfg`) | `Lifecycle` | `lifecycle.ts:34`, what is bound is still validated | only two guards look at it: a step from review to approval may take another sealed candidate |
| `NewRequirementsFence` (`MCLifecycleRevision.cfg`) | `Lifecycle` | `state-machine.json:347`, new requirements revoke leases | the transition from review to RUNNING takes the revision and fences nothing |
| `DeploysSpendTheirGrant` (`MCReleaseAction.cfg`) | `Release` | `approvals.ts:3`, scoped to one action and one artifact | `deploy()` spends a grant of any action, and one that names no artifact |
| `RolledBackStays` (`MCReleaseSmoke.cfg`) | `Release` | `state-machine.json:340`, unlisted transitions are rejected | probes that end late turn ROLLED_BACK into RELEASED |
| `ReadyIsCurrent` (`MCDocumentJobsReady.cfg`) | `DocumentJobs` | `jobs.ts:251`, a new version marks everything stale | a source revised before the verdict or between it and the award leaves READY with an expired result |
| `CallsEnd` (`MCVerificationEnd.cfg`) | `Verification` | `executor.ts:199`, the deadline reaches the whole tree | a process in another group holds the pipes and the call never ends |
| `DeniedHasNoGrant` | `Authority` | `docs/SECURITY_AND_RELEASE.md:120`, a denied request cannot become a grant | a death inside decide() leaves a grant of a request that may then be denied |
| `OneController` | `StateStore` | `database.ts:1`, single writer per state directory | two processes that find a stale lock may both take it over |
| `MessagesOnce` | `Console` | `lifecycle.ts:399`, a message has a key | a message posted again is stored again, its key is unique in the outbox only |
| `UnfinishedRunIsBriefed` (`MCContinuityRepair.cfg`) | `Continuity` | `handoff.ts:152`, there is no unfinished run | a run that NEEDS_REPAIR is not among `OPEN_STATES`: its half-done task is not told of |
| `NothingLeftBehind` (scene `options`, `Options` with `<<FALSE, FALSE>>`) | `Setup` | `setup.ts:8`, removes what was created | an install with `--no-portable` forgets who made the toolkit |
| `ReplacedIsRecorded` | `Setup` | `autonomy.ts:3`, every change is recorded with the value it replaced | an owned file and an edit between read and write are overwritten; a record goes with a file that does not parse |
| `AddedLeftAlone`, `ExactlyRestored`, `SnapshotIsWhole` (scene `upgrade`) | `Packaging` | `install.ts:8`, a key added since is left alone, what installation changed is restored exactly; `upgrade.ts:3`, a failure leaves the previous state | an edit between read and write goes; a second install copies our settings; a repeated upgrade copies a half migration over the good snapshot |
| `AbortReachesHost` | `Providers` | `host-session.ts:63`, an abort ends the host | an abort during detection is never heard |
| `PlannedIsRecorded`, `ExactlyOneIntegrates` | `Delivery` | `router.ts:167`, the answer is the plan on record; `router.ts:221`, exactly one attempt integrates | a plan over an earlier one is answered as if its rows had been written; an unknown attempt, or one of another run, is answered owned and no row of the run says so |
| `SourceIsWhatWasBuilt`, `CompositeIsOfItsCandidate` (`MaxCandidates = 2`) | `Workspace` | `integrate.ts:63`, snapshot, build, candidate; `composite.ts:19`, a verdict about one manifest | the tree may change between snapshot and build; observations of an earlier candidate count |
| `UncommittedIsInventory`, `NothingLeavesTheRoot`, `GeneratedIsLeftOut` | `Workspace` | `onboard.ts:2`, uncommitted work is inventory; `snapshot.ts:69`, nothing leaves the root; `snapshot.ts:12`, generated output is excluded | a failed git status reads as no change; a link put in place of a file after `lstat` is followed; `bin/Debug` is compared with single names |
| `ReadyIsComputed`, `RangesAreColumns` | `Workbook` | `calc.ts:195`, what could not be calculated does not pass; `calc.ts:243`, a range is its columns | a target that is not in the file gives no reason, so a result declared UNVERIFIED is ready; columns compare as text and AA is between A and B |

Bounds. Three leases per attempt give an expired, a superseded and a current one.
Two revisions are a stale and a current one; the version bounds admit
every step from RECEIVED to the approval, or a pause, a review and a pause again
(`lifecycle`), and a read, a change and a change back (`callers`). A grant that names the artifact, one that names none and one for
another, each for another action, and two overlapping calls let a grant be spent
twice, or for the wrong artifact, if the code allowed it. Two verifier calls of one
key are a call and its retry; two policies that disagree on one check's definition
let a registration between two awaits matter.
In `dispatch` the limit takes two estimates, or one and an event of unknown price,
and the lead's own estimate fits only without the other; the second policy is
tighter than what may already be held. In the scenes, two processes that may own a
stale lock and a third that reads are the smallest race; two edits are an edit of
an output; one death per upload is enough, because what it breaks is not repaired by
another. Two changes per walk put a link in the place of a file and take it away again;
`MaxCandidates` counts onboardings, too. In `setup`, `cm` is killed while no host is
still half done from an earlier kill (`MaxHalted = 0`), after any number of repaired
ones. Symmetry is used in `release` only, over slots and keys, and the run has no
temporal property. `documents`, `dispatch` and `components` switch deadlock checking off: versions, rows, keys and
edits may all be used up.

Fairness. Leases, runs, jobs and releases are changed by callers the repository
does not contain, so no fairness is assumed of them and only safety is stated.
The exception is `verification`, where the code itself drives a call:
`setTimeout` fires (`executor.ts:232`), a killed process group closes its pipes
(`executor.ts:276`), and a pending call goes on. No check is assumed to end by
itself, and a process that left its group is assumed to keep the pipes.

## 4. Proofs

Each theorem holds for all values of the constants that satisfy the named
assumptions of its module. The arguments:

- `LeasesProofs`. The safety properties are not inductive alone. `LeaseInv` adds
  that an attempt's epoch is the number of its leases once it has one
  (`EpochIsLast`), that the leases of writing attempts are writer leases, and that
  only the last lease of a writing attempt can be active; together with
  `OneActiveWriter` this is preserved because every action either appends one
  lease behind the unique-index guard, only deactivates leases, or, as `Admit`,
  leaves them alone. Two lemmas about the two kinds of write carry the whole
  induction. `IntegrationExclusive` and `EndedLeaseNeverAccepted` follow from the
  invariant; they are proved and have no run of their own.
- `LifecycleProofs`. `LifecycleInv` is `LeaseInv`, the types, and `SeenNotAhead`:
  a row a caller remembers is not newer than the run's row, and equal to it if
  the versions are equal. That is what makes the version check a check of the
  whole row, and gives `CompareAndSwapSound`. `LifecycleImplementsLeases` maps
  every handler to a lease step or a stutter. A row is written by `createRun`, a
  transition and a revision only (`RowChange`), and what each writes, together with
  the table's rules, gives `RevisionFenced`. `ReviewKept` needs one fact more,
  `RowsLegal`: the records a row had to have when it was written are still there, so a
  step out of review that binds nothing keeps what it had.
- `DispatchProofs`. `DispatchInv` is `LeaseInv`, the types, `DelegationBounded` and
  `BilledOnce`, which are inductive together. An admission counts the
  lead's other children that are LEASED or RUNNING; no other handler makes an
  attempt RUNNING, so the number of RUNNING children grows only there, which gives
  `DelegationStaysBounded`. `EventsBilledOnce` rests on the account growing by at
  most one event's cost with each event recorded. `DispatchImplementsLedger` maps
  an admission to `Take`, a settlement to `GiveBack`, a usage row to `Charge` or
  `ChargeUnpriced`, a new policy to `ReplacePolicy` and everything else to a stutter.
- `DocumentsProofs`, jobs. `DocInv` adds that a bound result is recorded for its job,
  that a verdict is not about a version ahead of the row and, while the versions
  agree, is about a result of the present revision, and that open questions were
  asked at the present revision. `AwardSound` and `ExpirySound` are action properties
  from it. That the result is current when it is judged nobody checks, so `ExpirySound`
  is about results whose currency was there to be lost.
- `DocumentsProofs`, editing. `EditingInv` says that the version the next edit starts
  from says what the original says (`Says`): the same figures in the same order, the
  same revisions, notes and comments, and every block that no edit named in its
  place. The meaning check compares an output with its neighbour only, so what
  carries the chain is a lemma about the documents themselves, `EditedReads`: what
  editDocx() writes is read back block for block. It rests on `ReadsBack` (the
  revisions come after the blocks and are found there again) and on `CountedOff`,
  which tells the elements of a sequence at some places by a function that counts
  the places off; that every rank is taken (`EveryRankTaken`) is an argument about
  cardinalities, since the library's induction cannot be used.
- `DocumentsProofs`, reading. `ReadingInv`: a version keeps the bytes of its upload,
  a unit of the scope is of the inventory of those bytes, a scope that was not
  selected has the inventories of its versions whole, and once COMPLETE was reported
  every unit of the scope has been read. `InventoryCovers` says that the ranges leave
  out no row, by the least range that goes as far; `WalkedIsCovered` and
  `CoveredIsWalked` that the walk of rowCoverage() finds a gap exactly when a row is
  missing, by the least range that begins after the missing row, and by counting the
  rows. All for any size of a range and any number of rows.
- `DocumentsProofs`, calculations. calculate() goes down from a target and keeps the
  cells it is evaluating; the property knows a cell once all it refers to are known. The
  two are defined by recursion, one over sets of cells and one over numbers, and both
  definitions are shown to be what they say (`ValuesFound`, `StagesFound`): a recursive
  function is the one that satisfies its equation, which exists by the least
  number of cells for which it would not. `ValueIsMeant` is the argument that carries the
  rest: if evaluation finds a value without error while some cells are in progress, the
  value is that of a stage no later than the number of the other cells. An error is
  never lost on the way up (`ErrorsPropagate`), so a number has no external, unsupported
  or cyclic cell behind it. A range is what the code takes for it, names compared as text
  (`calc.ts:250-253`); that this is not what a reader of `A1:B1` means is
  `RangesAreColumns`. `NumericReady` asks for no reasons, as the code does, so a READY
  number is calculated only if its cell is in the file, which the property says.
- `VerificationProofs`. `VerInv` adds that a call works for its job's candidate,
  that what is executed or has a result was resolved to the policy's definition,
  and that a required check either has a result or is still to be run.
  `VerdictSound` and `CompletionSound` follow.

- `ReleaseProofs`. `SafetyInv` says that an inserted row names a grant, of whatever
  action, that was spent, that names the row's artifact or none and is on no other row,
  that a call in progress is
  about an inserted row, that nothing was sent or done under a key without one, and
  that a row has an operation only if the destination performed one.
  `PromotionsApproved` and `OperationsAreReal` (its property, `OperationsExist`, has
  no run of its own) need one assumption more, `OneArtifactPerKey`: callers deploy
  one artifact under a key. Without it they do not hold, which is what run
  `release_key_reused` shows. `WorkWithinGrants` maps each deployed key to the grant of its
  row, an injection into the spent grants that exclude no artifact of theirs; rollbacks,
  whose grant no row names, are counted instead (`CountInv`): a step that adds a key to
  those rolled back or on their way spends a rollback grant, and no step adds work
  without spending one.
- `ReleaseProofs`, authority: `AuthorityImplementsRelease` maps
  an approval to `Grant`, a request that lapses to `Expire` and everything else about
  requests to a stutter, so the release invariant holds behind the decisions.
  `RequestsSound` adds that every grant is of a request that was made and that
  requests, decisions and audit rows name grants that exist. The approvals row is the
  first statement of the three, so whichever was the last one, this is kept.
- `ReleaseProofs`, evidence. `KeyInv` is about keys alone: one that was made for an issuer is
  in no other issuer's file or row, one that is still to be registered is in no row,
  so it cannot have been revoked, and a row that resolves names a key that was not.
  An envelope is about the artifact and the revision of its candidate, and a verdict,
  an attestation and a promotion carry both on, each from the one before it.

- `ControllerProofs`, state directory. `StoreInv` is the types, `MigrationInv`
  (migrations were applied in their order, no opener looks further than one past
  them, and who is past the last found all of them) and `StreamInv` (events are
  numbered without a gap, what a client received is a beginning of them, the outbox
  has their effects and no others). `MigratedOnce` and `StreamContinuous` follow.
  SQLite's write lock does not need to be in the invariant: an opener looks at the
  table again after it has the lock.
- `ControllerProofs`, console. `ConsoleInv` counts: a question has one answer row if
  it is ANSWERED and none otherwise, at most one question is open, and the rows, the
  request keys and the outbox name the same requests.
- `ControllerProofs`, delivery. `OwnerInv`: while a run's integrator is not planned and
  none of its attempts has claimed another run, it has one integrator at most, and an
  attempt of the run that was told it owns the integration is it. A plan's rows are told
  from a claim's, and a claim across runs is remembered with its answer, so neither
  exception ends. `RepairsConverge` is inductive with the shape of the cycles; no
  two cycles of one diagnosis proceed without new evidence.
- `ControllerProofs`, continuity. `LedgerInv`: the rows are finitely many, no two have
  the same number, and DONE has evidence. A new row's number is the count of the rows
  plus its place in the plan, and a plan one of whose numbers is taken is refused
  whole. A briefing of a run it tells of names the row of the least number, which exists
  (`FirstOfIsFirst`), so a task that a dead session holds is not passed over, however
  late another session writes what it read of the rows. A run that is not open is not
  told of, whatever its tasks (`UnfinishedRunIsBriefed` of section 3).
- `HostProofs`, packaging. `ChosenInv`: what the person set under another key than ours
  stands in the settings unless it is `overwritten`, and what the process has in hand
  of them is a settings file. A write marks the keys that differ from what was read, so
  every other key is written as it stands. `UpgradeInv`: an
  upgrade at a migration has applied every earlier one whole, and a finished one
  left none out or torn.
- `HostProofs`, providers. `RunsInv` follows each line of output to the reason it
  leaves (`EndAfter`): a reason of completion goes with a last line without error and
  limit, no event is `ended` before the run is done, and once it is the output is read
  to its end, `ended` is the last event only, and completion is of a process that
  exited with zero.
- `HostProofs`, workspace. `SnapshotInv` has three parts for the walk at work.
  `WalkShape`, of a moving tree too: what is to be looked at is in a directory that was
  seen, and no two entries collide. `WalkQuiet`, while the tree is left alone: what was
  taken or looked at is what is there, a file not yet taken is in a directory not yet
  listed, on the list or being read, and what git status does not name differs from HEAD
  only in the ways that are passed over. `StatusSound` is the lemma about git status
  behind that. At the end the directories and the list are empty.
- `HostProofs`, setup. `SetupInv` relates the settings, the records and the running
  job of every host. `Settled`: a setting is the person's, or it is ours and the record,
  or the job that is about to write the record, knows theirs. `Healthy`: what a host was
  installed with is there, except what the job is just putting back; the shared skills
  stay while a host that uses them is installed. `JobInv` says what each step of an
  install or uninstall may rely on. Hosts whose change was written and whose record was
  not, or whose value went in one of the other three ways (`lost`), and hosts a killed
  process had not finished with (`halted`), are excepted, as in the property. `BackInv`
  holds between the read and the write of an uninstall: what is about to be put back is
  what the record says, and after that the value is the person's.

Three sentences of section 3 that the code does not keep are proved under the condition
that excludes what breaks them, so the counterexample TLC shows is the only kind there is:

- `OneControllerUnlessStolen`: at most one process holds the state directory if what an
  opener saw of the lock is still so when it removes it (`RemovesStaleOnly`: the file is
  gone, or its owner is). Then whoever is past the claim has the lock (`OwnsLock`), which
  no other process removes. The condition also excludes an owner that has not written its
  pid yet, which an opener takes for a stale one.
- `DeniedHasNoGrantIfWhole`: a denied request has no grant, and an approved one has one
  only, if no process dies between the statements of an approval (`ApprovedWhole`).
- `NothingLeftBehindIfAllHaveToolkit`: the last uninstall leaves nothing if no install was
  made with `--no-portable`. `LeftInv`: a toolkit that is there has a record that names
  it, a process that will write one or has taken one back, or a kill behind it.

TLC checked each under its condition, on the instance of section 3 (`OneController` with
three exclusive openers), before it was proved, and refutes each without the condition.

Assumptions. Those of the constants are named in each module: bounds are numbers, the
values that stand for nothing are not among the values, tables are functions on what
they are tables of. Some say more. Migrations are numbered from one without a gap
(`database.ts`, `upgrade.ts` list them in order); a plan names a task once, as the
keys of its rows do; a plugged host shares no skills directory; a place of the
workspace is inside itself; a blank text has no figures; and a workbook has finitely many
cells, whose formulas have the operands their operation takes, as the grammar of `calc.ts`
makes them. No assumption bounds the number of processes, jobs, rows or versions except
where a bound is a constant of the model.

Model-checked only:

- `SceneTypeOK`, the types of all scenes at once. It is about `MCComponents`, which puts
  thirteen components side by side for TLC; each proof about a component has the types
  it needs in its own invariant, and `WorkbookTypeOK` and `StoreTypeOK` whole.
- `CallsEndUnlessHeld`, the liveness of `Verification`: liveness under fairness and
  `ENABLED` are beyond the prover.

The provers cannot use the library's induction theorems, which take an operator. Where an
argument needs induction, over numbers or over the finite sets of cells of `Workbook`,
the proofs take the least of a set of numbers, which the well-foundedness of the naturals
gives; no module declares a RECURSIVE operator.

## 5. Not modelled

Publication review (a linter over text) and the release inventory (a listing of
files) are pure functions without state. Sandbox profiles and report parsers convert
text. Intake, context and stack grounding compute documents from text; a service
case is one row whose transition accepts any status, so there is no rule to check.
Browser journeys, benchmarks, qualification and observability measure around the
system and share no state the other parts read. The command line (apart from
install and uninstall), the console's pages, the plugin and the scripts are user
interfaces and hooks over the services above. Byte layouts of ZIP, OOXML and images,
the writers of XLSX and PPTX, and the formula grammar are abstracted to the facts
the code decides on.

Messages, feedback, previews, audit rows, events and the outbox are appended and
read by no guard; they are modelled where a property is about them (`StateStore`,
`Console`). Two databases in one process are never written in one transaction;
where that matters (an approval consumed, a row not yet inserted) `Release` and
`Authority` have a crash point.

## 6. Plan

Done: every module of section 2, with the proofs of section 4; every safety property
of a run is a theorem, but for `SceneTypeOK`. What is left:

1. The refinements of `Lifecycle` and `Authority` say what their steps do to leases and
   grants; that a document job's dispatch keeps the job's own invariant is not stated,
   `Dispatch` and `DocumentJobs` share no state in the model.
2. Of the other sentences of section 3 that the code does not keep, under which
   conditions they hold, as section 4 does for three of them.
3. The command line's `cm init`, and the checks of `packages/verifier/src/executor.ts`
   that a module now takes as one step.
