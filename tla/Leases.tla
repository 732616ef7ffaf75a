------------------------------- MODULE Leases -------------------------------
(***************************************************************************)
(* Task attempts, workspace leases and the fence a worker's result must    *)
(* pass: packages/state/src/{leases,recovery}.ts,                          *)
(* packages/workspace/src/{ownership,integrate}.ts and the claim and       *)
(* reassign handlers of packages/core/src/lifecycle.ts.                    *)
(*                                                                         *)
(* Every handler is one synchronous SQLite transaction of one controller   *)
(* process, so one action models one call.  A lease's deadline is chosen   *)
(* by the caller that claims, and the sweep's clock by the caller that     *)
(* sweeps: any set of active leases may be the set whose deadline has      *)
(* passed, so Reconcile takes that set as its input and no clock is kept.  *)
(***************************************************************************)
EXTENDS Naturals, Sequences, FiniteSets

CONSTANTS
  Attempts,     \* ids of the attempts that may ever be created
  Tasks, Runs, Projects, Paths,
  TaskOf,       \* [Attempts -> Tasks]
  RunOf,        \* [Attempts -> Runs]
  ProjectOf,    \* [Runs -> Projects]
  NumberOf,     \* [Attempts -> Nat], attempt_number
  ReadOnly,     \* the attempts whose role is reviewer or explorer
  Allowed,      \* [Attempts -> SUBSET Paths], allowed_write_paths
  Covers,       \* <<claim, file>> pairs: the claim is a prefix of the file
  MaxEpoch      \* bound on the leases one attempt is ever given

ASSUME ConstantsOK ==
  /\ TaskOf \in [Attempts -> Tasks]
  /\ RunOf \in [Attempts -> Runs]
  /\ ProjectOf \in [Runs -> Projects]
  /\ NumberOf \in [Attempts -> Nat]
  /\ ReadOnly \subseteq Attempts
  /\ Allowed \in [Attempts -> SUBSET Paths]
  /\ MaxEpoch \in Nat

\* Path prefixes: every path covers itself, and two prefixes of one path are
\* themselves comparable.
ASSUME CoversIsPrefixOrder ==
  /\ Covers \subseteq Paths \X Paths
  /\ \A p \in Paths : <<p, p>> \in Covers
  /\ \A p, q, r \in Paths :
       <<p, q>> \in Covers /\ <<q, r>> \in Covers => <<p, r>> \in Covers
  /\ \A p, q, r \in Paths :
       <<p, r>> \in Covers /\ <<q, r>> \in Covers
         => <<p, q>> \in Covers \/ <<q, p>> \in Covers

VARIABLES
  status,       \* task_attempts.status, "ABSENT" before createAttempt
  lease_epoch,  \* task_attempts.lease_epoch
  leases        \* leases[a][e]: the row of workspace_leases with epoch e

leaseVars == <<status, lease_epoch, leases>>

Statuses == {"ABSENT", "QUEUED", "LEASED", "RUNNING", "REVOKED"}
Lease == [writer : BOOLEAN, active : BOOLEAN]

LeaseTypeOK ==
  /\ status \in [Attempts -> Statuses]
  /\ lease_epoch \in [Attempts -> Nat]
  /\ leases \in [Attempts -> Seq(Lease)]

LeaseInit ==
  /\ status = [a \in Attempts |-> "ABSENT"]
  /\ lease_epoch = [a \in Attempts |-> 1]
  /\ leases = [a \in Attempts |-> << >>]

-----------------------------------------------------------------------------
(* Reading the tables *)

AttemptProject(a) == ProjectOf[RunOf[a]]
Live(a) == status[a] \notin {"ABSENT", "REVOKED"}
ActiveAt(a, e) == e \in DOMAIN leases[a] /\ leases[a][e].active
Active(a) == \E e \in DOMAIN leases[a] : leases[a][e].active
Writes(a) == \E e \in DOMAIN leases[a] : leases[a][e].active /\ leases[a][e].writer

\* The partial unique index one_active_writer_per_project.
WriterFree(p) == \A a \in Attempts : AttemptProject(a) = p => ~Writes(a)

\* ORDER BY attempt_number DESC LIMIT 1; ties are resolved either way.
Latest(S) == {a \in S : \A b \in S : NumberOf[b] <= NumberOf[a]}

-----------------------------------------------------------------------------
(* Writes to the lease table.  Here and below, a definition whose name says *)
(* what it leaves out is a faulty form of the one after it, kept so that    *)
(* the checks can be shown to notice the fault.                             *)

AcquireWithoutIndex(a, writer) ==
  /\ Len(leases[a]) < MaxEpoch
  /\ leases' = [leases EXCEPT ![a] = Append(@, [writer |-> writer, active |-> TRUE])]
  /\ lease_epoch' = [lease_epoch EXCEPT ![a] = Len(leases[a]) + 1]

AcquireKeepsEpoch(a, writer) ==
  /\ Len(leases[a]) < MaxEpoch
  /\ writer => WriterFree(AttemptProject(a))
  /\ leases' = [leases EXCEPT ![a] = Append(@, [writer |-> writer, active |-> TRUE])]
  /\ UNCHANGED lease_epoch

Acquire(a, writer) ==
  /\ Len(leases[a]) < MaxEpoch
  /\ writer => WriterFree(AttemptProject(a))
  /\ leases' = [leases EXCEPT ![a] = Append(@, [writer |-> writer, active |-> TRUE])]
  /\ lease_epoch' = [lease_epoch EXCEPT ![a] = Len(leases[a]) + 1]

\* Deactivate the leases of the pairs in S.
Deactivate(S) ==
  leases' = [a \in Attempts |->
              [e \in DOMAIN leases[a] |->
                [writer |-> leases[a][e].writer,
                 active |-> leases[a][e].active /\ <<a, e>> \notin S]]]

LeasesOf(A) == {l \in A \X (1..MaxEpoch) : ActiveAt(l[1], l[2])}

-----------------------------------------------------------------------------
(* The fence *)

FenceIgnoresEpoch(a, e) ==
  /\ status[a] \notin {"ABSENT", "REVOKED"}
  /\ Active(a)

\* checkFence without the optional comparisons of revision and base digest.
CheckFence(a, e) ==
  /\ status[a] \notin {"ABSENT", "REVOKED"}
  /\ lease_epoch[a] = e
  /\ Active(a)

Overlaps(p, q) == <<p, q>> \in Covers \/ <<q, p>> \in Covers
IsWritable(a, file) == \E claim \in Allowed[a] : <<claim, file>> \in Covers

IntegrationIgnoresClaims(a, e, project, file) ==
  /\ CheckFence(a, e)
  /\ IsWritable(a, file)

\* checkIntegration of a result of attempt a under epoch e that changed file.
\* The claims it meets are those of the project the result names, which
\* nothing compares with the attempt's.
CheckIntegration(a, e, project, file) ==
  /\ CheckFence(a, e)
  /\ IsWritable(a, file)
  /\ \A b \in Attempts \ {a} :
       AttemptProject(b) = project /\ Writes(b)
         => \A held \in Allowed[b] : ~Overlaps(held, file)

-----------------------------------------------------------------------------
(* Handlers *)

\* createAttempt: the row starts QUEUED with epoch 1 and no lease.
CreateAttempt(a) ==
  /\ status[a] = "ABSENT"
  /\ status' = [status EXCEPT ![a] = "QUEUED"]
  /\ UNCHANGED <<lease_epoch, leases>>

\* #claim: the newest QUEUED or LEASED attempt of the task, whatever its run.
Claimable(t, st) ==
  Latest({a \in Attempts : TaskOf[a] = t /\ st[a] \in {"QUEUED", "LEASED"}})

Claim(t) ==
  \E a \in Claimable(t, status) :
    /\ Acquire(a, a \notin ReadOnly)
    /\ status' = [status EXCEPT ![a] = "LEASED"]

\* reassignTask puts the newest REVOKED attempt back in the queue and then
\* claims the newest claimable one, which need not be the same attempt.
Reassign(t) ==
  \E a \in Latest({b \in Attempts : TaskOf[b] = t /\ status[b] = "REVOKED"}) :
    LET queued == [status EXCEPT ![a] = "QUEUED"] IN
    \E b \in Claimable(t, queued) :
      /\ Acquire(b, b \notin ReadOnly)
      /\ status' = [queued EXCEPT ![b] = "LEASED"]

\* claimWriteScope over the paths in wanted: a writer lease whatever the role;
\* the attempt's status is left alone.
ClaimWriteScope(a, wanted) ==
  /\ status[a] # "ABSENT"
  /\ \A b \in Attempts \ {a} :
       AttemptProject(b) = AttemptProject(a) /\ Writes(b)
         => \A held \in Allowed[b], p \in wanted : ~Overlaps(held, p)
  /\ Acquire(a, TRUE)
  /\ UNCHANGED status

ReconcileMarksExpired(expired) ==
  /\ Deactivate(expired)
  /\ status' = [a \in Attempts |->
                 IF \E e \in 1..MaxEpoch : <<a, e>> \in expired
                 THEN "EXPIRED" ELSE status[a]]
  /\ UNCHANGED lease_epoch

\* reconcile: expire the leases whose deadline has passed and revoke the
\* attempts that held them.
Reconcile(expired) ==
  /\ Deactivate(expired)
  /\ status' = [a \in Attempts |->
                 IF \E e \in 1..MaxEpoch : <<a, e>> \in expired
                 THEN "REVOKED" ELSE status[a]]
  /\ UNCHANGED lease_epoch

FenceRunSkipsLeased(r) ==
  LET queued == {a \in Attempts : RunOf[a] = r /\ status[a] = "QUEUED"} IN
  /\ Deactivate(LeasesOf(queued))
  /\ status' = [a \in Attempts |-> IF a \in queued THEN "REVOKED" ELSE status[a]]
  /\ UNCHANGED lease_epoch

\* What requestControl(cancel) and applyRequirementRevision do to the run's
\* attempts: revokeForAttempts on those not yet REVOKED, then REVOKED.
FenceRun(r) ==
  LET live == {a \in Attempts : RunOf[a] = r /\ Live(a)} IN
  /\ Deactivate(LeasesOf(live))
  /\ status' = [a \in Attempts |-> IF a \in live THEN "REVOKED" ELSE status[a]]
  /\ UNCHANGED lease_epoch

\* What the router's admission does to the attempt: RUNNING from whatever
\* status the row had, without a look at leases.
Admit(a) ==
  /\ status[a] # "ABSENT"
  /\ status' = [status EXCEPT ![a] = "RUNNING"]
  /\ UNCHANGED <<lease_epoch, leases>>

LeaseNext ==
  \/ \E a \in Attempts : CreateAttempt(a) \/ Admit(a)
  \/ \E t \in Tasks : Claim(t) \/ Reassign(t)
  \/ \E a \in Attempts, wanted \in SUBSET Paths : ClaimWriteScope(a, wanted)
  \/ \E expired \in SUBSET LeasesOf(Attempts) : Reconcile(expired)
  \/ \E r \in Runs : FenceRun(r)

LeaseSpec == LeaseInit /\ [][LeaseNext]_leaseVars

-----------------------------------------------------------------------------
(* Properties *)

\* A project never has two active writer leases, neither on two attempts nor
\* on one (leases.ts, one_active_writer_per_project).
OneActiveWriter ==
  \A a, b \in Attempts :
    \A e \in DOMAIN leases[a], f \in DOMAIN leases[b] :
      /\ AttemptProject(a) = AttemptProject(b)
      /\ leases[a][e].active /\ leases[a][e].writer
      /\ leases[b][f].active /\ leases[b][f].writer
      => a = b /\ e = f

\* A worker whose attempt was leased again is fenced: its epoch is refused
\* whatever happened to leases and status since (leases.ts:1-4, 22-23).
SupersededHolderFenced ==
  \A a \in Attempts : \A e \in 1..MaxEpoch :
    e < Len(leases[a]) => ~CheckFence(a, e)

\* A writing attempt's result is accepted only while the very lease it was
\* given is the active one (integrate.ts:34, "only from a current lease").
WriterAcceptedFromItsLease ==
  \A a \in Attempts \ ReadOnly : \A e \in 1..MaxEpoch :
    CheckFence(a, e) => ActiveAt(a, e) /\ leases[a][e].writer

\* At no moment can two writers of one project both integrate: acceptance by
\* the fence is exclusive among writing attempts.
IntegrationExclusive ==
  \A a, b \in Attempts \ ReadOnly : \A e, f \in 1..MaxEpoch :
    /\ AttemptProject(a) = AttemptProject(b)
    /\ CheckFence(a, e) /\ CheckFence(b, f)
    => a = b /\ e = f

\* Where a writer and any other attempt (a reviewer included) are both accepted,
\* the files they change do not overlap: whatever project the writer's result
\* names, if the other's names the one the writer writes in (integrate.ts:50).
AcceptedWritesDisjoint ==
  \A a \in Attempts \ ReadOnly, b \in Attempts : \A e, f \in 1..MaxEpoch :
    \A project \in Projects, x, y \in Paths :
      /\ a # b
      /\ CheckIntegration(a, e, project, x)
      /\ CheckIntegration(b, f, AttemptProject(a), y)
      => ~Overlaps(x, y)

\* Once a writer's lease has ended, by expiry, cancellation or a revision, the
\* result produced under it is refused for good: neither a reassignment nor a
\* new lease of the attempt brings it back (lifecycle.ts:297-298).
EndedLeaseNeverAccepted ==
  [][\A a \in Attempts \ ReadOnly : \A e \in 1..MaxEpoch :
       e \in DOMAIN leases[a] /\ ~leases[a][e].active => ~CheckFence(a, e)']_leaseVars

\* The same claim as WriterAcceptedFromItsLease for every attempt, as
\* integrate.ts:34 states it.  The code does not keep it for an attempt that
\* holds several leases at once, which the roles reviewer and explorer may.
AcceptedFromItsLease ==
  \A a \in Attempts : \A e \in 1..MaxEpoch :
    CheckFence(a, e) => ActiveAt(a, e)
=============================================================================
