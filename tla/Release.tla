------------------------------ MODULE Release ------------------------------
(***************************************************************************)
(* Deployment of an approved artifact: packages/release/src/{approvals,    *)
(* deploy,smoke,rollback}.ts on the store of contracts/storage/release.sql *)
(* and a destination outside the repository.                               *)
(*                                                                         *)
(* The service is one process.  Between two awaits its code runs alone, so *)
(* each stretch is an action; calls interleave at the awaits, the process  *)
(* may die at any point, and rows survive it.  A request to the destination*)
(* may be delayed, lost or answered after its caller has given up.         *)
(*                                                                         *)
(* An artifact stands for a candidate, its digest and the environment it   *)
(* is attested for.  An approval names one, or leaves both candidate and   *)
(* digest NULL.  Project and policy of a scope are only ever compared with *)
(* the approval's own.  The destination repeats the answer it gave to an   *)
(* idempotency key.  The run's row is not read or written here.            *)
(***************************************************************************)
EXTENDS Naturals, FiniteSets

CONSTANTS
  Keys,         \* idempotency keys of deployments
  Artifacts,
  Grants,       \* ids of the approvals that may be granted
  GrantAction,  \* [Grants -> Actions]
  GrantFor,     \* what the scope of the grant names, or NoArtifact
  Attested,     \* <<key, artifact>>: what callers deploy under which key
  Slots,        \* calls in progress at one time
  NoArtifact, NoGrant

\* Approval['action'] (interfaces.ts:137), and what the destination is sent.
Actions == {"api_spend", "sensitive_data_share", "install", "deploy",
            "destructive_operation", "rollback"}
Kinds == {"deploy", "rollback"}

ASSUME ReleaseConstantsOK ==
  /\ GrantAction \in [Grants -> Actions]
  /\ GrantFor \in [Grants -> Artifacts \cup {NoArtifact}]
  /\ Attested \subseteq Keys \X Artifacts
  /\ NoArtifact \notin Artifacts
  /\ NoGrant \notin Grants

VARIABLES
  granted,      \* approvals the client or a maintainer has granted
  expired,      \* grants whose expires_at has passed
  consumed,     \* grants with consumed_by_release_id set
  deployments,  \* the row of each key, status "NONE" before it is inserted
  calls,        \* what each slot awaits
  net,          \* requests sent to the destination and not yet received
  dest          \* dest[k][kind]: the artifact of the operation it performed

releaseVars == <<granted, expired, consumed, deployments, calls, net, dest>>

Statuses == {"NONE", "DEPLOYING", "RELEASED", "FAILED", "ROLLED_BACK"}
Idle == [awaits |-> "nothing", key |-> "none"]
Calls == {Idle} \cup [awaits : {"promote", "rollback", "lookup", "found", "probes"}, key : Keys]

ReleaseTypeOK ==
  /\ granted \subseteq Grants /\ expired \subseteq Grants /\ consumed \subseteq granted
  /\ deployments \in [Keys -> [status : Statuses, op : BOOLEAN,
                               grant : Grants \cup {NoGrant},
                               artifact : Artifacts \cup {NoArtifact}]]
  /\ calls \in [Slots -> Calls]
  /\ net \subseteq Keys \X Kinds \X Artifacts
  /\ dest \in [Keys -> [Kinds -> Artifacts \cup {NoArtifact}]]

ReleaseInit ==
  /\ granted = {} /\ expired = {} /\ consumed = {}
  /\ deployments = [k \in Keys |-> [status |-> "NONE", op |-> FALSE,
                                    grant |-> NoGrant, artifact |-> NoArtifact]]
  /\ calls = [s \in Slots |-> Idle]
  /\ net = {}
  /\ dest = [k \in Keys |-> [kind \in Kinds |-> NoArtifact]]

Inserted(k) == deployments[k].status # "NONE"
Reached(k, kind) == dest[k][kind] # NoArtifact

-----------------------------------------------------------------------------
(* The approval store *)

\* An actor that may decide grants the request for g, which may have expired
\* while nobody decided it.
Grant(g, late) ==
  /\ g \notin granted
  /\ granted' = granted \cup {g}
  /\ expired' = IF late THEN expired \cup {g} ELSE expired
  /\ UNCHANGED <<consumed, deployments, calls, net, dest>>

\* Time passes; grants of one request expire together.  A spent grant is never
\* asked for its time again.
Expire(G) ==
  /\ G \subseteq granted \ (expired \cup consumed)
  /\ expired' = expired \cup G
  /\ UNCHANGED <<granted, consumed, deployments, calls, net, dest>>

InScopeUnknown(g, action, named) ==
  /\ g \notin expired \cup consumed
  /\ GrantAction[g] = action /\ GrantFor[g] = named

InScopeReusable(g, action, named) ==
  /\ g \in granted \ expired
  /\ GrantAction[g] = action /\ GrantFor[g] = named

InScopeAnyArtifact(g, action, named) ==
  /\ g \in granted \ (expired \cup consumed)
  /\ GrantAction[g] = action

\* checkScope: the stored approval against the scope its caller names.
InScope(g, action, named) ==
  /\ g \in granted \ (expired \cup consumed)
  /\ GrantAction[g] = action /\ GrantFor[g] = named

\* consumeApproval; a release id is fresh in every call, so the branch for a
\* repeated release id is never taken.
Consume(g, action, named) ==
  /\ InScope(g, action, named)
  /\ consumed' = consumed \cup {g}

-----------------------------------------------------------------------------
(* Deployment *)

\* The scope a deployment of x may name: it is compared with the attestation
\* where it is not NULL, and its action is not looked at.
DeployScope(action, named, x) == action \in Actions /\ named \in {x, NoArtifact}

\* deploy of a key without a row: consume, insert the intent, send.
DeployNew(s, k, g, x, action, named) ==
  /\ calls[s] = Idle
  /\ <<k, x>> \in Attested
  /\ ~Inserted(k)
  /\ DeployScope(action, named, x) /\ Consume(g, action, named)
  /\ deployments' = [deployments EXCEPT ![k] =
       [status |-> "DEPLOYING", op |-> FALSE, grant |-> g, artifact |-> x]]
  /\ net' = net \cup {<<k, "deploy", x>>}
  /\ calls' = [calls EXCEPT ![s] = [awaits |-> "promote", key |-> k]]
  /\ UNCHANGED <<granted, expired, dest>>

\* deploy of a key whose row has no operation yet: send again.  A row that has
\* one is replayed without a change.
DeployAgain(s, k, x) ==
  /\ calls[s] = Idle
  /\ <<k, x>> \in Attested
  /\ Inserted(k) /\ ~deployments[k].op
  /\ net' = net \cup {<<k, "deploy", x>>}
  /\ calls' = [calls EXCEPT ![s] = [awaits |-> "promote", key |-> k]]
  /\ UNCHANGED <<granted, expired, consumed, deployments, dest>>

\* The process dies after the consumption committed, before the intent row is
\* inserted (intent = FALSE) or before the destination is asked (TRUE).
DeployDies(k, g, x, action, named, intent) ==
  /\ \E s \in Slots : calls[s] = Idle
  /\ <<k, x>> \in Attested
  /\ ~Inserted(k)
  /\ DeployScope(action, named, x) /\ Consume(g, action, named)
  /\ deployments' = IF intent
       THEN [deployments EXCEPT ![k] =
               [status |-> "DEPLOYING", op |-> FALSE, grant |-> g, artifact |-> x]]
       ELSE deployments
  /\ calls' = [s \in Slots |-> Idle]
  /\ UNCHANGED <<granted, expired, net, dest>>

RecordOperation(k) == deployments' = [deployments EXCEPT ![k].op = TRUE]
SetStatus(k, st) == deployments' = [deployments EXCEPT ![k].status = st]
Ends(s) == calls' = [calls EXCEPT ![s] = Idle]

PromoteReturns(s) ==
  LET k == calls[s].key IN
  /\ calls[s].awaits = "promote"
  /\ Reached(k, "deploy")
  /\ RecordOperation(k)
  /\ Ends(s)
  /\ UNCHANGED <<granted, expired, consumed, net, dest>>

\* A promote or lookup that is rejected or times out leaves the row alone; so
\* does an observation the store refuses because it already has it.
CallFails(s) ==
  /\ calls[s].awaits \in {"promote", "rollback", "lookup", "probes"}
  /\ Ends(s)
  /\ UNCHANGED <<granted, expired, consumed, deployments, net, dest>>

-----------------------------------------------------------------------------
(* Reconciliation, observation and rollback *)

ReconcileStarts(s, k) ==
  /\ calls[s] = Idle
  /\ Inserted(k)
  /\ calls' = [calls EXCEPT ![s] = [awaits |-> "lookup", key |-> k]]
  /\ UNCHANGED <<granted, expired, consumed, deployments, net, dest>>

\* The destination answers; ABSENT ends the call as SAFE_TO_RETRY.
LookupAnswers(s) ==
  /\ calls[s].awaits = "lookup"
  /\ IF Reached(calls[s].key, "deploy")
     THEN calls' = [calls EXCEPT ![s].awaits = "found"]
     ELSE Ends(s)
  /\ UNCHANGED <<granted, expired, consumed, deployments, net, dest>>

ReconcileReturns(s) ==
  /\ calls[s].awaits = "found"
  /\ RecordOperation(calls[s].key)
  /\ Ends(s)
  /\ UNCHANGED <<granted, expired, consumed, net, dest>>

\* Nothing asks that the operation of the row is known.
SmokeStarts(s, k) ==
  /\ calls[s] = Idle
  /\ Inserted(k)
  /\ calls' = [calls EXCEPT ![s] = [awaits |-> "probes", key |-> k]]
  /\ UNCHANGED <<granted, expired, consumed, deployments, net, dest>>

\* All probes passed, or one failed or there was none.
SmokeReturns(s, passed) ==
  /\ calls[s].awaits = "probes"
  /\ SetStatus(calls[s].key, IF passed THEN "RELEASED" ELSE "FAILED")
  /\ Ends(s)
  /\ UNCHANGED <<granted, expired, consumed, net, dest>>

\* rollback under a grant within the caller's scope, which is not compared with
\* the row; the destination is sent the row's artifact under the derived key.
RollbackStarts(s, k, g) ==
  /\ calls[s] = Idle
  /\ Inserted(k)
  /\ Consume(g, "rollback", GrantFor[g])
  /\ net' = net \cup {<<k, "rollback", deployments[k].artifact>>}
  /\ calls' = [calls EXCEPT ![s] = [awaits |-> "rollback", key |-> k]]
  /\ UNCHANGED <<granted, expired, deployments, dest>>

RollbackReturns(s) ==
  /\ calls[s].awaits = "rollback"
  /\ Reached(calls[s].key, "rollback")
  /\ SetStatus(calls[s].key, "ROLLED_BACK")
  /\ Ends(s)
  /\ UNCHANGED <<granted, expired, consumed, net, dest>>

Crash ==
  /\ calls' = [s \in Slots |-> Idle]
  /\ UNCHANGED <<granted, expired, consumed, deployments, net, dest>>

-----------------------------------------------------------------------------
(* The destination and the way to it *)

\* A key seen before is answered with the operation it already has.
Receive(m) ==
  /\ net' = net \ {m}
  /\ dest' = IF Reached(m[1], m[2]) THEN dest
             ELSE [dest EXCEPT ![m[1]][m[2]] = m[3]]
  /\ UNCHANGED <<granted, expired, consumed, deployments, calls>>

Lose(m) ==
  /\ net' = net \ {m}
  /\ UNCHANGED <<granted, expired, consumed, deployments, calls, dest>>

\* Everything after the grant.
Deploying ==
  \/ \E k \in Keys, g \in Grants, x \in Artifacts, action \in Actions,
        named \in Artifacts \cup {NoArtifact} :
       \/ \E s \in Slots : DeployNew(s, k, g, x, action, named)
       \/ \E intent \in BOOLEAN : DeployDies(k, g, x, action, named, intent)
  \/ \E s \in Slots, k \in Keys, x \in Artifacts : DeployAgain(s, k, x)
  \/ \E s \in Slots : \/ PromoteReturns(s) \/ CallFails(s) \/ LookupAnswers(s)
                      \/ ReconcileReturns(s) \/ RollbackReturns(s)
                      \/ \E passed \in BOOLEAN : SmokeReturns(s, passed)
  \/ \E s \in Slots, k \in Keys : ReconcileStarts(s, k) \/ SmokeStarts(s, k)
  \/ \E s \in Slots, k \in Keys, g \in Grants : RollbackStarts(s, k, g)
  \/ \E m \in net : Receive(m) \/ Lose(m)
  \/ Crash

ReleaseNext ==
  \/ \E g \in Grants, late \in BOOLEAN : Grant(g, late)
  \/ \E G \in SUBSET Grants : Expire(G)
  \/ Deploying

ReleaseSpec == ReleaseInit /\ [][ReleaseNext]_releaseVars

-----------------------------------------------------------------------------
(* Properties *)

\* Whatever was sent to the destination under a key, or was done there, is not
\* another artifact than the spent grant of the key's row names: no crash, retry
\* or late request lets one ride on it (deploy.ts:75-76).  The grant may name
\* none, and may be one for something else than a deployment.
PromotedWasApproved ==
  \A k \in Keys, x \in Artifacts :
    <<k, "deploy", x>> \in net \/ dest[k]["deploy"] = x
      => /\ deployments[k].grant \in consumed
         /\ GrantFor[deployments[k].grant] \in {x, NoArtifact}

\* The destination never does more than grants were spent, deploys an artifact
\* no more often than grants naming it or none were, and rolls back no more
\* often than rollback grants were, through every replay, crash and reordering
\* (approvals.ts:3-5, consumed exactly once).
EffectsWithinGrants ==
  /\ Cardinality({o \in Keys \X Kinds : Reached(o[1], o[2])}) <= Cardinality(consumed)
  /\ \A x \in Artifacts :
       Cardinality({k \in Keys : dest[k]["deploy"] = x})
         <= Cardinality({g \in consumed : GrantFor[g] \in {x, NoArtifact}})
  /\ Cardinality({k \in Keys : Reached(k, "rollback")})
       <= Cardinality({g \in consumed : GrantAction[g] = "rollback"})

\* approvals.ts:3-4: an approval is scoped to one action and one artifact.
\* deploy() takes one for any action, and one that names no artifact.
DeploysSpendTheirGrant ==
  \A k \in Keys : Reached(k, "deploy") =>
    /\ GrantAction[deployments[k].grant] = "deploy"
    /\ GrantFor[deployments[k].grant] # NoArtifact

\* A row that carries an operation is about one the destination really
\* performed, for the artifact of the row: reconciliation and late answers never
\* make one up (deploy.ts:6-7, it never assumes).
OperationsExist ==
  \A k \in Keys :
    deployments[k].op => dest[k]["deploy"] = deployments[k].artifact

\* contracts/state-machine.json lists no transition from ROLLED_BACK to
\* RELEASED.  An observation that began before the rollback ends after it.
RolledBackStays ==
  [][\A k \in Keys : deployments[k].status = "ROLLED_BACK"
       => deployments'[k].status # "RELEASED"]_releaseVars
=============================================================================
