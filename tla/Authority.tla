----------------------------- MODULE Authority -----------------------------
(***************************************************************************)
(* Approval requests and decisions, packages/core/src/approvals.ts, in     *)
(* front of the approvals that Release spends.  decide() runs three or     *)
(* four statements that commit one by one, so the process may die between  *)
(* any two of them.  The scope of a request is the scope of its grants;    *)
(* neither the time left nor a version is compared when it is decided.     *)
(***************************************************************************)
EXTENDS Release

CONSTANTS
  Requests,
  RequestOf,  \* [Grants -> Requests]
  Actors,
  Deciding    \* DECIDING_ACTORS

ASSUME AuthorityConstantsOK ==
  /\ RequestOf \in [Grants -> Requests]
  /\ Deciding \subseteq Actors
  /\ \A g, h \in Grants : RequestOf[g] = RequestOf[h]
       => GrantAction[g] = GrantAction[h] /\ GrantFor[g] = GrantFor[h]

VARIABLES
  requests,   \* approval_requests.status, "NONE" before request()
  lapsed,     \* requests whose expires_at has passed
  decisions,  \* approval_decisions: <<request, actor, grant or NoGrant>>
  allowed     \* approvals that authority_audit says an action was allowed by

requestVars == <<requests, lapsed, decisions, allowed>>
authorityVars == <<releaseVars, requestVars>>

AuthorityTypeOK ==
  /\ ReleaseTypeOK
  /\ requests \in [Requests -> {"NONE", "PENDING", "APPROVED", "DENIED"}]
  /\ lapsed \subseteq Requests
  /\ decisions \subseteq Requests \X Deciding \X (Grants \cup {NoGrant})
  /\ allowed \subseteq Grants

AuthorityInit ==
  /\ ReleaseInit
  /\ requests = [q \in Requests |-> "NONE"]
  /\ lapsed = {}
  /\ decisions = {} /\ allowed = {}

\* request(): recorded as PENDING, which authorises nothing.
Request(q) ==
  /\ requests[q] = "NONE"
  /\ requests' = [requests EXCEPT ![q] = "PENDING"]
  /\ UNCHANGED <<releaseVars, lapsed, decisions, allowed>>

\* The expiry of a request is the expiry of what was granted on it.
Lapse(q) ==
  /\ requests[q] # "NONE" /\ q \notin lapsed
  /\ lapsed' = lapsed \cup {q}
  /\ Expire({g \in granted \ (expired \cup consumed) : RequestOf[g] = q})
  /\ UNCHANGED <<requests, decisions, allowed>>

MayDecide(q, actor) == actor \in Deciding /\ requests[q] = "PENDING"

\* A request has one decision row (UNIQUE): a second one fails.
Decided(q) == \E d \in decisions : d[1] = q

\* The statements of an approval: the approvals row, the decision row, the
\* status of the request.  The process dies after n of them, or n = 3; after a
\* death behind the second one a later call fails there, with its grant made.
ApproveStatusFirst(q, actor, g, n) ==
  /\ MayDecide(q, actor) /\ RequestOf[g] = q
  /\ n >= 2 => ~Decided(q)
  /\ requests' = [requests EXCEPT ![q] = "APPROVED"]
  /\ decisions' = IF n >= 2 THEN decisions \cup {<<q, actor, g>>} ELSE decisions
  /\ IF n = 3 THEN Grant(g, q \in lapsed) ELSE Crash
  /\ UNCHANGED <<lapsed, allowed>>

Approve(q, actor, g, n) ==
  /\ MayDecide(q, actor) /\ RequestOf[g] = q
  /\ n >= 2 => ~Decided(q)
  /\ Grant(g, q \in lapsed)
  /\ decisions' = IF n >= 2 THEN decisions \cup {<<q, actor, g>>} ELSE decisions
  /\ requests' = IF n = 3 THEN [requests EXCEPT ![q] = "APPROVED"] ELSE requests
  /\ UNCHANGED <<lapsed, allowed>>

\* A denial has no approvals row.
Deny(q, actor, n) ==
  /\ MayDecide(q, actor) /\ ~Decided(q)
  /\ decisions' = decisions \cup {<<q, actor, NoGrant>>}
  /\ requests' = IF n = 3 THEN [requests EXCEPT ![q] = "DENIED"] ELSE requests
  /\ UNCHANGED <<releaseVars, lapsed, allowed>>

\* authorize(): an approval for the action that is neither spent nor expired,
\* for the artifact if the question names one.  The answer spends nothing.
Authorize(action, artifacts) ==
  \E g \in (granted \ consumed) \ expired :
    /\ GrantAction[g] = action /\ GrantFor[g] \in artifacts
    /\ allowed' = allowed \cup {g}
    /\ UNCHANGED <<releaseVars, requests, lapsed, decisions>>

AuthorityNext ==
  \/ \E q \in Requests : Request(q) \/ Lapse(q)
  \/ \E q \in Requests, actor \in Actors, n \in 1..3 :
       Deny(q, actor, n) \/ \E g \in Grants : Approve(q, actor, g, n)
  \/ \E action \in Actions, artifacts \in {{x} : x \in Artifacts} \cup {Artifacts \cup {NoArtifact}} :
       Authorize(action, artifacts)
  \/ Deploying /\ UNCHANGED requestVars

AuthoritySpec == AuthorityInit /\ [][AuthorityNext]_authorityVars

-----------------------------------------------------------------------------
(* Properties *)

\* Whatever statement the process died after, what the request, the decision
\* and the audit say has been granted is in the approvals, of a request that was
\* made, and what the destination did goes back to such a request (approvals.ts:66, 82, 120).
DecisionsHold ==
  /\ \A q \in Requests : requests[q] = "APPROVED" => \E g \in granted : RequestOf[g] = q
  /\ \A d \in decisions : d[3] # NoGrant => d[3] \in granted /\ RequestOf[d[3]] = d[1]
  /\ \A g \in allowed : g \in granted /\ requests[RequestOf[g]] # "NONE"
  /\ \A k \in Keys : Reached(k, "deploy") =>
       \E q \in Requests, g \in consumed :
         /\ RequestOf[g] = q /\ requests[q] # "NONE"
         /\ GrantFor[g] \in {dest[k]["deploy"], NoArtifact}

\* docs/SECURITY_AND_RELEASE.md:120: a denied request cannot become a grant.
\* After a crash behind the first statement of an approval the request is still
\* PENDING, and may be denied while the grant stays usable.
DeniedHasNoGrant ==
  \A q \in Requests : requests[q] = "DENIED" => \A g \in granted : RequestOf[g] # q
=============================================================================
