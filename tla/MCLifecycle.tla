---------------------------- MODULE MCLifecycle ----------------------------
(* One run and the attempts of MCAttempts on it.  The configurations choose *)
(* between one attempt with two leases and no deferred caller, and deferred *)
(* callers with no attempt.                                                 *)
EXTENDS Lifecycle

CONSTANTS w, t1, r1, p1, src, q1, q2, c1

MCTaskOf == [a \in Attempts |-> t1]
MCRunOf == [a \in Attempts |-> r1]
MCProjectOf == [r \in Runs |-> p1]
MCNumberOf == [a \in Attempts |-> 1]
MCAllowed == [a \in Attempts |-> Paths]
MCQuestionRun == [q \in Questions |-> r1]
MCCovers == {<<src, src>>}

\* Every guard that lifecycle.ts leaves to the deployment.
MCInjected ==
  {rule[3] : rule \in Rules}
    \ {"contract_valid", "authorized_and_budgeted", "candidate_sealed", "pause_requested",
       "material_blocker", "cancel_requested_and_leases_revoked",
       "precontract_input_resolved", "new_client_requirement_revision"}
=============================================================================
