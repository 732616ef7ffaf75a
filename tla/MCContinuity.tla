---------------------------- MODULE MCContinuity ----------------------------
(* Three tasks, and sessions that describe the work in three ways.  The run  *)
(* takes the shortest way into NEEDS_REPAIR.                                 *)
EXTENDS Continuity

CONSTANTS a, b, c

MCPlans == {<<a>>, <<a, b>>, <<c>>}
MCTransitions ==
  {<<"RECEIVED", "PAUSED">>, <<"PAUSED", "VERIFYING">>, <<"VERIFYING", "NEEDS_REPAIR">>,
   <<"NEEDS_REPAIR", "PAUSED">>}
=============================================================================
