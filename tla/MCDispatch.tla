----------------------------- MODULE MCDispatch -----------------------------
(* A lead with two children in one run, of which it may have one at a time, *)
(* and one document account.  The balance of the run admits two attempts,   *)
(* or one and a usage event of unknown cost.                                *)
EXTENDS Dispatch, TLC

CONSTANTS lead, c1, c2, r1, p1, src, e1, e2, d1, software, documents, none

MCTasks == {"t0", "t1"}
MCTaskOf == [a \in Attempts |-> IF a = lead THEN "t0" ELSE "t1"]
MCRunOf == [a \in Attempts |-> r1]
MCProjectOf == [r \in Runs |-> p1]
MCNumberOf == [a \in Attempts |-> IF a = c2 THEN 2 ELSE 1]
MCAllowed == [a \in Attempts |-> {src}]
MCCovers == {<<src, src>>}
MCParentOf == [a \in Attempts |-> IF a \in {c1, c2} THEN lead ELSE none]
MCDepthOf == [a \in Attempts |-> IF a \in {c1, c2} THEN 1 ELSE 0]
MCEstimateOf == [a \in Attempts |-> IF a = lead THEN 9 ELSE 2]
MCEventRun == (e1 :> r1) @@ (d1 :> documents)
MCPolicy == [cap |-> 5, reserve |-> 1, unknown |-> 2]
MCTighter == [cap |-> 3, reserve |-> 1, unknown |-> 1]
MCPolicies == {MCPolicy, MCTighter}
MCOnePolicy == {MCPolicy}
=============================================================================
