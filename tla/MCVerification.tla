--------------------------- MODULE MCVerification ---------------------------
(* Two checks; d1 and d1b are definitions of the first one.  Policy p1      *)
(* requires d1 and d2.  The next version, p2, lists d1b and d2 and requires *)
(* neither.                                                                 *)
EXTENDS Verification

CONSTANTS s1, s2, k1, c1, c2, d1, d1b, d2, p1, p2, x1, x2

MCCheckOf == [d \in Defs |-> IF d = d2 THEN c2 ELSE c1]
MCDefIn ==
  [p \in Policies |-> [c \in Checks |->
     IF c = c2 THEN d2 ELSE IF p = p1 THEN d1 ELSE d1b]]
MCRequired == [p \in Policies |-> IF p = p1 THEN {c1, c2} ELSE {}]
MCVersionOf == [p \in Policies |-> IF p = p1 THEN 1 ELSE 2]
MCPolicyOf == [x \in Candidates |-> IF x = x1 THEN p1 ELSE p2]
=============================================================================
