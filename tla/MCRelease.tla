----------------------------- MODULE MCRelease -----------------------------
(* Two keys of one artifact, and three grants that each may be spent there  *)
(* or elsewhere: a deploy grant for it, an installation grant that names no *)
(* artifact, a rollback grant that names a second one.  Two calls at a time.*)
EXTENDS Release, TLC

CONSTANTS k1, k2, a, b, ga, gn, gr, s1, s2

MCGrantAction ==
  [g \in Grants |-> CASE g = ga -> "deploy" [] g = gn -> "install" [] g = gr -> "rollback"]
MCGrantFor == [g \in Grants |-> CASE g = ga -> a [] g = gn -> NoArtifact [] g = gr -> b]
MCAttested == {<<k1, a>>, <<k2, a>>}
MCReusedKey == {<<k1, a>>, <<k1, b>>}
MCOneKey == {<<k1, a>>}
MCSymmetry ==
  {p @@ q : p \in Permutations({s1, s2}), q \in Permutations({k1, k2})}
=============================================================================
