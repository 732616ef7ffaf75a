------------------------------ MODULE MCLeases ------------------------------
(* Three attempts in one project: a reviewer and a writer that are attempts *)
(* one and two of the same task of run r1, and a writer of another task in  *)
(* run r2.  Each may be leased MaxEpoch times.                              *)
EXTENDS Leases, TLC

CONSTANTS w, rv, v, t1, t2, r1, r2, p1, src, srcApi, docs

MCAttempts == {w, rv, v}
MCTasks == {t1, t2}
MCRuns == {r1, r2}
MCTaskOf == (w :> t1) @@ (rv :> t1) @@ (v :> t2)
MCRunOf == (w :> r1) @@ (rv :> r1) @@ (v :> r2)
MCProjectOf == (r1 :> p1) @@ (r2 :> p1)
MCNumberOf == (w :> 2) @@ (rv :> 1) @@ (v :> 1)
MCPaths == {src, srcApi, docs}
MCCovers == {<<p, p>> : p \in MCPaths} \cup {<<src, srcApi>>}
MCAllowed == (w :> {src}) @@ (rv :> {srcApi}) @@ (v :> {srcApi, docs})
=============================================================================
