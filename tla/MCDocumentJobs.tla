--------------------------- MODULE MCDocumentJobs ---------------------------
(* One job with two results, rb over one source version more than ra, and   *)
(* two questions.                                                           *)
EXTENDS DocumentJobs

CONSTANTS j1, v1, v2, ra, rb, q1, q2

MCResultJob == [r \in Results |-> j1]
MCSources == [r \in Results |-> IF r = rb THEN {v1, v2} ELSE {v1}]
MCQuestionJob == [q \in Questions |-> j1]
=============================================================================
