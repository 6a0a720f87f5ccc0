---------------------------- MODULE MCDriftHistory ----------------------------
(* One tool of two versions, three stored snapshots of which two are       *)
(* listed, an interval of three ticks, and a clock that is moved ahead,    *)
(* back, and set right again.                                              *)
EXTENDS DriftHistory, TLC

MCMoves == {-2, 2}
MCSymmetry == Permutations(Tools) \cup Permutations(Versions) \cup Permutations(Runners)
=============================================================================
