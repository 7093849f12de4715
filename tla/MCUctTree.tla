----------------------------- MODULE MCUctTree -----------------------------
(* An instance of UctTree: two workers, two playable points and a refused  *)
(* one, a pool of four: contention for one parent, expansion at both       *)
(* depths, and the pool ends inside a descent.                             *)
EXTENDS UctTree, TLC
CONSTANTS t1, t2, p1, p2, p3
TwoThreads == {t1, t2}
ThreePoints == {p1, p2, p3}
OneRefused == {p3}
=============================================================================
