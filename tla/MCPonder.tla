------------------------------ MODULE MCPonder ------------------------------
(* Ponder with two workers.  Two simulations per worker are enough for an  *)
(* abort or an early stop to fall before, between and after simulations of *)
(* either worker; CheckEvery = 2 leaves a simulation with no check.        *)
EXTENDS Ponder, TLC
CONSTANTS w1, w2
MCWorkers == {w1, w2}
=============================================================================
