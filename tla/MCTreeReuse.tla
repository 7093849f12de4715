---------------------------- MODULE MCTreeReuse -----------------------------
(* Instances of TreeReuse: one board with a cache smaller than the trees;  *)
(* two board sizes.                                                        *)
EXTENDS TreeReuse
CONSTANTS a, b, c
TwoBoards == {{a}, {a, b}}
LargerBoard == {{a, b, c}}
=============================================================================
