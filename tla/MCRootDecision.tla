--------------------------- MODULE MCRootDecision ---------------------------
(* Instances of RootDecision: the serial search with the robust selection, *)
(* and two workers with the default selection by winrate.                  *)
EXTENDS RootDecision, TLC
CONSTANTS w1, w2, a, b, c

TwoWorkers == {w1, w2}
AllSearches ==
    {[workers |-> {w1}, moves |-> {a, b, c, Pass}, robust |-> TRUE, nodes |-> 7, unst |-> 1],
     [workers |-> {w1, w2}, moves |-> {a, b, Pass}, robust |-> FALSE, nodes |-> 3, unst |-> 1]}
=============================================================================
