------------------------ MODULE MCUnconditionalLife ------------------------
(* Instances of UnconditionalLife on the boards of MCGrid, visited from the*)
(* first point and from the last.                                          *)
EXTENDS UnconditionalLife, MCGrid

BothWays == {GridOrder, Reverse(GridOrder)}

(* Every content of the points free; the others are as drawn.              *)
Filled(board, free) ==
    {[p \in Grid |-> IF p \in free THEN f[p] ELSE board[p]] : f \in [free -> {"black", "white", "empty"}]}

(* . x . ?  Two eyes of black at the left, connected or not, with room for *)
(* x ? ? ?  one or two more, and for white to live or to die.              *)
(* . x . x                                                                 *)
TwoEyes ==
    {[board |-> b, ko |-> NoMove] :
        b \in {b \in Filled(Drawn({2, 5, 10, 12}, {}), {4, 6, 7, 8}) : NoDeadStrings(b)}}

(* . x ? ?  White takes the stone at the lower left by a move at k, and   *)
(* o x ? ?  black may not take back at once.                               *)
(* x k x x                                                                 *)
KoTaken(b) ==
    DoPlayMove([board |-> b, ko |-> NoMove, captured |-> [c \in Colors |-> 0], hash |-> HashRecalc(b, NoMove)],
               10, "white")

JustTaken ==
    {[board |-> KoTaken(b).board, ko |-> KoTaken(b).ko] :
        b \in {b \in Filled(Drawn({2, 6, 9, 11, 12}, {5}), {3, 4, 7, 8}) :
                   NoDeadStrings(b) /\ KoTaken(b).ko # NoMove}}

AllPositions == TwoEyes \cup JustTaken
=============================================================================
