----------------------------- MODULE MCMcBoard ------------------------------
(* Instances of McBoard on the boards of MCGrid.                           *)
EXTENDS McBoard, MCGrid
CONSTANT MostEmpty  \* bound: a playout starts with at most that many empty points

StartBoards == BoardsBySymmetry(MostEmpty)

(* The ko points a board may have: one stone was taken there by the stone  *)
(* at q, which was played last.                                            *)
Taken(b, k, q) ==
    LET before == [b EXCEPT ![k] = Other(b[q]), ![q] = "empty"]
        after == DoPlayMove([board |-> before, ko |-> NoMove, captured |-> [c \in Colors |-> 0],
                             hash |-> HashRecalc(before, NoMove)], q, b[q])
    IN NoDeadStrings(before) /\ after.board = b /\ after.ko = k

KoPoints(b) ==
    {k \in Stones(b, "empty") : \E q \in Neighbors[k] : b[q] # "empty" /\ Taken(b, k, q)}

StartPositions ==
    UNION {{[board |-> b, ko |-> k] : k \in {NoMove} \cup KoPoints(b)} : b \in StartBoards}
=============================================================================
