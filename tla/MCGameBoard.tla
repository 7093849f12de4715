---------------------------- MODULE MCGameBoard ----------------------------
(* Instances of GameBoard on 3x3: a ko in a corner under the ko rules, and *)
(* a crowded board where every suicide is allowed and the history is short. *)
EXTENDS GameBoard, TLC

Grid == (1 .. 3) \X (1 .. 3)
Step(a, b) == a + 1 = b \/ b + 1 = a
Near(p) == {q \in Grid : (p[1] = q[1] /\ Step(p[2], q[2])) \/ (p[2] = q[2] /\ Step(p[1], q[1]))}
GridNeighbors == [p \in Grid |-> Near(p)]
GridBeside == [p \in Grid |-> {q \in Near(p) : q[1] = p[1]}]

Board(black, white) ==
    [p \in Grid |-> IF p \in black THEN "black" ELSE IF p \in white THEN "white" ELSE "empty"]

(* x o .    The o at the top can be taken from the third column, and the   *)
(* . x o    taking stone taken back: a ko.                                 *)
(* . . .                                                                   *)
KoBoard == Board({<<1, 1>>, <<2, 2>>}, {<<1, 2>>, <<2, 3>>})

(* . x o    In the corner x kills two or three of its own stones, or one   *)
(* x o o    alone; o captures.                                             *)
(* o o .                                                                   *)
CrowdedBoard == Board({<<1, 2>>, <<2, 1>>}, {<<1, 3>>, <<2, 2>>, <<2, 3>>, <<3, 1>>, <<3, 2>>})

Game(board, ko, suicide, resets, max_history, max_moves) ==
    [board |-> board, ko |-> ko, suicide |-> suicide, resets |-> resets, max_history |-> max_history, max_moves |-> max_moves]

AllGames ==
    {Game(KoBoard, "NONE", "ALLOWED", FALSE, 5, 2),
     Game(KoBoard, "SIMPLE", "ALLOWED", TRUE, 5, 3),
     Game(KoBoard, "PSK", "ALLOWED", TRUE, 5, 3),
     Game(KoBoard, "SSK", "ALLOWED", TRUE, 5, 3),
     Game(CrowdedBoard, "SIMPLE", "ALL_ALLOWED", TRUE, 2, 3)}
=============================================================================
