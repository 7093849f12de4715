---------------------------- MODULE MCTrialBoard ----------------------------
(* Instances of TrialBoard on the boards of MCGrid.                        *)
EXTENDS TrialBoard, MCGrid

(* Every board, up to the exchange of the colors, which the code treats    *)
(* alike: the first stone is black.                                        *)
AnyBoard == BoardsUpToColor(Rows * Columns)

(* x o . o x . x o . o    Three kos: black takes at 3 and at 9, white at 6,  *)
(* . x o . o x . x o .    and each can be taken back.                        *)
ThreeKos == {Drawn({1, 5, 7, 12, 16, 18}, {2, 4, 8, 10, 13, 15, 19})}
=============================================================================
