----------------------------- MODULE TrialStack -----------------------------
(***************************************************************************)
(* What trymove, tryko, komaster_trymove and popgo promise (engine/board.c,*)
(* doc/reading.texi): a stack of positions.  A trial move puts the         *)
(* position it leads to, by the rules of play, on the stack, popgo takes   *)
(* it off and everything is as it was; a permanent move changes the only   *)
(* position there is.                                                      *)
(***************************************************************************)
EXTENDS Position, Sequences, SequencesExt

CONSTANTS
    Boards,         \* the boards reading may start from
    MaxStack        \* MAXSTACK

VARIABLE positions  \* the permanent position, and one more for each trial move

Komasters == {"empty", "white", "black", "gray_white", "gray_black", "weak_ko"}

Start(board) ==
    [board |-> board, ko |-> NoMove, captured |-> [c \in Colors |-> 0], komaster |-> "empty", kom_pos |-> NoMove]

(* A move of Position, on a position that does not carry its hash.         *)
WithHash(P) == [board |-> P.board, ko |-> P.ko, captured |-> P.captured, hash |-> {}]
Becomes(P, Q) == [P EXCEPT !.board = Q.board, !.ko = Q.ko, !.captured = Q.captured]

Init == \E b \in Boards : NoDeadStrings(b) /\ positions = <<Start(b)>>

(* The stone stays, since suicide is refused; the komaster is free.       *)
Try(pos, color) ==
    LET P == Last(positions)
        Q == IF pos = NoMove THEN KoCleared(WithHash(P)) ELSE DoPlayMove(KoCleared(WithHash(P)), pos, color)
    IN /\ Len(positions) < MaxStack - 1 /\ Len(positions') = Len(positions) + 1
       /\ Front(positions') = positions
       /\ pos # NoMove => P.board[pos] = "empty" /\ Last(positions').board[pos] = color
       /\ Last(positions') \in [board : {Q.board}, ko : {Q.ko}, captured : {Q.captured},
                               komaster : Komasters, kom_pos : Points \cup {NoMove}]
       /\ pos # NoMove => ~SuicideByTheRules(P.board, pos, color)

Pop == Len(positions) > 1 /\ positions' = Front(positions)

Play(pos, color) ==
    LET P == Last(positions) IN
    /\ Len(positions) = 1
    /\ pos # NoMove => P.board[pos] = "empty"
    /\ positions' = <<Becomes(P, PlayMoveNoHistory(WithHash(P), pos, color))>>

Next ==
    \/ \E pos \in Points \cup {NoMove}, color \in Colors : Try(pos, color) \/ Play(pos, color)
    \/ Pop

Spec == Init /\ [][Next]_positions
=============================================================================
