------------------------------ MODULE Position ------------------------------
(***************************************************************************)
(* A Go position and what a move does to it (engine/board.c): strings and  *)
(* their liberties, captures, suicide, the simple ko point, the prisoner   *)
(* counts and the incremental board hash.  The incremental string records  *)
(* are not here: a string and its liberties are read off the board.        *)
(*                                                                         *)
(* A position is a record [board, ko, captured, hash].  A hash is the set  *)
(* of the random numbers that are xored together in it, so two hashes are  *)
(* equal exactly when their contributions are: collisions are left out.    *)
(***************************************************************************)
EXTENDS Naturals, FiniteSets, FiniteSetsExt

CONSTANTS
    Points,
    Neighbors,      \* point -> the points SOUTH, WEST, NORTH and EAST of it
    Beside,         \* point -> the points WEST and EAST of it
    NoMove          \* NO_MOVE, PASS_MOVE

ASSUME PointsAssumption ==
    /\ IsFiniteSet(Points) /\ NoMove \notin Points
    /\ Neighbors \in [Points -> SUBSET Points] /\ Beside \in [Points -> SUBSET Points]
    /\ \A p, q \in Points : q \in Neighbors[p] <=> p \in Neighbors[q]
    /\ \A p \in Points : p \notin Neighbors[p] /\ Beside[p] \subseteq Neighbors[p]

Colors == {"black", "white"}
Other(c) == IF c = "black" THEN "white" ELSE "black"

StoneHash(p, c) == <<"stone", p, c>>
KoHash(p) == <<"ko", p>>
KoPart(ko) == IF ko = NoMove THEN {} ELSE {KoHash(ko)}

(* hashdata_recalc                                                         *)
HashRecalc(board, ko) ==
    {StoneHash(p, board[p]) : p \in {q \in Points : board[q] \in Colors}} \cup KoPart(ko)

Stones(board, c) == {p \in Points : board[p] = c}

(* The string of the stone at p, and the liberties of a set of stones.     *)
StringAt(board, p) ==
    LET own == Stones(board, board[p])
        grown[n \in 0 .. Cardinality(own)] ==
            IF n = 0 THEN {p}
            ELSE LET S == grown[n - 1] IN S \cup {q \in own : Neighbors[q] \cap S # {}}
    IN grown[Cardinality(own)]

LibertiesOf(board, S) == {q \in Points : board[q] = "empty" /\ Neighbors[q] \cap S # {}}

Liberties(board, p) == LibertiesOf(board, StringAt(board, p))

-----------------------------------------------------------------------------
(* MUTANT: the opponent strings are not asked for their liberties.         *)
IsSuicide_NoCapture(board, pos, color) ==
    \A q \in Neighbors[pos] :
        /\ board[q] # "empty"
        /\ board[q] = color => Cardinality(Liberties(board, q)) = 1

(* No empty neighbor, no opponent string in atari, no friendly string with *)
(* a second liberty.                                                       *)
IsSuicide(board, pos, color) ==
    \A q \in Neighbors[pos] :
        /\ board[q] # "empty"
        /\ (board[q] = color) = (Cardinality(Liberties(board, q)) = 1)

HasNeighbor(board, pos, color) == \E q \in Neighbors[pos] : board[q] = color

(* The point a capture at pos would take from; a ko capture takes one      *)
(* stone and plays among opponent stones only.                             *)
CapturedBy(board, pos, color) ==
    UNION {StringAt(board, q) :
             q \in {q \in Neighbors[pos] : board[q] = Other(color) /\ Liberties(board, q) = {pos}}}

IsKo(board, pos, color) ==
    /\ \A q \in Neighbors[pos] : board[q] = Other(color)
    /\ Cardinality(CapturedBy(board, pos, color)) = 1

IllegalKoCapture(P, pos, color) ==
    pos = P.ko /\ \E q \in Beside[pos] : P.board[q] = Other(color)

-----------------------------------------------------------------------------
(* What a position consists of.                                            *)
PositionOf(board, ko, captured, hash) ==
    [board |-> board, ko |-> ko, captured |-> captured, hash |-> hash]

(* DO_REMOVE_STONE for a set of stones, with the prisoners they make.      *)
Removed(P, S, color) ==
    PositionOf([p \in Points |-> IF p \in S THEN "empty" ELSE P.board[p]],
               P.ko, [P.captured EXCEPT ![color] = @ + Cardinality(S)],
               SymDiff(P.hash, {StoneHash(p, P.board[p]) : p \in S}))

(* A stone is put or taken off, and nothing else happens.                  *)
StonePut(P, pos, color) ==
    PositionOf([P.board EXCEPT ![pos] = color], P.ko, P.captured,
               SymDiff(P.hash, {StoneHash(pos, color)}))

StoneTaken(P, pos) ==
    PositionOf([P.board EXCEPT ![pos] = "empty"], P.ko, P.captured,
               SymDiff(P.hash, {StoneHash(pos, P.board[pos])}))

(* do_play_move: put the stone, capture, and note a ko.                    *)
DoPlayMove(P, pos, color) ==
    LET taken == CapturedBy(P.board, pos, color)
        Q == Removed(StonePut(P, pos, color), taken, Other(color))
        libs == Liberties(Q.board, pos)
        ko == /\ ~HasNeighbor(P.board, pos, color)
              /\ Cardinality(libs) = 1 /\ Cardinality(taken) = 1
    IN IF ko THEN LET kpos == CHOOSE l \in libs : TRUE
                  IN PositionOf(Q.board, kpos, Q.captured,
                                SymDiff(SymDiff(Q.hash, KoPart(Q.ko)), {KoHash(kpos)}))
       ELSE Q

(* do_commit_suicide: the stone is never put, but counted as a prisoner.   *)
DoCommitSuicide(P, pos, color) ==
    LET dying == UNION {StringAt(P.board, q) : q \in {q \in Neighbors[pos] : P.board[q] = color}}
        Q == Removed(P, dying, color)
    IN PositionOf(Q.board, Q.ko, [Q.captured EXCEPT ![color] = @ + 1], Q.hash)

(* MUTANT: the ko point is forgotten without its hash.                     *)
KoCleared_LeavesHash(P) == [P EXCEPT !.ko = NoMove]

(* The ko point is given up before a move.                                 *)
KoCleared(P) == [P EXCEPT !.ko = NoMove, !.hash = SymDiff(@, KoPart(P.ko))]

(* play_move_no_history                                                    *)
PlayMoveNoHistory(P, pos, color) ==
    IF pos = NoMove THEN KoCleared(P)
    ELSE IF IsSuicide(P.board, pos, color) THEN DoCommitSuicide(KoCleared(P), pos, color)
    ELSE DoPlayMove(KoCleared(P), pos, color)

-----------------------------------------------------------------------------
PositionType ==
    [board : [Points -> Colors \cup {"empty"}], ko : Points \cup {NoMove}, captured : [Colors -> Nat],
     hash : SUBSET ({StoneHash(p, c) : p \in Points, c \in Colors} \cup {KoHash(p) : p \in Points})]

(* Every stone on the board is in a string with a liberty.                 *)
NoDeadStrings(board) == \A p \in Points : board[p] \in Colors => Liberties(board, p) # {}

(* "guaranteed to have all neighbors of the same color, or off board"      *)
KoIsSurrounded(P) ==
    P.ko # NoMove =>
        /\ P.board[P.ko] = "empty"
        /\ \E c \in Colors : \A q \in Neighbors[P.ko] : P.board[q] = c

(* What is_suicide decides from liberty counts is suicide by the rules:    *)
(* after the move and its captures the new stone's string has no liberty.  *)
SuicideByTheRules(board, pos, color) ==
    LET after == [board EXCEPT ![pos] = color]
        dead == {p \in Stones(board, Other(color)) : LibertiesOf(after, StringAt(after, p)) = {}}
    IN dead = {} /\ Liberties(after, pos) = {}
=============================================================================
