----------------------------- MODULE GameBoard -----------------------------
(***************************************************************************)
(* The permanent board of a game (engine/board.c): playing under the rule  *)
(* sets, undoing by replay, the history that is collapsed when it is full, *)
(* setup stones, and the superko test by the hashes kept in the history.   *)
(* The interfaces are GTP, whose undo is followed by reset_engine, and the *)
(* ASCII and GMP ones, whose undo is not.                                  *)
(***************************************************************************)
EXTENDS Position, Sequences, SequencesExt

CONSTANT
    Games           \* the games there may be, a record each:
                    \*   board       what it starts from
                    \*   ko          SIMPLE, NONE, PSK or SSK
                    \*   suicide     FORBIDDEN, ALLOWED or ALL_ALLOWED
                    \*   resets      the interface calls reset_engine after an undo
                    \*   max_history MAX_MOVE_HISTORY
                    \*   max_moves   bound on the moves made and stones set up

ASSUME GameAssumption ==
    \A g \in Games :
        /\ g.board \in [Points -> Colors \cup {"empty"}] /\ NoDeadStrings(g.board)
        /\ g.ko \in {"SIMPLE", "NONE", "PSK", "SSK"}
        /\ g.suicide \in {"FORBIDDEN", "ALLOWED", "ALL_ALLOWED"}
        /\ g.resets \in BOOLEAN
        /\ g.max_history \in Nat \ {0} /\ g.max_moves \in Nat

VARIABLES
    game,           \* the rules, the interface and the bounds: set once, by options
    pos,            \* the current position
    initial,        \* initial_board, initial_board_ko_pos, initial_*_captured
    history,        \* move_history_color / _pos / _hash
    made            \* moves and setup stones, undone or not

vars == <<game, pos, initial, history, made>>

(* A position without its hash, as it is saved and restored.               *)
Saved(P) == [board |-> P.board, ko |-> P.ko, captured |-> P.captured]
Restored(S, hash) == PositionOf(S.board, S.ko, S.captured, hash)

Init ==
    /\ game \in Games
    /\ pos = PositionOf(game.board, NoMove, [c \in Colors |-> 0], HashRecalc(game.board, NoMove))
    /\ initial = Saved(pos)
    /\ history = <<>> /\ made = 0

-----------------------------------------------------------------------------
(* replay_move_history: the first n moves again from the initial position. *)
(* The hash runs on from the one it has, whatever board that was of.       *)
Replay(S, hash, moves) ==
    LET after[k \in 0 .. Len(moves)] ==
            IF k = 0 THEN Restored(S, hash)
            ELSE PlayMoveNoHistory(after[k - 1], moves[k].pos, moves[k].color)
    IN after[Len(moves)]

WithoutKo(hash, ko) == SymDiff(hash, KoPart(ko))

(* MUTANT: the loop over the history stops before its first move.          *)
SuperkoViolation_SkipsFirst(p, c) ==
    LET Q == DoPlayMove(KoCleared(pos), p, c)
        new == WithoutKo(Q.hash, Q.ko)
    IN /\ game.ko \in {"PSK", "SSK"}
       /\ \/ game.ko = "PSK" /\ new = WithoutKo(pos.hash, pos.ko)
          \/ \E k \in 2 .. Len(history) :
                history[k].hash = new /\ (game.ko = "PSK" \/ history[k].color = Other(c))

(* is_superko_violation: the hash the move leads to, without ko, was met   *)
(* before. really_do_trymove plays it as no suicide.                       *)
SuperkoViolation(p, c) ==
    LET Q == DoPlayMove(KoCleared(pos), p, c)
        new == WithoutKo(Q.hash, Q.ko)
    IN /\ game.ko \in {"PSK", "SSK"}
       /\ \/ game.ko = "PSK" /\ new = WithoutKo(pos.hash, pos.ko)
          \/ \E k \in DOMAIN history :
                history[k].hash = new /\ (game.ko = "PSK" \/ history[k].color = Other(c))

IsAllowedMove(p, c) ==
    p # NoMove =>
        /\ pos.board[p] = "empty"
        /\ ~(game.ko # "NONE" /\ IllegalKoCapture(pos, p, c))
        /\ IsSuicide(pos.board, p, c) =>
              /\ game.suicide # "FORBIDDEN"
              /\ game.suicide = "ALLOWED" => HasNeighbor(pos.board, p, c)
        /\ ~SuperkoViolation(p, c)

-----------------------------------------------------------------------------
(* The history is full: its first moves go into the initial position.  The *)
(* board is put back as it was; the replay has gone through the hash.      *)
Collapsed == 1 + game.max_history \div 10

(* MUTANT: one more move is dropped than was replayed.                     *)
Collapse_DropsOneMore ==
    LET Q == Replay(initial, pos.hash, SubSeq(history, 1, Collapsed)) IN
    [initial |-> Saved(Q),
     history |-> SubSeq(history, Collapsed + 2, Len(history)),
     pos |-> Restored(pos, Q.hash)]

Collapse ==
    LET Q == Replay(initial, pos.hash, SubSeq(history, 1, Collapsed)) IN
    [initial |-> Saved(Q),
     history |-> SubSeq(history, Collapsed + 1, Len(history)),
     pos |-> Restored(pos, Q.hash)]

(* play_move, on the position, initial position and history S.             *)
Played(S, p, c) ==
    [initial |-> S.initial,
     history |-> Append(S.history, [color |-> c, pos |-> p, hash |-> WithoutKo(S.pos.hash, S.pos.ko)]),
     pos |-> PlayMoveNoHistory(S.pos, p, c)]

PlayMove(p, c) ==
    LET S == IF Len(history) >= game.max_history THEN Collapse
             ELSE [initial |-> initial, history |-> history, pos |-> pos]
        T == Played(S, p, c)
    IN /\ made < game.max_moves
       /\ pos' = T.pos /\ initial' = T.initial /\ history' = T.history
       /\ made' = made + 1 /\ UNCHANGED game

(* A move from outside: gtp_play, do_move.                                 *)
Play(p, c) == IsAllowedMove(p, c) /\ PlayMove(p, c)

(* hashdata_recalc in reset_engine.                                        *)
Rehashed(P) == Restored(P, HashRecalc(P.board, P.ko))

(* A genmove resets the engine; the move it finds is played afterwards.    *)
ResetEngine ==
    /\ pos' = Rehashed(pos)
    /\ UNCHANGED <<game, initial, history, made>>

UndoMove(n) ==
    LET rest == SubSeq(history, 1, Len(history) - n)
        Q == Replay(initial, pos.hash, rest)
    IN /\ n <= Len(history)
       /\ pos' = IF game.resets THEN Rehashed(Q) ELSE Q
       /\ history' = rest
       /\ UNCHANGED <<game, initial, made>>

(* add_stone, remove_stone: the history is destroyed.  Handicap and sgf    *)
(* setup are the callers, with stones that have liberties and no ko.       *)
Setup(P) ==
    /\ pos.ko = NoMove /\ NoDeadStrings(P.board)
    /\ made < game.max_moves
    /\ pos' = P /\ initial' = Saved(P) /\ history' = <<>>
    /\ made' = made + 1 /\ UNCHANGED game

AddStone(p, c) ==
    /\ pos.board[p] = "empty"
    /\ Setup(StonePut(pos, p, c))

RemoveStone(p) ==
    /\ pos.board[p] \in Colors
    /\ Setup(StoneTaken(pos, p))

Next ==
    \/ \E p \in Points \cup {NoMove}, c \in Colors : Play(p, c)
    \/ ResetEngine
    \/ \E n \in 1 .. Len(history) : UndoMove(n)
    \/ \E p \in Points, c \in Colors : AddStone(p, c)
    \/ \E p \in Points : RemoveStone(p)

Spec == Init /\ [][Next]_vars

-----------------------------------------------------------------------------
TypeOK ==
    /\ pos \in PositionType
    /\ initial \in [board : [Points -> Colors \cup {"empty"}], ko : Points \cup {NoMove}, captured : [Colors -> Nat]]
    /\ Len(history) <= game.max_history
    /\ \A k \in DOMAIN history :
          history[k].color \in Colors /\ history[k].pos \in Points \cup {NoMove}
    /\ made \in 0 .. game.max_moves /\ game \in Games

(* The boards of the game as the history tells it, the initial one first.  *)
Boards == [k \in 0 .. Len(history) |-> Replay(initial, {}, SubSeq(history, 1, k)).board]

(* "Check the hash table to see if it corresponds to the cumulative one":  *)
(* the board hash is the hash of the board.                                *)
HashIsOfTheBoard == pos.hash = HashRecalc(pos.board, pos.ko)

(* It is for an interface whose undo recalculates, in games that end       *)
(* before their history is collapsed (which, too, replays through the hash *)
(* of another board and leaves it so until the next genmove).              *)
Faithful == game.resets /\ game.max_moves <= game.max_history
HashFollowsThePlay == Faithful => HashIsOfTheBoard

(* The moves that repeat a board the remembered game had before ("PSK -    *)
(* Repetition of a previous position forbidden"), or had before with the   *)
(* same player to move ("SSK - ..."; only players that did move).          *)
Repeats ==
    LET board == Boards
        before(k) == IF game.ko = "PSK" THEN {board[j] : j \in 0 .. k - 1}
                     ELSE {board[j - 1] : j \in {j \in 1 .. k - 1 : history[j].color = Other(history[k].color)}}
    IN {k \in DOMAIN history :
            /\ game.ko \in {"PSK", "SSK"} /\ history[k].pos # NoMove
            /\ board[k] \in before(k)}

SuicidalMoves ==
    LET board == Boards IN
    {k \in DOMAIN history : history[k].pos # NoMove /\ IsSuicide(board[k - 1], history[k].pos, history[k].color)}

(* The superko promise, of the moves that are no suicides: the hashes kept *)
(* in the history, whatever was undone or set up, exclude the repetitions  *)
(* the rule excludes, as long as they are the hashes of their boards.      *)
NoRepetition == Faithful => Repeats \subseteq SuicidalMoves

(* Every stone that was put is on the board or counted as a prisoner, and  *)
(* an undo has something to rely on: the history, replayed from the        *)
(* initial position, leads to the board, the ko and the prisoners of the   *)
(* game, however much was collapsed, undone or set up.                     *)
HistoryLeadsHere ==
    /\ Len(history) <= game.max_history
    /\ Saved(Replay(initial, {}, history)) = Saved(pos)
    /\ \A c \in Colors :
        Cardinality(Stones(pos.board, c)) + pos.captured[c] =
            Cardinality(Stones(initial.board, c)) + initial.captured[c]
            + Cardinality({k \in DOMAIN history : history[k].color = c /\ history[k].pos # NoMove})

(* The tests that rest on shapes: no string without liberties, a ko point  *)
(* among stones of one color (is_legal looks at two neighbors only), and a *)
(* suicide test that agrees with the rules.                                *)
ShapesAreSound ==
    /\ NoDeadStrings(pos.board) /\ KoIsSurrounded(pos)
    /\ \A p \in Points, c \in Colors : pos.board[p] = "empty" =>
          (IsSuicide(pos.board, p, c) <=> SuicideByTheRules(pos.board, p, c))
=============================================================================
