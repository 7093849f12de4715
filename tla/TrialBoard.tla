----------------------------- MODULE TrialBoard -----------------------------
(***************************************************************************)
(* The reading stack of engine/board.c on the string records of            *)
(* StringBoard: trymove, tryko, komaster_trymove and popgo, and the        *)
(* permanent moves that do or do not rebuild the records.  Every decision  *)
(* is made from the records, as in the code, never from the board.         *)
(***************************************************************************)
EXTENDS StringBoard

CONSTANTS
    Boards,         \* the boards reading may start from
    Diagonal,       \* point -> the points SW, NW, NE and SE of it
    Readers,        \* which of trymove, tryko, komaster_trymove are called
    Candidates,     \* the points reading considers (bounds the model)
    Alternate,      \* komaster_trymove is called for the players in turn
    MaxStack,       \* MAXSTACK
    MaxPlayed,      \* bound on the permanent moves
    MaxMoves        \* bound on the permanent moves and the trial moves after them

ASSUME TrialAssumption ==
    /\ Readers \subseteq {"trymove", "tryko", "komaster_trymove"}
    /\ Boards \subseteq [Points -> Colors \cup {"empty"}]
    /\ Candidates \subseteq Points /\ Alternate \in BOOLEAN /\ {MaxStack, MaxPlayed, MaxMoves} \subseteq Nat

VARIABLES
    M,              \* the memory of StringBoard
    moves,          \* stack and move_color: stackp is its length
    hashes,         \* board_hash_stack
    replaying,      \* between the two new_position of replay_move_history
    saved,          \* history variable: the positions moves were tried from
    played          \* the permanent moves made (bounded by MaxPlayed)

vars == <<M, moves, hashes, replaying, saved, played>>

stackp == Len(moves)

(* A memory without its records, hash and log.                             *)
Bare(N) ==
    [board |-> N.board, ko |-> N.ko, captured |-> N.captured, komaster |-> N.komaster, kom_pos |-> N.kom_pos]

Init ==
    /\ \E b \in Boards : NoDeadStrings(b) /\ M = Fresh(b)
    /\ moves = <<>> /\ hashes = <<>> /\ saved = <<>> /\ replaying = FALSE /\ played = 0

-----------------------------------------------------------------------------
(* is_suicide and is_ko, on the records N.                                 *)
Suicide(N, pos, color) ==
    \A q \in Neighbors[pos] :
        /\ N.board[q] # "empty"
        /\ (N.board[q] = color) = (N.liberties[N.number[q]] = 1)

(* The stone a ko capture takes; none if the move is no ko capture.        *)
KoStone(N, pos, color) ==
    LET atari == {q \in Neighbors[pos] : N.board[q] = Other(color) /\ N.liberties[N.number[q]] = 1} IN
    IF (\A q \in Neighbors[pos] : N.board[q] = Other(color))
       /\ Cardinality(atari) = 1 /\ \A q \in atari : N.size[N.number[q]] = 1
    THEN atari ELSE {}

(* What do_trymove tests before it makes a move; ignore_ko is tryko.       *)
Legal(pos, color, ignore_ko) ==
    /\ pos # NoMove =>
          /\ M.board[pos] = "empty"
          /\ ignore_ko \/ ~IllegalKoCapture(M, pos, color)
          /\ ~Suicide(M, pos, color)
    /\ stackp < MaxStack - 2

(* MUTANT: the ko point is not pushed before it is given up.               *)
ReallyDoTrymove_KoUnpushed(pos, color) ==
    LET N == KoCleared(BeginChangeRecord(M)) IN
    IF pos = NoMove THEN N
    ELSE PlayStone(PushAll(N, <<<<"captured", "black">>, <<"captured", "white">>>>), pos, color)

(* really_do_trymove                                                       *)
ReallyDoTrymove(pos, color) ==
    LET N == KoCleared(Push(BeginChangeRecord(M), <<"ko">>)) IN
    IF pos = NoMove THEN N
    ELSE PlayStone(PushAll(N, <<<<"captured", "black">>, <<"captured", "white">>>>), pos, color)

Stacked(pos, color) ==
    /\ stackp + played < MaxMoves
    /\ moves' = Append(moves, [pos |-> pos, color |-> color])
    /\ hashes' = Append(hashes, M.hash)
    /\ saved' = Append(saved, Bare(M))
    /\ UNCHANGED <<replaying, played>>

Trymove(pos, color, ignore_ko) ==
    /\ ~replaying /\ Legal(pos, color, ignore_ko)
    /\ Stacked(pos, color)
    /\ M' = ReallyDoTrymove(pos, color)

-----------------------------------------------------------------------------
KomasterHash(k) == <<"komaster", k>>
KomPosHash(p) == <<"kom_pos", p>>

(* MUTANT: the komaster leaves the hash as it is.                          *)
SetNewKomaster_KeepsHash(N, komaster, kom_pos) ==
    Assign(Assign(N, <<"komaster">>, komaster), <<"kom_pos">>, kom_pos)

(* set_new_komaster and set_new_kom_pos                                    *)
SetNewKomaster(N, komaster, kom_pos) ==
    LET K == Assign(Assign(N, <<"komaster">>, komaster), <<"kom_pos">>, kom_pos)
        Turned(a, b) == SymDiff({a}, {b})
    IN [K EXCEPT !.hash = SymDiff(SymDiff(@, Turned(KomasterHash(N.komaster), KomasterHash(komaster))),
                                  Turned(KomPosHash(N.kom_pos), KomPosHash(kom_pos)))]

Gray(color) == IF color = "white" THEN "gray_white" ELSE "gray_black"

(* The ko captures a komaster state rules out.                             *)
KoRefused(pos, color, kpos) ==
    \/ M.komaster = Other(color) /\ pos = M.kom_pos
    \/ M.komaster \in {"gray_white", "gray_black"}
    \/ M.komaster = color /\ kpos \notin Diagonal[M.kom_pos]
    \/ M.komaster = "weak_ko" /\ pos # M.ko /\ kpos \notin Diagonal[M.kom_pos]

(* The ko of a komaster is filled, or no ko any more and safe from other.  *)
Resolved(N, color) ==
    /\ N.komaster \in {color, Gray(color)}
    /\ \/ N.board[N.kom_pos] # "empty"
       \/ KoStone(N, N.kom_pos, Other(color)) = {} /\ Suicide(N, N.kom_pos, Other(color))

(* MUTANT: no weak komaster.                                               *)
KomasterAfter_NeverWeak(N, color, ko_move, kpos) ==
    CASE ~ko_move /\ (Resolved(N, color) \/ N.komaster = "weak_ko") -> SetNewKomaster(N, "empty", NoMove)
      [] ko_move /\ N.komaster = Other(color) -> SetNewKomaster(N, Gray(Other(color)), N.kom_pos)
      [] ko_move /\ N.komaster = color -> SetNewKomaster(N, color, kpos)
      [] OTHER -> N

(* The komaster after a move that is not conditional, or not the first.    *)
KomasterAfter(N, color, ko_move, kpos) ==
    CASE ~ko_move /\ (Resolved(N, color) \/ N.komaster = "weak_ko") -> SetNewKomaster(N, "empty", NoMove)
      [] ko_move /\ N.komaster = Other(color) -> SetNewKomaster(N, Gray(Other(color)), N.kom_pos)
      [] ko_move /\ N.komaster = color -> SetNewKomaster(N, color, kpos)
      [] ko_move /\ N.komaster \in {"empty", "weak_ko"} /\ M.ko # NoMove -> SetNewKomaster(N, "weak_ko", M.ko)
      [] OTHER -> N

(* komaster_trymove; kpos is not set unless the move is a ko capture.      *)
KomasterTrymove(pos, color, consider_conditional_ko) ==
    LET ko == KoStone(M, pos, color)
        conditional == ~Legal(pos, color, FALSE)
        N == ReallyDoTrymove(pos, color)
    IN /\ ~replaying /\ M.board[pos] = "empty"
       /\ \A kpos \in ko : ~KoRefused(pos, color, kpos)
       /\ conditional => consider_conditional_ko /\ Legal(pos, color, TRUE)
       /\ Stacked(pos, color)
       /\ \E kpos \in IF ko = {} THEN Points \cup {NoMove} ELSE ko :
             M' = IF conditional /\ M.komaster \in {"empty", "weak_ko"}
                  THEN SetNewKomaster(N, color, kpos)
                  ELSE KomasterAfter(N, color, ko # {}, kpos)

(* popgo, undo_trymove                                                     *)
Popgo ==
    /\ stackp > 0
    /\ M' = Forget([PopMove(M) EXCEPT !.hash = Last(hashes)])
    /\ moves' = Front(moves) /\ hashes' = Front(hashes) /\ saved' = Front(saved)
    /\ UNCHANGED <<replaying, played>>

-----------------------------------------------------------------------------
(* play_move_no_history before its new_position.                           *)
Played(pos, color) ==
    LET N == KoCleared(M) IN
    IF pos = NoMove THEN N
    ELSE IF Suicide(M, pos, color) THEN CommitSuicide(N, pos, color)
    ELSE PlayStone(N, pos, color)

Permanently(pos, color) ==
    /\ stackp = 0 /\ played < MaxPlayed /\ played < MaxMoves
    /\ pos # NoMove => M.board[pos] = "empty"
    /\ played' = played + 1
    /\ UNCHANGED <<moves, hashes, saved>>

(* play_move: the records are rebuilt.                                     *)
PlayMove(pos, color) ==
    /\ ~replaying /\ Permanently(pos, color)
    /\ M' = NewPosition(Played(pos, color))
    /\ UNCHANGED replaying

(* A step of replay_move_history: the records are changed by the move, and *)
(* rebuilt only when no slot is free.  A replay starts from a position that*)
(* was permanent once, here the present one.                               *)
ReplayStep(pos, color) ==
    LET N == Played(pos, color) IN
    /\ Permanently(pos, color)
    /\ M' = IF N.next_string = MaxStrings THEN NewPosition(N) ELSE Forget([N EXCEPT !.log = <<>>])
    /\ replaying' = TRUE

ReplayEnd ==
    /\ replaying
    /\ M' = NewPosition(M) /\ replaying' = FALSE
    /\ UNCHANGED <<moves, hashes, saved, played>>

Next ==
    \/ \E pos \in Candidates \cup {NoMove}, color \in Colors :
          \/ "trymove" \in Readers /\ Trymove(pos, color, FALSE)
          \/ "tryko" \in Readers /\ Trymove(pos, color, TRUE)
          \/ PlayMove(pos, color)
          \/ ReplayStep(pos, color)
    \/ \E pos \in Candidates, color \in Colors, consider \in BOOLEAN :
          /\ "komaster_trymove" \in Readers
          /\ Alternate /\ stackp > 0 => color = Other(Last(moves).color)
          /\ KomasterTrymove(pos, color, consider)
    \/ Popgo
    \/ ReplayEnd

Spec == Init /\ [][Next]_vars

-----------------------------------------------------------------------------
Levels == Append(saved, Bare(M))

Stack == INSTANCE TrialStack WITH positions <- Levels

(* Trial moves and popgo are a stack of positions: the string records, the *)
(* log and the marks in it stand for every position reading came from, and *)
(* no sequence of moves and undos brings back a stone, a ko, a prisoner or *)
(* a komaster other than those.                                            *)
TrialSpec == Stack!Spec

TypeOK ==
    /\ M.board \in [Points -> Colors \cup {"empty"}] /\ M.ko \in Points \cup {NoMove}
    /\ M.komaster \in Stack!Komasters /\ (M.komaster = "empty" <=> M.kom_pos = NoMove)
    /\ stackp <= MaxStack - 2 /\ Len(hashes) = stackp /\ Len(saved) = stackp
    /\ Cardinality({i \in DOMAIN M.log : M.log[i] = Mark}) = stackp
    /\ M.next_string \in 0 .. MaxStrings /\ replaying \in BOOLEAN /\ played \in 0 .. MaxPlayed

(* Whatever was played, captured and undone, the string numbers, the rings *)
(* of stones, the liberties and the neighbor lists are those of the board. *)
StringsAreOfTheBoard == RecordsAreOfTheBoard(M)

(* The hash at every level is that of its position: the hash read from the *)
(* hash stack belongs to what the log brings back, komaster included.      *)
HashesAreOfTheLevels ==
    \A k \in 1 .. stackp + 1 :
        LET N == Levels[k]
            Turned(a, b) == SymDiff({a}, {b})
        IN (IF k > stackp THEN M.hash ELSE hashes[k]) =
               HashRecalc(N.board, N.ko)
               \cup Turned(KomasterHash("empty"), KomasterHash(N.komaster))
               \cup Turned(KomPosHash(NoMove), KomPosHash(N.kom_pos))

(* A move that only the ko forbids is a ko capture: the position of the ko *)
(* that komaster_trymove then takes from is_ko was set by it.              *)
ConditionalKoIsAKo ==
    \A pos \in Points, color \in Colors :
        M.board[pos] = "empty" /\ IllegalKoCapture(M, pos, color) => KoStone(M, pos, color) # {}

(* "These mediate ko captures to prevent the occurrence of infinite loops" *)
(* (doc/reading.texi): in a line of alternate moves under the komaster     *)
(* scheme no position, ko and komaster comes back with the same player to  *)
(* move; from there on the line would go round for ever.                   *)
Situation(k) ==
    [board |-> Levels[k].board, ko |-> Levels[k].ko, komaster |-> Levels[k].komaster, kom_pos |-> Levels[k].kom_pos]

KosDoNotCycle ==
    \A j, k \in 1 .. stackp :
        j < k /\ (\A i \in j .. k - 1 : moves[i + 1].color = Other(moves[i].color))
              /\ moves[j].color = moves[k].color
            => Situation(j) # Situation(k)
=============================================================================
