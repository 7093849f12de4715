------------------------- MODULE UnconditionalLife -------------------------
(***************************************************************************)
(* What is settled on the board whatever is played (engine/unconditional.c *)
(* and mc_benson_color of engine/montecarlo.c): the strings of a color that*)
(* cannot be captured even if the opponent plays an arbitrary number of    *)
(* consecutive moves, the territory they make, and the moves there is never*)
(* any need to play.  A position is analyzed once, by both algorithms, and *)
(* then the opponent plays on alone.                                       *)
(*                                                                         *)
(* Left out: potential_sekis, the two-stone strings with no edge and no    *)
(* own stone among their 8 neighbors each, and the search for a seki that  *)
(* goes with them; on 3x4 points such a string is the only one of its color*)
(* and nothing is settled for it, in the code (none_invincible) or here.   *)
(* And that mc_benson_color gives up on a board with more than             *)
(* MC_BENSON_MAX chains or regions.                                        *)
(***************************************************************************)
EXTENDS Position, Sequences, SequencesExt

CONSTANTS
    Orders,         \* orders in which points are visited: BOARDMIN first is one
    StartPositions, \* [board, ko]
    HasAPoint       \* -1 in the code: a move that is not meaningless

ASSUME LifeAssumption ==
    /\ \A o \in Orders : ToSet(o) = Points
    /\ HasAPoint \notin Points \cup {NoMove}
    /\ \A s \in StartPositions : s.board \in [Points -> Colors \cup {"empty"}] /\ NoDeadStrings(s.board)

VARIABLES
    P,              \* the position
    color,          \* whose stones and territory are asked for
    order,
    verdict         \* what the analyses said, or NotYet

lifeVars == <<P, color, order, verdict>>

Listed(S, o) == SelectSeq(o, LAMBDA p : p \in S)
Libs(Q, pos) == Liberties(Q.board, pos)

(* A string is visited at one stone, its origin: the first one visited.    *)
IsOrigin(Q, pos, c, o) == Q.board[pos] = c /\ Listed(StringAt(Q.board, pos), o)[1] = pos

-----------------------------------------------------------------------------
(* do_trymove: Q again if the move is not played.                          *)
TryKo(Q, pos, c) ==
    IF Q.board[pos] # "empty" \/ IsSuicide(Q.board, pos, c) THEN Q ELSE DoPlayMove(KoCleared(Q), pos, c)

TryMove(Q, pos, c) == IF IllegalKoCapture(Q, pos, c) THEN Q ELSE TryKo(Q, pos, c)

PlayLiberties(Q, str, c, o) ==
    FoldLeft(LAMBDA R, lib : TryMove(R, lib, c), Q, Listed(Libs(Q, str), o))

(* R is Q with the liberties filled as far as that is legal: a string with *)
(* at most so many liberties left is taken, else the moves are taken back. *)
Finished(Q, R, str, most, o) ==
    IF R.board[str] = "empty" THEN R
    ELSE IF Cardinality(Libs(R, str)) <= most THEN TryKo(R, Listed(Libs(R, str), o)[1], Other(Q.board[str]))
    ELSE Q

(* MUTANT: a string with two liberties left counts as captured.            *)
TryCapture_TwoLiberties(Q, str, o) == Finished(Q, PlayLiberties(Q, str, Other(Q.board[str]), o), str, 2, o)

(* MUTANT: a string left in atari is not taken.                            *)
TryCapture_LeavesAtari(Q, str, o) == Finished(Q, PlayLiberties(Q, str, Other(Q.board[str]), o), str, 0, o)

(* One string is captured, or nothing is played.                           *)
TryCapture(Q, str, o) == Finished(Q, PlayLiberties(Q, str, Other(Q.board[str]), o), str, 1, o)

CaptureStrings(Q, c, o) ==
    LET Visit(R, str) == IF IsOrigin(R, str, c, o) THEN TryCapture(R, str, o) ELSE R
    IN FoldLeft(Visit, Q, o)

(* A loop over the board, repeated until a turn of it changes nothing.     *)
Repeated(Turn(_), Q) ==
    LET left[R \in PositionType] ==
            LET GoOnFrom(S) == IF S = R THEN R ELSE left[S] IN GoOnFrom(Turn(R))
    IN left[Q]

(* capture_non_invincible_strings: until nothing more is captured.         *)
CaptureNonInvincibleStrings(Q, c, o) == Repeated(LAMBDA R : CaptureStrings(R, c, o), Q)

(* Steps 1 and 2: the opponent plays on the liberties of what is left, and *)
(* extends what is in atari.                                               *)
Besieged(Q, c, o) ==
    LET Visit(R, str) == IF IsOrigin(R, str, c, o) THEN PlayLiberties(R, str, Other(c), o) ELSE R
    IN FoldLeft(Visit, Q, o)

ExtendAll(Q, c, o) ==
    LET Visit(R, str) == IF R.board[str] # Other(c) \/ Cardinality(Libs(R, str)) > 1 THEN R
                         ELSE PlayLiberties(R, str, Other(c), o)
    IN FoldLeft(Visit, Q, o)

Extended(Q, c, o) == Repeated(LAMBDA R : ExtendAll(R, c, o), Q)

(* approxlib: the liberties of a stone of c put at pos, captures ignored,  *)
(* also those above the limit at which counting may stop.                  *)
ApproxLib(board, pos, c) ==
    LET string == {pos} \cup UNION {StringAt(board, q) : q \in {q \in Neighbors[pos] : board[q] = c}}
    IN Cardinality(LibertiesOf(board, string) \ {pos})

(* Steps 3 and 4: an eye of two points is split where that leaves more.    *)
SplitEye(Q, str, c, o) ==
    LET libs == Listed(Libs(Q, str), o)
        a == libs[1]
        b == libs[2]
        Open(p) == ApproxLib(Q.board, p, c)
        Own(p) == ApproxLib(Q.board, p, Other(c))
    IN IF Q.board[str] # Other(c) \/ Len(libs) # 2 THEN Q
       ELSE IF b \notin Neighbors[a] THEN Q
       ELSE TryMove(Q, IF Open(a) > Open(b) \/ (Open(a) = Open(b) /\ Own(a) >= Own(b)) THEN a ELSE b, Other(c))

SplitAll(Q, c, o) == LET Split(R, str) == SplitEye(R, str, c, o) IN FoldLeft(Split, Q, o)

(* What the last position R of the siege leaves to c.                      *)
ReadOff(R, c) ==
    LET dead == {p \in Stones(R.board, Other(c)) : Cardinality(Libs(R, p)) = 1}
        alive == Stones(R.board, c)
    IN [alive |-> alive, territory |-> UNION {Libs(R, p) : p \in alive \cup dead} \cup dead]

SiegeVerdict(left, c, o) ==
    IF Stones(left.board, c) = {} THEN [alive |-> {}, territory |-> {}]
    ELSE ReadOff(SplitAll(Extended(Besieged(left, c, o), c, o), c, o), c)

(* unconditional_life                                                      *)
UnconditionalVerdict(Q, c, o) == SiegeVerdict(CaptureNonInvincibleStrings(Q, c, o), c, o)

Settled(v) == v.alive \cup v.territory

-----------------------------------------------------------------------------
(* What a move of c at an empty point is worth: it may have a point, it is *)
(* never better than a pass (NoMove), or another move has all its effects. *)
(* One turn of the loop of find_unconditionally_meaningless_moves.         *)
MarkedBy(m, Q, pos, c, o) ==
    LET R == TryKo(Q, pos, c)
        friendly == Settled(UnconditionalVerdict(R, c, o))
    IN IF m[pos] # HasAPoint \/ R = Q THEN m
       ELSE IF pos \in Settled(UnconditionalVerdict(R, Other(c), o)) THEN [m EXCEPT ![pos] = NoMove]
       ELSE IF pos \notin friendly THEN m
       ELSE [p \in Points |-> IF p \in friendly /\ R.board[p] = "empty" /\ m[p] = HasAPoint THEN pos ELSE m[p]]

(* MUTANT: the chain of replacements is not followed.                      *)
FinalReplacement_OneStep(m, p) == m[p]

FinalReplacement(m, p) ==
    LET final[q \in Points] == IF m[m[q]] \in Points THEN final[m[q]] ELSE m[q]
    IN final[p]

Simplified(Q, m) ==
    [p \in Points |-> IF Q.board[p] = "empty" /\ m[p] \in Points THEN FinalReplacement(m, p) ELSE m[p]]

(* find_unconditionally_meaningless_moves, after they were cleared.        *)
MeaninglessMoves(Q, c, v, o) ==
    LET own == [p \in Points |-> IF Q.board[p] = "empty" /\ p \in Settled(v) THEN NoMove ELSE HasAPoint]
        Mark(m, pos) == MarkedBy(m, Q, pos, c, o)
    IN Simplified(Q, FoldLeft(Mark, own, Listed(Stones(Q.board, "empty"), o)))

-----------------------------------------------------------------------------
(* MUTANT: a region is vital when it touches the chain.                    *)
BensonVerdict_AnyRegion(board, c) ==
    LET rest == [p \in Points |-> IF board[p] = c THEN "empty" ELSE "other"]
        regions == {StringAt(rest, p) : p \in Points \ Stones(board, c)}
        Near(S, T) == UNION {Neighbors[p] : p \in S} \cap T # {}
        alive == {p \in Stones(board, c) : Cardinality({r \in regions : Near(r, StringAt(board, p))}) >= 2}
    IN [alive |-> alive, territory |-> UNION {r \in regions : Near(r, alive)}]

(* mc_benson_color: chains of c with two vital regions that no chain which *)
(* can die has part in; a region is vital to a chain when all its empty    *)
(* points are next to it.                                                  *)
BensonVerdict(board, c) ==
    LET rest == [p \in Points |-> IF board[p] = c THEN "empty" ELSE "other"]
        chains == {StringAt(board, p) : p \in Stones(board, c)}
        regions == {StringAt(rest, p) : p \in Points \ Stones(board, c)}
        NextTo(S) == UNION {Neighbors[p] : p \in S}
        Vital(region, chain) == /\ NextTo(region) \cap chain # {}
                                /\ region \cap Stones(board, "empty") \subseteq NextTo(chain)
        round[n \in 0 .. Cardinality(chains)] ==
            IF n = 0 THEN [chains |-> chains, regions |-> regions]
            ELSE LET before == round[n - 1]
                     alive == {k \in before.chains :
                                  Cardinality({r \in before.regions : Vital(r, k)}) >= 2}
                 IN [chains |-> alive,
                     regions |-> {r \in before.regions :
                                     \A k \in chains \ alive : NextTo(r) \cap k = {}}]
        last == round[Cardinality(chains)]
    IN [alive |-> UNION last.chains,
        territory |-> UNION {r \in last.regions : \E k \in last.chains : Vital(r, k)}]

-----------------------------------------------------------------------------
NotYet == [done |-> FALSE]

LifeInit ==
    /\ \E start \in StartPositions :
          P = [board |-> start.board, ko |-> start.ko, captured |-> [c \in Colors |-> 0],
               hash |-> HashRecalc(start.board, start.ko)]
    /\ color \in Colors /\ order \in Orders
    /\ verdict = NotYet

Analyze ==
    /\ verdict = NotYet
    /\ LET life == UnconditionalVerdict(P, color, order)
           benson == BensonVerdict(P.board, color)
       IN verdict' = [done |-> TRUE, life |-> life, benson |-> benson,
                      meaningless |-> MeaninglessMoves(P, color, life, order), from |-> P]
    /\ UNCHANGED <<P, color, order>>

(* The opponent may ignore a ko, and color passes all the time.            *)
OpponentPlaysOn ==
    /\ verdict.done /\ Settled(verdict.life) \cup Settled(verdict.benson) # {}
    /\ \E pos \in Points : P' = TryKo(P, pos, Other(color)) /\ P' # P
    /\ UNCHANGED <<color, order, verdict>>

LifeNext == Analyze \/ OpponentPlaysOn

LifeSpec == LifeInit /\ [][LifeNext]_lifeVars

-----------------------------------------------------------------------------
(* "Find those worms of the given color that can never be captured, even   *)
(* if the opponent is allowed an arbitrary number of consecutive moves":   *)
(* what either algorithm calls alive is still there however he plays.      *)
AliveCannotBeCaptured ==
    verdict.done =>
        \A p \in verdict.life.alive \cup verdict.benson.alive : P.board[p] = color

(* On the territory of either algorithm the opponent never gets a string   *)
(* that is alive in the same sense.                                        *)
TerritoryStaysDead ==
    verdict.done =>
        (verdict.life.territory \cup verdict.benson.territory) \cap BensonVerdict(P.board, Other(color)).alive = {}

(* The two algorithms, one by playing and one by counting regions, find the*)
(* same strings alive; what Benson's calls territory the other does too.   *)
AlgorithmsAgree ==
    verdict.done =>
        /\ verdict.life.alive = verdict.benson.alive
        /\ verdict.benson.territory \subseteq Settled(verdict.life)

(* "A move at A is at least as good as a move at B": a replacement, after  *)
(* all the steps to it, is no meaningless move itself, it makes the        *)
(* replaced move's point the color's own, and it can be played where the   *)
(* replaced move can.  Moves are tried with tryko, which plays illegal ko  *)
(* captures too; none of them becomes a replacement.                       *)
ReplacementsAreSound ==
    verdict.done /\ P = verdict.from =>
        \A p \in Points : verdict.meaningless[p] \in Points =>
            LET A == verdict.meaningless[p]
                R == TryKo(P, A, color)
            IN /\ verdict.meaningless[A] = HasAPoint
               /\ R # P /\ p \in Settled(UnconditionalVerdict(R, color, order))
               /\ TryMove(P, p, color) # P => TryMove(P, A, color) # P
=============================================================================
