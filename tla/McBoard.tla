------------------------------ MODULE McBoard ------------------------------
(***************************************************************************)
(* The board of the Monte Carlo playouts (engine/montecarlo.c).  It counts *)
(* no liberties: a string has its stones in a ring and its liberty edges,  *)
(* pairs of a liberty and a stone beside it, in a doubly linked ring.  What*)
(* a move would do at an empty point (suicide, self-atari, captures) and   *)
(* the pattern value that follows from it are kept for every point, and    *)
(* renewed after a move only for the points in an update queue.            *)
(* Left out: the random choice, how values are summed by partition, the    *)
(* pattern database (a value is the pattern it is looked up by), settled   *)
(* points and the mercy rule, which only ends a playout earlier.           *)
(***************************************************************************)
EXTENDS Position, Sequences, SequencesExt

CONSTANTS
    Around,         \* point -> its neighbors, SOUTH, WEST, NORTH, EAST
    Diagonal,       \* point -> the points SW, NW, NE and SE of it
    BoardOrder,     \* the points, BOARDMIN first
    Starts,         \* the positions a playout may start from: [board, ko]
    GiveUp          \* 600: a playout deeper than that only passes

ASSUME McAssumption ==
    /\ \A p \in Points : Around[p] \in Seq(Points) /\ IsInjective(Around[p])
                           /\ ToSet(Around[p]) = Neighbors[p] /\ Diagonal[p] \subseteq Points
    /\ BoardOrder \in Seq(Points) /\ IsInjective(BoardOrder) /\ ToSet(BoardOrder) = Points
    /\ Starts \subseteq [board : [Points -> Colors \cup {"empty"}], ko : Points \cup {NoMove}]
    /\ GiveUp \in Nat

VARIABLES
    mc,             \* the mc_board
    color_to_move, consecutive_passes, depth,
    last_move

mcVars == <<mc, color_to_move, consecutive_passes, depth, last_move>>

Vicinity(p) == Neighbors[p] \cup Diagonal[p]
Edges == UNION {{<<p, q>> : q \in Neighbors[p]} : p \in Points}
NoEdge == <<NoMove, NoMove>>

(* The ring of x, from x on until it is back.                              *)
Along(next, x) ==
    LET at[n \in 0 .. Cardinality(DOMAIN next)] == IF n = 0 THEN x ELSE next[at[n - 1]]
        Ahead(n) == \A k \in 1 .. n - 1 : at[k] # x
    IN [n \in {n \in 1 .. Cardinality(DOMAIN next) : Ahead(n)} |-> at[n - 1]]

LibertiesAlong(m, edge) ==
    IF edge = NoEdge THEN {} ELSE {e[1] : e \in ToSet(Along(m.nextE, edge))}

LibertiesFrom(m, str) == LibertiesAlong(m, m.first[m.ref[str]])

Enqueued(m, S) == [m EXCEPT !.queue = @ \cup S]

-----------------------------------------------------------------------------
(* mc_add_liberty_edge                                                     *)
AddEdge(m, pos, lib) ==
    LET e == <<lib, pos>>
        reference == m.ref[pos]
        f == m.first[reference]
    IN IF f = NoEdge
       THEN [m EXCEPT !.first[reference] = e, !.nextE[e] = e, !.prevE[e] = e]
       ELSE [m EXCEPT !.nextE = [@ EXCEPT ![e] = m.nextE[f], ![f] = e],
                      !.prevE = [@ EXCEPT ![e] = f, ![m.nextE[f]] = e]]

LastEdge(m, pos, lib) == m.nextE[<<lib, pos>>] = <<lib, pos>>

(* MUTANT: the first edge of the string is not moved off the removed one.  *)
RemoveEdge_KeepsFirst(m, pos, lib) ==
    LET e == <<lib, pos>>
        next == m.nextE[e]
        previous == m.prevE[e]
    IN IF LastEdge(m, pos, lib) THEN [m EXCEPT !.first[m.ref[pos]] = NoEdge]
       ELSE [m EXCEPT !.nextE[previous] = next, !.prevE[next] = previous]

(* mc_remove_liberty_edge                                                  *)
RemoveEdge(m, pos, lib) ==
    LET e == <<lib, pos>>
        next == m.nextE[e]
        previous == m.prevE[e]
    IN IF LastEdge(m, pos, lib) THEN [m EXCEPT !.first[m.ref[pos]] = NoEdge]
       ELSE [m EXCEPT !.nextE[previous] = next, !.prevE[next] = previous,
                      !.first[m.ref[pos]] = IF @ = e THEN next ELSE @]

(* mc_join_strings                                                         *)
JoinStrings(m, str1, str2) ==
    LET reference == m.ref[str2]
        f2 == m.first[reference]
        f1 == m.first[m.ref[str1]]
        stones == ToSet(Along(m.next, str1))
        joined == [m EXCEPT !.ref = [p \in Points |-> IF p \in stones THEN reference ELSE @[p]],
                            !.next = [@ EXCEPT ![str1] = m.next[str2], ![str2] = m.next[str1]]]
    IN IF f1 = NoEdge THEN joined
       ELSE [joined EXCEPT !.nextE = [@ EXCEPT ![f1] = m.nextE[f2], ![f2] = m.nextE[f1]],
                           !.prevE = [@ EXCEPT ![m.nextE[f1]] = f2, ![m.nextE[f2]] = f1]]

(* MUTANT: only a string in atari has its liberty renewed.                 *)
QueueMaxTwoLiberties_OnlyAtari(m, str) ==
    LET libs == LibertiesFrom(m, str) IN IF Cardinality(libs) <= 1 THEN Enqueued(m, libs) ELSE m

(* mc_queue_max_two_liberties                                              *)
QueueMaxTwoLiberties(m, str) ==
    LET libs == LibertiesFrom(m, str) IN IF Cardinality(libs) <= 2 THEN Enqueued(m, libs) ELSE m

(* A stone of a captured string is taken off.                              *)
TakeStone(m, pos) ==
    LET color == m.board[pos]
        Freed(n, q) == IF n.board[q] = Other(color) THEN AddEdge(QueueMaxTwoLiberties(n, q), q, pos) ELSE n
        freed == FoldLeft(Freed, m, Around[pos])
    IN Enqueued([freed EXCEPT !.board[pos] = "empty",
                              !.hash = SymDiff(@, {StoneHash(pos, color)}),
                              !.seen = [q \in Points |-> IF q \in Vicinity(pos)
                                                         THEN SymDiff(@[q], {<<pos, color>>}) ELSE @[q]]],
                {pos} \cup {q \in Vicinity(pos) : m.board[q] = "empty"})

(* mc_remove_string                                                        *)
RemoveString(m, str) == FoldLeft(TakeStone, m, Along(m.next, str))

-----------------------------------------------------------------------------
(* mc_is_in_atari2: q, a stone beside p, has no liberty but p.             *)
InAtari(m, p, q) == LibertiesAlong(m, <<p, q>>) = {p}

Besides(m, p, color) == {q \in Neighbors[p] : m.board[q] = color}

(* mc_is_self_atari: found are the liberties the new stone would have, a   *)
(* captured stone beside it standing for its point; with the capture of one*)
(* such stone more of its string may be beside the own stones.             *)
IsSelfAtari(m, pos, color) ==
    LET empty == Besides(m, pos, "empty")
        captured == {q \in Besides(m, pos, Other(color)) : InAtari(m, pos, q)}
        own == Besides(m, pos, color)
        found == empty \cup captured \cup UNION {LibertiesAlong(m, <<pos, q>>) \ {pos} : q \in own}
        reference == m.ref[CHOOSE q \in captured : TRUE]
        stones == UNION {ToSet(Along(m.next, q)) : q \in own}
    IN /\ Cardinality(empty) <= 1 /\ Cardinality(found) <= 1
       /\ captured # {} =>
             ~\E s \in stones : \E q \in Besides(m, s, Other(color)) \ captured : m.ref[q] = reference

(* mc_stones_in_atari, at most 3; a string is counted at every neighbor.   *)
StonesInAtari(m, pos, color) ==
    LET Counted(n, q) == IF m.board[q] = Other(color) /\ InAtari(m, pos, q)
                         THEN n + Len(Along(m.next, q)) ELSE n
        n == FoldLeft(Counted, 0, Around[pos])
    IN Min({3, n})

(* mc_update_local_context                                                 *)
LocalContext(m, pos) ==
    LET Free(c) == Besides(m, pos, "empty") \cup {q \in Besides(m, pos, Other(c)) : InAtari(m, pos, q)}
        Through(c) == \E q \in Besides(m, pos, c) : ~InAtari(m, pos, q)
        suicide == {c \in Colors : Free(c) = {} /\ ~Through(c)}
    IN [suicide |-> suicide,
        self_atari |-> suicide \cup {c \in Colors : Cardinality(Free(c)) <= 1 /\ IsSelfAtari(m, pos, c)},
        captures |-> [c \in Colors |-> StonesInAtari(m, pos, c)]]

IsSuicideHere(m, pos, color) == color \in m.context[pos].suicide

(* mc_is_legal, for an empty point.                                        *)
IsLegal(m, pos, color) ==
    pos = NoMove \/ (~IllegalKoCapture(m, pos, color) /\ ~IsSuicideHere(m, pos, color))

-----------------------------------------------------------------------------
(* The parts of mc_play_move: the stone is put, with its empty neighbors;  *)
(* it is joined with its own; it takes a liberty from the others.          *)
PutStone(m, pos, color) ==
    LET put == [m EXCEPT !.board[pos] = color, !.hash = SymDiff(@, {StoneHash(pos, color)}),
                         !.next[pos] = pos, !.ref[pos] = pos, !.first[pos] = NoEdge,
                         !.seen = [q \in Points |-> IF q \in Vicinity(pos)
                                                    THEN @[q] \cup {<<pos, color>>} ELSE @[q]]]
        Beside1(n, q) == IF n.board[q] = "empty" THEN AddEdge(Enqueued(n, {q}), pos, q) ELSE n
    IN FoldLeft(Beside1, put, Around[pos])

Joined(m, pos, q) ==
    LET others == LibertiesFrom(m, q) \ {pos}
        queued == IF Cardinality(others) = 1 THEN Enqueued(m, others) ELSE m
    IN RemoveEdge(IF m.ref[pos] = m.ref[q] THEN m ELSE JoinStrings(queued, pos, q), q, pos)

JoinOwn(m, pos, color) ==
    FoldLeft(LAMBDA n, q : IF n.board[q] = color THEN Joined(n, pos, q) ELSE n, m, Around[pos])

Besiege(m, pos, color) ==
    LET Besieged(n, q) ==
            IF n.board[q] # Other(color) THEN n
            ELSE IF LastEdge(n, q, pos) THEN RemoveString(RemoveEdge(n, q, pos), q)
            ELSE QueueMaxTwoLiberties(RemoveEdge(n, q, pos), q)
    IN FoldLeft(Besieged, m, Around[pos])

(* MUTANT: a stone with a liberty of its own can make a ko.                *)
WithKo_AnyCapture(before, m, pos, color) ==
    IF Cardinality(Stones(before.board, Other(color)) \ Stones(m.board, Other(color))) = 1 /\ m.next[pos] = pos
    THEN [m EXCEPT !.ko = m.first[pos][1], !.hash = SymDiff(@, {KoHash(m.first[pos][1])})]
    ELSE m

(* One stone was captured by one that has no liberty but where it was.     *)
WithKo(before, m, pos, color) ==
    IF /\ Cardinality(Stones(before.board, Other(color)) \ Stones(m.board, Other(color))) = 1
       /\ m.next[pos] = pos /\ Besides(before, pos, "empty") = {}
    THEN [m EXCEPT !.ko = m.first[pos][1], !.hash = SymDiff(@, {KoHash(m.first[pos][1])})]
    ELSE m

(* The contexts of the queue are renewed; what is around the move is queued*)
(* after that, as it was seen by the values but not by the contexts.       *)
Renewed(m, pos) ==
    LET contexts == [p \in Points |-> IF p \in m.queue \ {pos} THEN LocalContext(m, p) ELSE m.context[p]]
    IN Enqueued([m EXCEPT !.context = contexts],
                {pos} \cup {q \in Vicinity(pos) : m.board[q] = "empty"})

(* mc_play_move: the board after it; an illegal move only clears the queue.*)
McPlayMove(m, pos, color) ==
    LET cleared == [m EXCEPT !.queue = {}]
        put == PutStone(KoCleared(cleared), pos, color)
        fought == Besiege(JoinOwn(put, pos, color), pos, color)
    IN IF pos = NoMove THEN KoCleared(cleared)
       ELSE IF ~IsLegal(m, pos, color) THEN cleared
       ELSE Renewed(QueueMaxTwoLiberties(WithKo(m, fought, pos, color), pos), pos)

(* mc_find_pattern_number: what the value of a move is looked up by.       *)
NoValue == {}
Pattern(m, pos) == {<<m.seen[pos], m.context[pos]>>}

ValueOf(m, pos, color) ==
    IF m.board[pos] # "empty" \/ IsSuicideHere(m, pos, color) THEN NoValue ELSE Pattern(m, pos)

(* mc_update_move_values                                                   *)
UpdateMoveValues(m) ==
    [m EXCEPT !.values = [c \in Colors |-> [p \in Points |->
        IF p \in m.queue THEN ValueOf(m, p, c) ELSE @[c][p]]]]

-----------------------------------------------------------------------------
(* What a move at an empty point does by the rules; the global board knows *)
(* it from is_suicide, is_self_atari and its liberty counts.  strings are  *)
(* the strings of the board, by point.                                     *)
StringsOf(board) == [p \in Points |-> IF board[p] = "empty" THEN {} ELSE StringAt(board, p)]

ContextByTheRules(board, strings, pos) ==
    LET NextTo(c) == UNION {strings[q] : q \in {q \in Neighbors[pos] : board[q] = c}}
        Taken(c) == UNION {strings[q] : q \in {q \in Neighbors[pos] :
                               board[q] = Other(c) /\ LibertiesOf(board, strings[q]) = {pos}}}
        Reach(c) == UNION {Neighbors[q] : q \in NextTo(c) \cup {pos}}
        libs == [c \in Colors |->
                    Cardinality((Reach(c) \cap (Stones(board, "empty") \cup Taken(c))) \ {pos})]
    IN [suicide |-> {c \in Colors : libs[c] = 0}, self_atari |-> {c \in Colors : libs[c] <= 1},
        captures |-> [c \in Colors |-> Min({3, Cardinality(Taken(c))})]]

NoContext == [suicide |-> {}, self_atari |-> {}, captures |-> [c \in Colors |-> 0]]

SeenByTheRules(board, pos) == {<<q, board[q]>> : q \in {q \in Vicinity(pos) : board[q] # "empty"}}

(* mc_init_board_from_global_board: the rings in the order of the board,   *)
(* the ko point and the hash as they are on the global board.              *)
Rank(p) == CHOOSE i \in DOMAIN BoardOrder : BoardOrder[i] = p
FirstOf(S) == CHOOSE p \in S : \A q \in S : Rank(p) <= Rank(q)

FromGlobalBoard(board, ko, strings) ==
    LET After(p) == LET later == {q \in strings[p] : Rank(q) > Rank(p)}
                    IN FirstOf(IF later = {} THEN strings[p] ELSE later)
        bare == [board |-> board, ko |-> ko, hash |-> HashRecalc(board, ko), queue |-> {},
                 ref |-> [p \in Points |-> IF board[p] = "empty" THEN NoMove ELSE FirstOf(strings[p])],
                 next |-> [p \in Points |-> IF board[p] = "empty" THEN p ELSE After(p)],
                 first |-> [p \in Points |-> NoEdge],
                 nextE |-> [e \in Edges |-> e], prevE |-> [e \in Edges |-> e],
                 seen |-> [p \in Points |-> SeenByTheRules(board, p)],
                 context |-> [p \in Points |-> IF board[p] = "empty" THEN ContextByTheRules(board, strings, p)
                                                 ELSE NoContext],
                 values |-> [c \in Colors |-> [p \in Points |-> NoValue]]]
        Edged(m, p) ==
            IF board[p] = "empty" THEN m
            ELSE FoldLeft(LAMBDA n, q : IF board[q] = "empty" THEN AddEdge(n, p, q) ELSE n, m, Around[p])
    IN FoldLeft(Edged, bare, BoardOrder)

(* mc_init_move_values                                                     *)
InitMoveValues(m) == [m EXCEPT !.values = [c \in Colors |-> [p \in Points |-> ValueOf(m, p, c)]]]

McInit ==
    /\ \E start \in Starts : \E strings \in {StringsOf(start.board)} :
          /\ \A p \in Points : start.board[p] # "empty" => LibertiesOf(start.board, strings[p]) # {}
          /\ \E m \in {FromGlobalBoard(start.board, start.ko, strings)} : mc = InitMoveValues(m)
    /\ color_to_move \in Colors
    /\ consecutive_passes = 0 /\ depth = 0 /\ last_move = NoMove

(* MUTANT: a pass that follows a move is not counted.                      *)
PlayRandomMove_FirstPassUncounted(pos) ==
    LET legal == pos = NoMove \/ IsLegal(mc, pos, color_to_move) IN
    /\ mc' = UpdateMoveValues(McPlayMove(mc, pos, color_to_move))
    /\ IF legal THEN /\ consecutive_passes' = IF pos = NoMove /\ last_move = NoMove THEN consecutive_passes + 1 ELSE 0
                     /\ last_move' = pos /\ color_to_move' = Other(color_to_move) /\ depth' = depth + 1
       ELSE UNCHANGED <<consecutive_passes, last_move, color_to_move, depth>>

(* mc_play_random_move                                                     *)
PlayRandomMove(pos) ==
    LET legal == pos = NoMove \/ IsLegal(mc, pos, color_to_move) IN
    /\ mc' = UpdateMoveValues(McPlayMove(mc, pos, color_to_move))
    /\ IF legal THEN /\ consecutive_passes' = IF pos = NoMove THEN consecutive_passes + 1 ELSE 0
                     /\ last_move' = pos /\ color_to_move' = Other(color_to_move) /\ depth' = depth + 1
       ELSE UNCHANGED <<consecutive_passes, last_move, color_to_move, depth>>

(* mc_generate_random_move: a move with a value that is no illegal ko      *)
(* capture, a pass where all values are 0; deep down only passes.          *)
Generated ==
    IF depth > GiveUp THEN {NoMove}
    ELSE {NoMove} \cup {p \in Points : mc.values[color_to_move][p] # NoValue
                                       /\ ~IllegalKoCapture(mc, p, color_to_move)}

PlayoutMove ==
    /\ consecutive_passes < 3
    /\ \E pos \in Generated : PlayRandomMove(pos)

McNext == PlayoutMove

McSpec == McInit /\ [][McNext]_mcVars /\ WF_mcVars(McNext)

-----------------------------------------------------------------------------
OneRing(ring, S) == ToSet(ring) = S /\ Len(ring) = Cardinality(S)

(* mc_check_consistency_with_global_board, which no build compiles: after  *)
(* every move a string's stones are in one ring with one reference, and its*)
(* liberty edges, each once, in a ring that reads the same both ways.      *)
EdgesAreOfTheBoard ==
    \A strings \in {StringsOf(mc.board)} : \A p \in {p \in Points : mc.board[p] # "empty"} :
        \A f \in {mc.first[mc.ref[p]]},
           edges \in {{e \in Edges : e[2] \in strings[p] /\ mc.board[e[1]] = "empty"}} :
              /\ OneRing(Along(mc.next, p), strings[p])
              /\ \A q \in strings[p] : mc.ref[q] = mc.ref[p]
              /\ f # NoEdge /\ OneRing(Along(mc.nextE, f), edges)
              /\ \A e \in edges : mc.prevE[mc.nextE[e]] = e

(* "Suicide is incrementally tracked by the local context information":    *)
(* whatever was played and captured anywhere, every empty point has the    *)
(* context and the value the board gives it, and a value unless the move   *)
(* is suicide; no point is missed by the queue.                            *)
ValuesAreOfTheBoard ==
    \A strings \in {StringsOf(mc.board)} : \A p \in Points :
        \A context \in {ContextByTheRules(mc.board, strings, p)}, c \in Colors :
            mc.values[c][p] = IF mc.board[p] # "empty" \/ c \in context.suicide THEN NoValue
                              ELSE {<<SeenByTheRules(mc.board, p), context>>}

(* A playout is a game: a move with a value is legal and is not refused,   *)
(* and does to stones, ko and hash what it does on the global board.       *)
GlobalBoard(m) == [board |-> m.board, ko |-> m.ko, hash |-> m.hash, captured |-> [c \in Colors |-> 0]]
PlayoutIsAGame ==
    [][ LET pos == last_move'
            P == GlobalBoard(mc)
            Q == PlayMoveNoHistory(P, pos, color_to_move)
        IN /\ pos # NoMove => /\ P.board[pos] = "empty" /\ ~SuicideByTheRules(P.board, pos, color_to_move)
                              /\ ~IllegalKoCapture(P, pos, color_to_move)
           /\ mc'.board = Q.board /\ mc'.ko = Q.ko /\ mc'.hash = Q.hash ]_mcVars

(* "If we get this deep we are almost certainly playing triple ko": the    *)
(* playout ends even so, and within the entries of move_history.           *)
PlayoutEnds == [](depth <= GiveUp + 4) /\ <>(consecutive_passes = 3)
=============================================================================
