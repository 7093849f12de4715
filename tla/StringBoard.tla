---------------------------- MODULE StringBoard ----------------------------
(***************************************************************************)
(* The incremental string records of engine/board.c: for every string its  *)
(* stones in a cyclic list, the number of its liberties and the first of   *)
(* them, and its neighbor strings; how a move changes them; and the log    *)
(* from which a move is undone.                                            *)
(*                                                                         *)
(* M is the memory: board, ko, captured and hash as in Position; number    *)
(* and next per point; color, size, origin, liberties, lib, neighbors and  *)
(* nb per string; next_string, komaster and kom_pos; and log, which stands *)
(* for change_stack and vertex_stack together.  As in the code only what   *)
(* is pushed comes back.  Marks are sets that live as long as a function:  *)
(* a string is marked where it has been entered as a neighbor.             *)
(***************************************************************************)
EXTENDS Position, Integers, Sequences, SequencesExt

CONSTANTS
    Around,         \* point -> the sequence of its neighbors
    MaxStrings,     \* MAX_STRINGS
    MaxLiberties    \* MAX_LIBERTIES

ASSUME StringAssumption ==
    /\ Points \subseteq Nat
    /\ \A p \in Points : Around[p] \in Seq(Points) /\ IsInjective(Around[p]) /\ ToSet(Around[p]) = Neighbors[p]
    /\ {MaxStrings, MaxLiberties} \subseteq Nat \ {0}

Slots == 0 .. MaxStrings - 1
NoString == -1

-----------------------------------------------------------------------------
(* The log.  An address is a field, a field and an index, or a list, its   *)
(* string and the place in it.                                             *)
Peek(M, at) ==
    CASE Len(at) = 1 -> M[at[1]] [] Len(at) = 2 -> M[at[1]][at[2]] [] OTHER -> M[at[1]][at[2]][at[3]]

Poke(M, at, v) ==
    CASE Len(at) = 1 -> [M EXCEPT ![at[1]] = v]
      [] Len(at) = 2 -> [M EXCEPT ![at[1]][at[2]] = v]
      [] OTHER -> [M EXCEPT ![at[1]][at[2]][at[3]] = v]

(* PUSH_VALUE, PUSH_VERTEX; and with the assignment that follows.          *)
Push(M, at) == [M EXCEPT !.log = Append(@, [at |-> at, was |-> Peek(M, at)])]
PushAll(M, ats) == FoldLeft(Push, M, ats)
Assign(M, at, v) == Poke(Push(M, at), at, v)

Mark == [at |-> <<>>, was |-> 0]
BeginChangeRecord(M) == [M EXCEPT !.log = Append(@, Mark)]

(* POP_MOVE, POP_VERTICES.                                                 *)
PopMove(M) ==
    LET begin == CHOOSE i \in DOMAIN M.log : M.log[i] = Mark /\ \A j \in i + 1 .. Len(M.log) : M.log[j] # Mark
        restored == FoldLeft(LAMBDA N, e : Poke(N, e.at, e.was), M, Reverse(SubSeq(M.log, begin + 1, Len(M.log))))
    IN [restored EXCEPT !.log = SubSeq(@, 1, begin - 1)]

-----------------------------------------------------------------------------
(* The stones of a string, from its origin around the cyclic list.         *)
Chain(M, s) ==
    LET stone[n \in 0 .. Cardinality(Points)] == IF n = 0 THEN M.origin[s] ELSE M.next[stone[n - 1]]
        Ahead(n) == \A k \in 1 .. n - 1 : stone[k] # M.origin[s]
    IN [n \in {n \in 1 .. Cardinality(Points) : Ahead(n)} |-> stone[n - 1]]

NeighborList(M, s) == [k \in {k \in 1 .. MaxStrings : k <= M.neighbors[s]} |-> M.nb[s][k]]
LibertyList(M, s) == [k \in {k \in 1 .. MaxLiberties : k <= M.liberties[s]} |-> M.lib[s][k]]

(* NEIGHBOR_OF_STRING, at the points next to q but for the one excepted.   *)
Touches(M, q, s, color, except) ==
    \E r \in Neighbors[q] \ {except} : M.board[r] = color /\ M.number[r] = s

AddLiberty(M, s, q) ==
    LET n == M.liberties[s] IN
    [M EXCEPT !.liberties[s] = n + 1,
              !.lib[s] = IF n < MaxLiberties THEN [@ EXCEPT ![n + 1] = q] ELSE @]

AddNeighbor(M, s, t) == [M EXCEPT !.nb[s][M.neighbors[s] + 1] = t, !.neighbors[s] = @ + 1]

(* An opponent string t met by s: each in the list of the other.           *)
Meet(M, s, t) == AddNeighbor(Push(AddNeighbor(M, s, t), <<"neighbors", t>>), t, s)

(* The empty points around a sequence of stones, in the order met.         *)
EmptyAround(M, stones) ==
    FoldLeft(LAMBDA libs, q : IF M.board[q] = "empty" /\ ~Contains(libs, q) THEN Append(libs, q) ELSE libs,
             <<>>, FlattenSeq([i \in DOMAIN stones |-> Around[stones[i]]]))

WithLiberties(M, s, libs) ==
    [M EXCEPT !.liberties[s] = Len(libs),
              !.lib[s] = [k \in 1 .. MaxLiberties |-> IF k <= Len(libs) THEN libs[k] ELSE @[k]]]

(* update_liberties: from scratch, the old list pushed.                    *)
UpdateLiberties(M, s) ==
    LET old == [k \in DOMAIN LibertyList(M, s) |-> <<"lib", s, k>>]
    IN WithLiberties(PushAll(Push(M, <<"liberties", s>>), old), s, EmptyAround(M, Chain(M, s)))

(* MUTANT: the last entry is not pushed, "because it may become destroyed  *)
(* later".                                                                 *)
RemoveFrom_LastUnpushed(M, list, count, s, k) ==
    LET n == M[count][s]
        N == PushAll(M, <<<<list, s, k>>, <<count, s>>>>)
    IN [N EXCEPT ![list][s][k] = M[list][s][n], ![count][s] = n - 1]

(* The last entry of a list moves to the place of the one removed.         *)
RemoveFrom(M, list, count, s, k) ==
    LET n == M[count][s]
        N == PushAll(M, <<<<list, s, n>>, <<list, s, k>>, <<count, s>>>>)
    IN [N EXCEPT ![list][s][k] = M[list][s][n], ![count][s] = n - 1]

RemoveNeighbor(M, s, t) ==
    LET k == CHOOSE k \in 1 .. M.neighbors[s] : M.nb[s][k] = t
    IN RemoveFrom(M, "nb", "neighbors", s, k)

RemoveLiberty(M, s, pos) ==
    IF M.liberties[s] > MaxLiberties THEN UpdateLiberties(M, s)
    ELSE IF Contains(LibertyList(M, s), pos)
    THEN RemoveFrom(M, "lib", "liberties", s, CHOOSE k \in 1 .. M.liberties[s] : M.lib[s][k] = pos)
    ELSE M

-----------------------------------------------------------------------------
(* do_remove_string                                                        *)
RemoveStone(M, pos) ==
    LET N == Assign(PushAll(M, <<<<"number", pos>>, <<"next", pos>>>>), <<"board", pos>>, "empty")
    IN [N EXCEPT !.hash = SymDiff(@, {StoneHash(pos, M.board[pos])})]

DoRemoveString(M, s) ==
    LET chain == Chain(M, s)
        Gain(N, t, q) == IF Len(chain) = 1 \/ Touches(N, q, t, Other(M.color[s]), NoMove)
                         THEN AddLiberty(N, t, q) ELSE N
        LoseNeighbor(N, t) ==
            IF M.size[s] <= 2
            THEN FoldLeft(LAMBDA K, q : Gain(K, t, q), Push(RemoveNeighbor(N, t, s), <<"liberties", t>>), chain)
            ELSE UpdateLiberties(RemoveNeighbor(N, t, s), t)
    IN [FoldLeft(LoseNeighbor, FoldLeft(RemoveStone, M, chain), NeighborList(M, s))
            EXCEPT !.captured[M.color[s]] = @ + M.size[s]]

(* A string of one stone in the next free slot.                            *)
Singleton(M, pos) ==
    LET s == M.next_string IN
    [Push(M, <<"next_string">>) EXCEPT
        !.next_string = s + 1, !.number[pos] = s, !.next[pos] = pos,
        !.color[s] = M.board[pos], !.size[s] = 1, !.origin[s] = pos,
        !.liberties[s] = 0, !.neighbors[s] = 0]

(* create_new_string                                                       *)
CreateNewString(M, pos) ==
    LET s == M.next_string
        Look(N, q) ==
            IF N.board[q] = "empty" THEN AddLiberty(N, s, q)
            ELSE IF N.board[q] = Other(N.color[s]) /\ ~Contains(NeighborList(N, s), N.number[q])
            THEN Meet(N, s, N.number[q]) ELSE N
    IN FoldLeft(Look, Singleton(M, pos), Around[pos])

(* extend_neighbor_string                                                  *)
ExtendNeighborString(M, pos, s) ==
    LET first == M.origin[s]
        linked == Assign([M EXCEPT !.next[pos] = M.next[first]], <<"next", first>>, pos)
        headed == IF pos < first THEN Assign(linked, <<"origin", s>>, pos) ELSE linked
        grown == Assign([headed EXCEPT !.number[pos] = s], <<"size", s>>, M.size[s] + 1)
        updated == M.liberties[s] > MaxLiberties
        Look(N, q) ==
            IF N.board[q] = "empty"
            THEN IF updated \/ Touches(N, q, s, M.color[s], pos) THEN N ELSE AddLiberty(N, s, q)
            ELSE IF N.board[q] = Other(M.color[s]) /\ ~Contains(NeighborList(N, s), N.number[q])
            THEN Meet(Push(N, <<"neighbors", s>>), s, N.number[q]) ELSE N
    IN FoldLeft(Look, IF updated THEN UpdateLiberties(grown, s) ELSE RemoveLiberty(grown, s, pos), Around[pos])

(* assimilate_string: the stones, liberties and neighbors of the string at *)
(* pos become those of s.  ml are the marked liberties.                    *)
AssimilateString(A, s, pos) ==
    LET M == A.m
        s2 == M.number[pos]
        chain == Chain(M, s2)
        first == M.origin[s]
        renumbered == FoldLeft(LAMBDA N, q : Assign(N, <<"number", q>>, s), M, chain)
        linked == [PushAll(renumbered, <<<<"next", Last(chain)>>, <<"next", first>>>>) EXCEPT
                      !.next[Last(chain)] = M.next[first], !.next[first] = M.origin[s2],
                      !.origin[s] = IF M.origin[s2] < @ THEN M.origin[s2] ELSE @,
                      !.size[s] = @ + M.size[s2]]
        Take(B, q) ==
            IF B.m.board[q] = "empty" /\ q \notin B.ml
            THEN [m |-> AddLiberty(B.m, s, q), ml |-> B.ml \cup {q}] ELSE B
        rebuilt == UpdateLiberties([linked EXCEPT !.liberties[s] = 0], s)
        fed == IF M.liberties[s2] <= MaxLiberties
               THEN FoldLeft(Take, [m |-> linked, ml |-> A.ml], LibertyList(M, s2))
               ELSE [m |-> rebuilt, ml |-> ToSet(EmptyAround(linked, Chain(linked, s)))]
        Inherit(N, t) ==
            LET K == RemoveNeighbor(N, t, s2) IN
            IF Contains(NeighborList(K, s), t) THEN K ELSE Meet(K, s, t)
    IN [fed EXCEPT !.m = FoldLeft(Inherit, @, NeighborList(M, s2))]

(* assimilate_neighbor_strings                                             *)
AssimilateNeighborStrings(M, pos) ==
    LET s == M.next_string
        color == M.board[pos]
        Look(A, q) ==
            LET N == A.m IN
            CASE N.board[q] = "empty" /\ q \notin A.ml ->
                    [m |-> AddLiberty(N, s, q), ml |-> A.ml \cup {q}]
              [] N.board[q] = Other(color) /\ ~Contains(NeighborList(N, s), N.number[q]) ->
                    [A EXCEPT !.m = Meet(N, s, N.number[q])]
              [] N.board[q] = color /\ N.number[q] # s -> AssimilateString(A, s, q)
              [] OTHER -> A
    IN FoldLeft(Look, [m |-> Singleton(M, pos), ml |-> {}], Around[pos]).m

-----------------------------------------------------------------------------
(* do_commit_suicide                                                       *)
CommitSuicide(M, pos, color) ==
    LET Kill(N, q) == IF N.board[q] = color THEN DoRemoveString(N, N.number[q]) ELSE N
    IN [FoldLeft(Kill, M, Around[pos]) EXCEPT !.captured[color] = @ + 1]

(* The first half of do_play_move: put the stone, capture, count allies.   *)
PutStone(M, pos, color) ==
    LET put == [Assign(M, <<"board", pos>>, color) EXCEPT
                   !.number[pos] = NoString, !.hash = SymDiff(@, {StoneHash(pos, color)})]
        Look(A, q) ==
            LET N == A.m  t == N.number[q] IN
            IF N.board[q] = "empty" \/ t \in A.seen THEN A
            ELSE IF N.board[q] = color THEN [A EXCEPT !.seen = @ \cup {t}, !.allies = Append(@, t)]
            ELSE IF N.liberties[t] > 1 THEN [A EXCEPT !.m = RemoveLiberty(N, t, pos), !.seen = @ \cup {t}]
            ELSE [A EXCEPT !.m = DoRemoveString(N, t), !.taken = @ + N.size[t]]
    IN FoldLeft(Look, [m |-> put, seen |-> {}, allies |-> <<>>, taken |-> 0], Around[pos])

(* MUTANT: the captured stones are not counted.                            *)
NoteKo_AnyStone(M, s, taken) ==
    IF M.liberties[s] = 1 /\ M.size[s] = 1
    THEN [M EXCEPT !.ko = M.lib[s][1], !.hash = SymDiff(SymDiff(@, KoPart(M.ko)), {KoHash(M.lib[s][1])})]
    ELSE M

(* A lone stone that took one stone and has one liberty has taken a ko.    *)
NoteKo(M, s, taken) ==
    IF M.liberties[s] = 1 /\ M.size[s] = 1 /\ taken = 1
    THEN [M EXCEPT !.ko = M.lib[s][1], !.hash = SymDiff(SymDiff(@, KoPart(M.ko)), {KoHash(M.lib[s][1])})]
    ELSE M

(* do_play_move                                                            *)
PlayStone(M, pos, color) ==
    LET A == PutStone(M, pos, color) IN
    CASE A.allies = <<>> -> LET N == CreateNewString(A.m, pos) IN NoteKo(N, N.number[pos], A.taken)
      [] Len(A.allies) = 1 -> ExtendNeighborString(A.m, pos, A.allies[1])
      [] OTHER -> AssimilateNeighborStrings(A.m, pos)

-----------------------------------------------------------------------------
Ascending(S) == [i \in 1 .. Cardinality(S) |-> CHOOSE x \in S : Cardinality({y \in S : y < x}) = i - 1]

(* new_position: the records of a board from scratch.  The code collects a *)
(* string by a walk; here its stones are linked in ascending order.        *)
NewPosition(M) ==
    LET origins == Ascending({p \in Points : M.board[p] # "empty" /\ p = Min(StringAt(M.board, p))})
        strings == [i \in DOMAIN origins |-> StringAt(M.board, origins[i])]
        chain == [i \in DOMAIN strings |-> Ascending(strings[i])]
        Of(p) == CHOOSE i \in DOMAIN strings : p \in strings[i]
        Successor(p) == LET c == chain[Of(p)]  k == CHOOSE k \in DOMAIN c : c[k] = p IN c[(k % Len(c)) + 1]
        Stone(p) == M.board[p] # "empty"
        Used(s) == s < Len(strings)
        ColorOf(s) == M.board[chain[s + 1][1]]
        Libs(s) == EmptyAround(M, chain[s + 1])
        Foes(s) == Ascending({Of(q) - 1 : q \in {q \in Points : M.board[q] = Other(ColorOf(s))
                                                     /\ Neighbors[q] \cap strings[s + 1] # {}}})
        Padded(list, n) == [k \in 1 .. n |-> IF k <= Len(list) THEN list[k] ELSE 0]
    IN [M EXCEPT
        !.number = [p \in Points |-> IF Stone(p) THEN Of(p) - 1 ELSE NoString],
        !.next = [p \in Points |-> IF Stone(p) THEN Successor(p) ELSE 0],
        !.color = [s \in Slots |-> IF Used(s) THEN ColorOf(s) ELSE "empty"],
        !.size = [s \in Slots |-> IF Used(s) THEN Cardinality(strings[s + 1]) ELSE 0],
        !.origin = [s \in Slots |-> IF Used(s) THEN chain[s + 1][1] ELSE 0],
        !.liberties = [s \in Slots |-> IF Used(s) THEN Len(Libs(s)) ELSE 0],
        !.lib = [s \in Slots |-> Padded(IF Used(s) THEN Libs(s) ELSE <<>>, MaxLiberties)],
        !.neighbors = [s \in Slots |-> IF Used(s) THEN Len(Foes(s)) ELSE 0],
        !.nb = [s \in Slots |-> Padded(IF Used(s) THEN Foes(s) ELSE <<>>, MaxStrings)],
        !.next_string = Len(strings), !.log = <<>>]

(* The memory of a position that was just set up.                          *)
Fresh(board) ==
    NewPosition([board |-> board, ko |-> NoMove, captured |-> [c \in Colors |-> 0],
                 hash |-> HashRecalc(board, NoMove), komaster |-> "empty", kom_pos |-> NoMove,
                 number |-> <<>>, next |-> <<>>, color |-> <<>>, size |-> <<>>, origin |-> <<>>,
                 liberties |-> <<>>, lib |-> <<>>, neighbors |-> <<>>, nb |-> <<>>,
                 next_string |-> 0, log |-> <<>>])

(* Free slots, the ends of the lists and the numbers of empty points are   *)
(* written before they are read; what an undo leaves there is forgotten so *)
(* that it does not tell states apart.                                     *)
Forget(M) ==
    LET Live(s) == s < M.next_string
        Kept(field, s, none) == IF Live(s) THEN M[field][s] ELSE none
        Cut(list, n) == [k \in DOMAIN list |-> IF k <= n THEN list[k] ELSE 0]
    IN [M EXCEPT
        !.number = [p \in Points |-> IF M.board[p] = "empty" THEN NoString ELSE M.number[p]],
        !.next = [p \in Points |-> IF M.board[p] = "empty" THEN 0 ELSE M.next[p]],
        !.color = [s \in Slots |-> Kept("color", s, "empty")],
        !.size = [s \in Slots |-> Kept("size", s, 0)],
        !.origin = [s \in Slots |-> Kept("origin", s, 0)],
        !.liberties = [s \in Slots |-> Kept("liberties", s, 0)],
        !.neighbors = [s \in Slots |-> Kept("neighbors", s, 0)],
        !.lib = [s \in Slots |-> Cut(M.lib[s], Kept("liberties", s, 0))],
        !.nb = [s \in Slots |-> Cut(M.nb[s], Kept("neighbors", s, 0))]]

-----------------------------------------------------------------------------
(* What the records must say of every string on the board.                 *)
RecordIsOf(M, S) ==
    LET s == M.number[Min(S)]
        libs == LibertiesOf(M.board, S)
        foes == {q \in Points : M.board[q] = Other(M.board[Min(S)]) /\ Neighbors[q] \cap S # {}}
    IN /\ \A p \in S : M.number[p] = s
       /\ s \in 0 .. M.next_string - 1
       /\ M.color[s] = M.board[Min(S)] /\ M.size[s] = Cardinality(S) /\ M.origin[s] = Min(S)
       /\ ToSet(Chain(M, s)) = S
       /\ M.liberties[s] = Cardinality(libs)
       /\ IsInjective(LibertyList(M, s)) /\ ToSet(LibertyList(M, s)) \subseteq libs
       /\ IsInjective(NeighborList(M, s)) /\ ToSet(NeighborList(M, s)) = {M.number[q] : q \in foes}

RecordsAreOfTheBoard(M) ==
    \A p \in Points : M.board[p] # "empty" => RecordIsOf(M, StringAt(M.board, p))
=============================================================================
