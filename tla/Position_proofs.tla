--------------------------- MODULE Position_proofs ---------------------------
(***************************************************************************)
(* What a move does to a position, on any board: strings are stones of one *)
(* color, no stone disappears without being counted as a prisoner, what    *)
(* happens does not depend on the hash, and the hash follows.              *)
(* Then rings, in which both StringBoard and McBoard keep strings: what a  *)
(* walk along one lists, and what linking two gives.                       *)
(***************************************************************************)
EXTENDS Position, FiniteSetTheorems, TLAPS

(* The loops here are followed step by step.                               *)
Steps == INSTANCE Recursion WITH Turn <- LAMBDA a, b, c, v, x : v,
                                 Holds <- LAMBDA a, b, c, base, seq, k, v : TRUE

BoardType == [Points -> Colors \cup {"empty"}]

-----------------------------------------------------------------------------
(* Strings.                                                                *)

LEMMA StonesFinite ==
  ASSUME NEW board, NEW c
  PROVE  IsFiniteSet(Stones(board, c)) /\ Cardinality(Stones(board, c)) \in Nat
<1>1. Stones(board, c) \in SUBSET Points /\ IsFiniteSet(Points)
  BY PointsAssumption DEF Stones
<1> QED BY <1>1, FS_Subset, FS_CardinalityType

(* A string grows stone by stone, as its definition says.                  *)
Grown(g, n, own, p) ==
    /\ g \in [0 .. n -> {S \in SUBSET own : p \in S}] /\ g[0] = {p}
    /\ \A k \in 1 .. n : g[k] = g[k - 1] \cup {q \in own : Neighbors[q] \cap g[k - 1] # {}}

LEMMA StringGrows ==
  ASSUME NEW board, NEW p \in Points, NEW own, own = Stones(board, board[p]),
         NEW n, n = Cardinality(own)
  PROVE  \E g : Grown(g, n, own, p) /\ StringAt(board, p) = g[n]
<1> DEFINE A == {S \in SUBSET own : p \in S}
           step == [k \in 1 .. n |-> [S \in A |-> S \cup {q \in own : Neighbors[q] \cap S # {}}]]
<1>1. n \in Nat /\ {p} \in A
  BY StonesFinite DEF Stones
<1>2. step \in [1 .. n -> [A -> A]]
  OBVIOUS
<1>3. \A k \in 1 .. n, S \in A : step[k][S] = S \cup {q \in own : Neighbors[q] \cap S # {}}
  OBVIOUS
<1>4. StringAt(board, p) = (CHOOSE f : f = [k \in 0 .. n |->
                               IF k = 0 THEN {p}
                               ELSE f[k - 1] \cup {q \in own : Neighbors[q] \cap f[k - 1] # {}}])[n]
  BY DEF StringAt
<1> HIDE DEF A, step
<1>5. PICK f : Steps!Started(f, n, A, {p}) /\ Steps!Stepped(f, n, step)
  BY <1>1, <1>2, Steps!Stepwise
<1> DEFINE grows(g) == [k \in 0 .. n |->
                          IF k = 0 THEN {p}
                          ELSE g[k - 1] \cup {q \in own : Neighbors[q] \cap g[k - 1] # {}}]
<1>6. f = grows(f)
  <2>1. \A k \in 0 .. n : f[k] = IF k = 0 THEN {p}
                                 ELSE f[k - 1] \cup {q \in own : Neighbors[q] \cap f[k - 1] # {}}
    <3> TAKE k \in 0 .. n
    <3>1. CASE k = 0
      BY <1>5, <3>1 DEF Steps!Started
    <3>2. CASE k # 0
      <4>1. k \in 1 .. n /\ k - 1 \in 0 .. n
        BY <1>1, <3>2
      <4>2. f[k - 1] \in A /\ f[k] = step[k][f[k - 1]]
        BY <1>5, <4>1 DEF Steps!Started, Steps!Stepped
      <4> QED BY <1>3, <3>2, <4>1, <4>2
    <3> QED BY <3>1, <3>2
  <2>2. f = [k \in 0 .. n |-> f[k]]
    BY <1>5 DEF Steps!Started
  <2> QED BY <2>1, <2>2
<1>7. PICK g : g = grows(g) /\ StringAt(board, p) = g[n]
  <2>1. (CHOOSE g : g = grows(g)) = grows(CHOOSE g : g = grows(g))
    <3> HIDE DEF grows
    <3> QED BY <1>6, Zenon
  <2> QED BY <1>4, <2>1
<1>8. \A k \in 0 .. n : g[k] = IF k = 0 THEN {p}
                               ELSE g[k - 1] \cup {q \in own : Neighbors[q] \cap g[k - 1] # {}}
  BY <1>7
<1>9. \A k \in 1 .. n : g[k] = g[k - 1] \cup {q \in own : Neighbors[q] \cap g[k - 1] # {}}
  <2> TAKE k \in 1 .. n
  <2>1. k \in 0 .. n /\ k # 0
    BY <1>1
  <2> QED BY <1>8, <2>1
<1>10. g = [k \in 0 .. n |-> g[k]]
  BY <1>7
<1> HIDE DEF grows
<1> DEFINE G == {k \in 0 .. n : g[k] \in A}
<1>11. ASSUME NEW k0 \in 0 .. n, k0 \notin G PROVE FALSE
  <2>1. PICK k \in 0 .. n : k \notin G /\ \A i \in 0 .. k - 1 : i \in G
    <3>1. \E k \in 0 .. n : k \notin G
      BY <1>11
    <3> HIDE DEF G
    <3> QED BY <1>1, <3>1, Steps!FirstGap
  <2>2. CASE k = 0
    BY <1>1, <1>8, <2>1, <2>2
  <2>3. CASE k # 0
    <3>1. k - 1 \in 0 .. k - 1 /\ k \in 1 .. n
      BY <1>1, <2>1, <2>3
    <3>2. g[k - 1] \in A
      BY <2>1, <3>1
    <3>3. g[k] \in A
      BY <1>9, <3>1, <3>2 DEF A
    <3> QED BY <2>1, <3>1, <3>3
  <2> QED BY <2>2, <2>3
<1>12. g \in [0 .. n -> A] /\ g[0] = {p}
  <2>1. \A k \in 0 .. n : g[k] \in A
    BY <1>11
  <2>2. 0 \in 0 .. n
    BY <1>1
  <2> QED BY <1>8, <1>10, <2>1, <2>2
<1> QED BY <1>7, <1>9, <1>12 DEF Grown, A

(* A string holds its stone, and stones of its color only.                 *)
LEMMA StringFacts ==
  ASSUME NEW board, NEW p \in Points
  PROVE  /\ p \in StringAt(board, p)
         /\ StringAt(board, p) \subseteq Stones(board, board[p])
<1> DEFINE own == Stones(board, board[p])
           n == Cardinality(own)
<1>1. PICK g : Grown(g, n, own, p) /\ StringAt(board, p) = g[n]
  BY StringGrows
<1>2. n \in Nat
  BY StonesFinite
<1>3. n \in 0 .. n
  BY <1>2
<1> HIDE DEF n
<1> QED BY <1>1, <1>3 DEF Grown

(* A set of stones that every neighboring stone of own belongs to.         *)
Closed(own, X) == \A q \in own : Neighbors[q] \cap X # {} => q \in X

(* It is the least closed set around its stone ...                         *)
LEMMA StringIsLeast ==
  ASSUME NEW board, NEW p \in Points, NEW X, p \in X, Closed(Stones(board, board[p]), X)
  PROVE  StringAt(board, p) \subseteq X
<1> DEFINE own == Stones(board, board[p])
           n == Cardinality(own)
<1>1. PICK g : Grown(g, n, own, p) /\ StringAt(board, p) = g[n]
  BY StringGrows
<1>2. n \in Nat
  BY StonesFinite
<1> HIDE DEF n
<1> DEFINE G == {k \in 0 .. n : g[k] \subseteq X}
<1>3. n \in G
  <2> SUFFICES ASSUME n \notin G PROVE FALSE
    OBVIOUS
  <2>1. PICK k \in 0 .. n : k \notin G /\ \A i \in 0 .. k - 1 : i \in G
    <3>1. \E k \in 0 .. n : k \notin G
      BY <1>2
    <3> HIDE DEF G
    <3> QED BY <1>2, <3>1, Steps!FirstGap
  <2>2. CASE k = 0
    BY <1>1, <2>1, <2>2 DEF Grown
  <2>3. CASE k # 0
    <3>1. k - 1 \in 0 .. k - 1 /\ k \in 1 .. n
      BY <1>2, <2>1, <2>3
    <3>2. g[k - 1] \subseteq X /\ g[k] = g[k - 1] \cup {q \in own : Neighbors[q] \cap g[k - 1] # {}}
      BY <1>1, <2>1, <3>1 DEF Grown
    <3>3. g[k] \subseteq X
      BY <3>2 DEF Closed
    <3> QED BY <2>1, <3>3
  <2> QED BY <2>2, <2>3
<1> QED BY <1>1, <1>3

(* ... and closed itself: as many steps as there are stones are enough.    *)
LEMMA StringIsClosed ==
  ASSUME NEW board, NEW p \in Points
  PROVE  Closed(Stones(board, board[p]), StringAt(board, p))
<1> DEFINE own == Stones(board, board[p])
           n == Cardinality(own)
<1>1. PICK g : Grown(g, n, own, p) /\ StringAt(board, p) = g[n]
  BY StringGrows
<1>2. n \in Nat /\ IsFiniteSet(own)
  BY StonesFinite
<1> HIDE DEF n
<1>3. \A k \in 0 .. n : /\ g[k] \subseteq own /\ IsFiniteSet(g[k]) /\ Cardinality(g[k]) \in Nat
                        /\ Cardinality(g[k]) <= n
  <2> TAKE k \in 0 .. n
  <2>1. g[k] \in SUBSET own
    BY <1>1 DEF Grown
  <2> QED BY <1>2, <2>1, FS_Subset, FS_CardinalityType DEF n
<1> DEFINE G == {k \in 0 .. n : Closed(own, g[k]) \/ Cardinality(g[k]) >= k + 1}
<1>4. n \in G
  <2> SUFFICES ASSUME n \notin G PROVE FALSE
    OBVIOUS
  <2>1. PICK k \in 0 .. n : k \notin G /\ \A i \in 0 .. k - 1 : i \in G
    <3>1. \E k \in 0 .. n : k \notin G
      BY <1>2
    <3> HIDE DEF G
    <3> QED BY <1>2, <3>1, Steps!FirstGap
  <2>2. CASE k = 0
    <3>1. g[0] = {p}
      BY <1>1 DEF Grown
    <3>2. Cardinality(g[k]) = 1
      BY <2>2, <3>1, FS_Singleton
    <3> QED BY <2>1, <2>2, <3>2
  <2>3. CASE k # 0
    <3>1. k - 1 \in 0 .. k - 1 /\ k \in 1 .. n /\ k - 1 \in 0 .. n
      BY <1>2, <2>1, <2>3
    <3>2. g[k] = g[k - 1] \cup {q \in own : Neighbors[q] \cap g[k - 1] # {}}
      BY <1>1, <3>1 DEF Grown
    <3>3. CASE Closed(own, g[k - 1])
      <4>1. g[k] = g[k - 1]
        BY <3>2, <3>3 DEF Closed
      <4> QED BY <2>1, <3>3, <4>1
    <3>4. CASE ~Closed(own, g[k - 1])
      <4>1. Cardinality(g[k - 1]) >= (k - 1) + 1
        BY <2>1, <3>1, <3>4
      <4>2. g[k - 1] \in SUBSET g[k] /\ g[k - 1] # g[k]
        BY <3>2, <3>4 DEF Closed
      <4>3. Cardinality(g[k - 1]) <= Cardinality(g[k]) /\ Cardinality(g[k - 1]) # Cardinality(g[k])
        BY <1>3, <4>2, FS_Subset
      <4>4. Cardinality(g[k - 1]) \in Nat /\ Cardinality(g[k]) \in Nat
        BY <1>3, <3>1
      <4>5. Cardinality(g[k]) >= k + 1
        BY <3>1, <4>1, <4>3, <4>4
      <4> QED BY <2>1, <4>5
    <3> QED BY <3>3, <3>4
  <2> QED BY <2>2, <2>3
<1>5. Closed(own, g[n])
  <2>1. n \in 0 .. n /\ ~(n >= n + 1)
    BY <1>2
  <2>2. Cardinality(g[n]) \in Nat /\ Cardinality(g[n]) <= n
    BY <1>3, <2>1
  <2> QED BY <1>2, <1>4, <2>2
<1> QED BY <1>1, <1>5

(* Two strings that meet are one.                                          *)
LEMMA StringsPartition ==
  ASSUME NEW board, NEW p \in Points, NEW q \in StringAt(board, p)
  PROVE  q \in Points /\ board[q] = board[p] /\ StringAt(board, q) = StringAt(board, p)
<1> DEFINE own == Stones(board, board[p])
           X == StringAt(board, p)
           Y == StringAt(board, q)
<1>1. X \subseteq own /\ p \in X /\ own \subseteq Points
  BY StringFacts DEF Stones
<1>2. q \in Points /\ board[q] = board[p]
  BY <1>1 DEF Stones
<1>3. Y \subseteq own /\ q \in Y
  BY <1>2, StringFacts
<1>4. Closed(own, X) /\ Closed(own, Y)
  BY <1>2, StringIsClosed
<1>5. Y \subseteq X
  BY <1>2, <1>4, StringIsLeast
<1>6. p \in Y
  <2> SUFFICES ASSUME p \notin Y PROVE FALSE
    OBVIOUS
  <2> DEFINE Z == X \ Y
  <2>1. p \in Z
    BY <1>1
  <2>2. Closed(own, Z)
    <3> HIDE DEF X, Y, own
    <3> SUFFICES ASSUME NEW r \in own, Neighbors[r] \cap Z # {} PROVE r \in Z
      BY DEF Closed
    <3>1. PICK s \in Neighbors[r] : s \in Z
      OBVIOUS
    <3>2. r \in X
      BY <1>4, <3>1 DEF Closed
    <3>3. s \in own /\ r \in Points /\ s \in Points
      BY <1>1, <3>1
    <3>4. r \in Neighbors[s]
      BY <3>1, <3>3, PointsAssumption
    <3>5. r \notin Y
      BY <1>4, <3>1, <3>3, <3>4 DEF Closed
    <3> QED BY <3>2, <3>5
  <2>3. X \subseteq Z
    BY <2>1, <2>2, StringIsLeast
  <2> QED BY <1>3, <2>3
<1>7. X \subseteq Y
  BY <1>4, <1>6, StringIsLeast
<1> QED BY <1>2, <1>5, <1>7

(* What is captured at a point or dies with a stone put there.             *)
Dying(board, loc, color) ==
    UNION {StringAt(board, q) : q \in {q \in Neighbors[loc] : board[q] = color}}

LEMMA TakenFacts ==
  ASSUME NEW board, NEW loc \in Points, NEW color
  PROVE  /\ CapturedBy(board, loc, color) \subseteq Stones(board, Other(color))
         /\ Dying(board, loc, color) \subseteq Stones(board, color)
         /\ Cardinality(CapturedBy(board, loc, color)) \in Nat
         /\ Cardinality(Dying(board, loc, color)) \in Nat
<1>1. \A q \in Neighbors[loc] : q \in Points /\ StringAt(board, q) \subseteq Stones(board, board[q])
  <2>1. \A q \in Neighbors[loc] : q \in Points
    BY PointsAssumption
  <2> QED BY <2>1, StringFacts
<1>2. CapturedBy(board, loc, color) \subseteq Stones(board, Other(color))
  BY <1>1 DEF CapturedBy
<1>3. Dying(board, loc, color) \subseteq Stones(board, color)
  BY <1>1 DEF Dying
<1> QED BY <1>2, <1>3, StonesFinite, FS_Subset, FS_CardinalityType

-----------------------------------------------------------------------------
(* A move, written out: what it does to each part of the position.         *)

LEMMA OthersColor ==
  ASSUME NEW c \in Colors
  PROVE  Other(c) \in Colors /\ Other(c) # c /\ c # "empty" /\ Other(Other(c)) = c
         /\ \A d \in Colors : d = c \/ d = Other(c)
BY DEF Other, Colors

LEMMA Parts ==
  ASSUME NEW b, NEW k, NEW cap, NEW h
  PROVE  /\ PositionOf(b, k, cap, h).board = b /\ PositionOf(b, k, cap, h).ko = k
         /\ PositionOf(b, k, cap, h).captured = cap /\ PositionOf(b, k, cap, h).hash = h
BY DEF PositionOf

(* The board after a stone is put and its captures are taken off.          *)
Put(board, loc, color) == [board EXCEPT ![loc] = color]

Cleared(board, S) == [p \in Points |-> IF p \in S THEN "empty" ELSE board[p]]

BoardAfter(board, loc, color) ==
    Cleared(Put(board, loc, color), CapturedBy(board, loc, color))

KoAfter(board, loc, color) ==
    LET libs == Liberties(BoardAfter(board, loc, color), loc)
    IN IF /\ ~HasNeighbor(board, loc, color)
          /\ Cardinality(libs) = 1 /\ Cardinality(CapturedBy(board, loc, color)) = 1
       THEN CHOOSE l \in libs : TRUE ELSE NoMove

StoneHashes(board, S) == {StoneHash(p, board[p]) : p \in S}

Prisoners(cap, color, n) == [cap EXCEPT ![color] = @ + n]

HashAfter(hash, board, loc, color) ==
    SymDiff(SymDiff(SymDiff(hash, {StoneHash(loc, color)}),
                    StoneHashes(Put(board, loc, color), CapturedBy(board, loc, color))),
            KoPart(KoAfter(board, loc, color)))

LEMMA KoType ==
  ASSUME NEW board, NEW loc, NEW color
  PROVE  KoAfter(board, loc, color) \in Points \cup {NoMove}
<1> DEFINE libs == Liberties(BoardAfter(board, loc, color), loc)
<1>1. libs \subseteq Points
  BY DEF Liberties, LibertiesOf
<1>2. Cardinality(libs) = 1 => libs # {}
  <2>1. Cardinality({}) = 0
    BY FS_EmptySet
  <2> QED BY <2>1
<1> HIDE DEF libs
<1>3. Cardinality(libs) = 1 => (CHOOSE l \in libs : TRUE) \in Points
  BY <1>1, <1>2
<1> QED BY <1>3 DEF KoAfter, libs

LEMMA RemovedIs ==
  ASSUME NEW b, NEW k, NEW cap, NEW h, NEW S, NEW color
  PROVE  Removed(PositionOf(b, k, cap, h), S, color)
         = PositionOf(Cleared(b, S), k, Prisoners(cap, color, Cardinality(S)),
                      SymDiff(h, StoneHashes(b, S)))
<1> PICK P : P = PositionOf(b, k, cap, h)
  OBVIOUS
<1>1. P.board = b /\ P.ko = k /\ P.captured = cap /\ P.hash = h
  BY Parts
<1>2. Removed(P, S, color) =
         PositionOf([p \in Points |-> IF p \in S THEN "empty" ELSE b[p]], k,
                    [cap EXCEPT ![color] = @ + Cardinality(S)],
                    SymDiff(h, {StoneHash(p, b[p]) : p \in S}))
  BY <1>1 DEF Removed
<1> QED BY <1>2 DEF Cleared, StoneHashes, Prisoners

LEMMA StonePutIs ==
  ASSUME NEW b, NEW k, NEW cap, NEW h, NEW loc, NEW color
  PROVE  StonePut(PositionOf(b, k, cap, h), loc, color)
         = PositionOf(Put(b, loc, color), k, cap, SymDiff(h, {StoneHash(loc, color)}))
BY Parts DEF StonePut, Put

LEMMA KoClearedIs ==
  ASSUME NEW b, NEW k, NEW cap, NEW h
  PROVE  KoCleared(PositionOf(b, k, cap, h)) = PositionOf(b, NoMove, cap, SymDiff(h, KoPart(k)))
<1> PICK P, y : P = PositionOf(b, k, cap, h) /\ y = SymDiff(h, KoPart(k))
  OBVIOUS
<1>1. P.ko = k /\ P.hash = h
  BY Parts
<1>2. KoCleared(P) = [P EXCEPT !.ko = NoMove, !.hash = y]
  BY <1>1 DEF KoCleared
<1>3. P = [board |-> b, ko |-> k, captured |-> cap, hash |-> h]
  BY DEF PositionOf
<1>4. [P EXCEPT !.ko = NoMove, !.hash = y] = [board |-> b, ko |-> NoMove, captured |-> cap, hash |-> y]
  <2>1. PICK Q : Q = [P EXCEPT !.ko = NoMove]
    OBVIOUS
  <2>2. Q = [board |-> b, ko |-> NoMove, captured |-> cap, hash |-> h]
    BY <1>3, <2>1
  <2>3. [Q EXCEPT !.hash = y] = [board |-> b, ko |-> NoMove, captured |-> cap, hash |-> y]
    BY <2>2
  <2>4. [P EXCEPT !.ko = NoMove, !.hash = y] = [[P EXCEPT !.ko = NoMove] EXCEPT !.hash = y]
    OBVIOUS
  <2> QED BY <2>1, <2>3, <2>4, Zenon
<1> QED BY <1>2, <1>4 DEF PositionOf

LEMMA DoPlayMoveIs ==
  ASSUME NEW board, NEW h, NEW cap, NEW loc, NEW color
  PROVE  DoPlayMove(PositionOf(board, NoMove, cap, h), loc, color)
         = PositionOf(BoardAfter(board, loc, color), KoAfter(board, loc, color),
                      Prisoners(cap, Other(color), Cardinality(CapturedBy(board, loc, color))),
                      HashAfter(h, board, loc, color))
<1> DEFINE P == PositionOf(board, NoMove, cap, h)
           taken == CapturedBy(board, loc, color)
           Q == Removed(StonePut(P, loc, color), taken, Other(color))
           b2 == BoardAfter(board, loc, color)
           c2 == Prisoners(cap, Other(color), Cardinality(taken))
           h2 == SymDiff(SymDiff(h, {StoneHash(loc, color)}),
                         StoneHashes(Put(board, loc, color), taken))
           libs == Liberties(b2, loc)
           isko == /\ ~HasNeighbor(board, loc, color)
                   /\ Cardinality(libs) = 1 /\ Cardinality(taken) = 1
           kpos == CHOOSE l \in libs : TRUE
           ko == IF isko THEN kpos ELSE NoMove
<1>1. Q = PositionOf(b2, NoMove, c2, h2)
  BY StonePutIs, RemovedIs DEF BoardAfter
<1>2. P.board = board /\ Q.board = b2 /\ Q.ko = NoMove /\ Q.captured = c2 /\ Q.hash = h2
  BY <1>1, Parts
<1>3. DoPlayMove(P, loc, color) =
         IF isko THEN PositionOf(b2, kpos, c2, SymDiff(SymDiff(h2, KoPart(NoMove)), {KoHash(kpos)}))
         ELSE Q
  <2> HIDE DEF Q, P, b2, c2, h2
  <2>1. DoPlayMove(P, loc, color) =
         LET lb == Liberties(Q.board, loc)
             k == /\ ~HasNeighbor(P.board, loc, color)
                  /\ Cardinality(lb) = 1 /\ Cardinality(CapturedBy(P.board, loc, color)) = 1
         IN IF k THEN PositionOf(Q.board, CHOOSE l \in lb : TRUE, Q.captured,
                         SymDiff(SymDiff(Q.hash, KoPart(Q.ko)), {KoHash(CHOOSE l \in lb : TRUE)}))
            ELSE Q
    BY <1>2 DEF DoPlayMove, Q
  <2> QED BY <1>2, <2>1
<1>4. \A x : SymDiff(x, {}) = x
  BY DEF SymDiff
<1>5. KoPart(NoMove) = {}
  BY DEF KoPart
<1>6. ko = KoAfter(board, loc, color)
  BY DEF KoAfter
<1>7. isko => kpos \in Points /\ kpos # NoMove
  <2>1. libs \subseteq Points
    BY DEF Liberties, LibertiesOf
  <2>2. Cardinality(libs) = 1 => libs # {}
    <3>1. Cardinality({}) = 0
      BY FS_EmptySet
    <3> QED BY <3>1
  <2> HIDE DEF libs
  <2> QED BY <2>1, <2>2, PointsAssumption
<1>8. HashAfter(h, board, loc, color) = SymDiff(h2, KoPart(ko))
  BY <1>6 DEF HashAfter
<1> HIDE DEF P, Q, b2, c2, h2, kpos, isko
<1>9. DoPlayMove(P, loc, color) = PositionOf(b2, ko, c2, SymDiff(h2, KoPart(ko)))
  <2>1. CASE isko
    <3>1. KoPart(kpos) = {KoHash(kpos)}
      BY <1>7, <2>1 DEF KoPart
    <3> QED BY <1>3, <1>4, <1>5, <2>1, <3>1
  <2>2. CASE ~isko
    BY <1>1, <1>3, <1>4, <1>5, <2>2
  <2> QED BY <2>1, <2>2
<1> QED BY <1>6, <1>8, <1>9 DEF P, b2, c2

(* Every move: a pass, a suicide or a play.                                *)
Suicidal(board, loc, color) == loc # NoMove /\ IsSuicide(board, loc, color)

NextBoard(board, loc, color) ==
    IF loc = NoMove THEN board
    ELSE IF Suicidal(board, loc, color) THEN Cleared(board, Dying(board, loc, color))
    ELSE BoardAfter(board, loc, color)

NextKo(board, loc, color) ==
    IF loc = NoMove \/ Suicidal(board, loc, color) THEN NoMove ELSE KoAfter(board, loc, color)

NextCaptured(board, cap, loc, color) ==
    IF loc = NoMove THEN cap
    ELSE IF Suicidal(board, loc, color)
         THEN Prisoners(Prisoners(cap, color, Cardinality(Dying(board, loc, color))), color, 1)
    ELSE Prisoners(cap, Other(color), Cardinality(CapturedBy(board, loc, color)))

NextHash(board, ko, hash, loc, color) ==
    LET h == SymDiff(hash, KoPart(ko)) IN
    IF loc = NoMove THEN h
    ELSE IF Suicidal(board, loc, color) THEN SymDiff(h, StoneHashes(board, Dying(board, loc, color)))
    ELSE HashAfter(h, board, loc, color)

(* Of the position only the hash depends on the hash.                      *)
LEMMA MoveIs ==
  ASSUME NEW b, NEW k, NEW cap, NEW h, NEW loc, NEW color
  PROVE  PlayMoveNoHistory(PositionOf(b, k, cap, h), loc, color)
         = PositionOf(NextBoard(b, loc, color), NextKo(b, loc, color),
                      NextCaptured(b, cap, loc, color), NextHash(b, k, h, loc, color))
<1> DEFINE P == PositionOf(b, k, cap, h)
           h1 == SymDiff(h, KoPart(k))
           Q == PositionOf(b, NoMove, cap, h1)
<1>1. KoCleared(P) = Q /\ P.board = b
  BY KoClearedIs, Parts
<1>2. PlayMoveNoHistory(P, loc, color) =
         IF loc = NoMove THEN Q
         ELSE IF IsSuicide(b, loc, color) THEN DoCommitSuicide(Q, loc, color)
         ELSE DoPlayMove(Q, loc, color)
  BY <1>1 DEF PlayMoveNoHistory
<1>3. DoCommitSuicide(Q, loc, color) =
         PositionOf(Cleared(b, Dying(b, loc, color)), NoMove,
                    Prisoners(Prisoners(cap, color, Cardinality(Dying(b, loc, color))), color, 1),
                    SymDiff(h1, StoneHashes(b, Dying(b, loc, color))))
  <2> DEFINE R == Removed(Q, Dying(b, loc, color), color)
  <2>1. R = PositionOf(Cleared(b, Dying(b, loc, color)), NoMove,
                       Prisoners(cap, color, Cardinality(Dying(b, loc, color))),
                       SymDiff(h1, StoneHashes(b, Dying(b, loc, color))))
    BY RemovedIs
  <2>2. Q.board = b
    BY Parts
  <2>3. DoCommitSuicide(Q, loc, color)
        = PositionOf(R.board, R.ko, Prisoners(R.captured, color, 1), R.hash)
    BY <2>2 DEF DoCommitSuicide, Dying, Prisoners
  <2> HIDE DEF R
  <2> QED BY <2>1, <2>3, Parts
<1>4. DoPlayMove(Q, loc, color) =
         PositionOf(BoardAfter(b, loc, color), KoAfter(b, loc, color),
                    Prisoners(cap, Other(color), Cardinality(CapturedBy(b, loc, color))),
                    HashAfter(h1, b, loc, color))
  BY DoPlayMoveIs
<1> HIDE DEF P, Q
<1>5. CASE loc = NoMove
  BY <1>2, <1>5 DEF NextBoard, NextKo, NextCaptured, NextHash, P, Q
<1>6. CASE loc # NoMove /\ IsSuicide(b, loc, color)
  BY <1>2, <1>3, <1>6 DEF NextBoard, NextKo, NextCaptured, NextHash, Suicidal, P
<1>7. CASE loc # NoMove /\ ~IsSuicide(b, loc, color)
  BY <1>2, <1>4, <1>7 DEF NextBoard, NextKo, NextCaptured, NextHash, Suicidal, P
<1> QED BY <1>5, <1>6, <1>7

-----------------------------------------------------------------------------
(* Types.                                                                  *)

SavedType == [board : BoardType, ko : Points \cup {NoMove}, captured : [Colors -> Nat]]

HashType ==
    SUBSET ({StoneHash(p, c) : p \in Points, c \in Colors} \cup {KoHash(p) : p \in Points})

LEMMA BoardTypes ==
  ASSUME NEW board \in BoardType, NEW loc \in Points, NEW color \in Colors, NEW S
  PROVE  Put(board, loc, color) \in BoardType /\ Cleared(board, S) \in BoardType
BY DEF BoardType, Put, Cleared

LEMMA PrisonersType ==
  ASSUME NEW cap \in [Colors -> Nat], NEW color, NEW n \in Nat
  PROVE  Prisoners(cap, color, n) \in [Colors -> Nat]
<1>1. \A c \in Colors : cap[c] \in Nat /\ cap[c] + n \in Nat
  OBVIOUS
<1> QED BY <1>1 DEF Prisoners

LEMMA NextType ==
  ASSUME NEW board \in BoardType, NEW cap \in [Colors -> Nat],
         NEW loc \in Points \cup {NoMove}, NEW color \in Colors
  PROVE  /\ NextBoard(board, loc, color) \in BoardType
         /\ NextKo(board, loc, color) \in Points \cup {NoMove}
         /\ NextCaptured(board, cap, loc, color) \in [Colors -> Nat]
<1>1. NextBoard(board, loc, color) \in BoardType
  <2>1. loc # NoMove => /\ Cleared(board, Dying(board, loc, color)) \in BoardType
                        /\ BoardAfter(board, loc, color) \in BoardType
    BY BoardTypes DEF BoardAfter
  <2> QED BY <2>1 DEF NextBoard
<1>2. NextKo(board, loc, color) \in Points \cup {NoMove}
  BY KoType DEF NextKo
<1>3. NextCaptured(board, cap, loc, color) \in [Colors -> Nat]
  <2>1. CASE loc = NoMove
    BY <2>1 DEF NextCaptured
  <2>2. CASE loc # NoMove
    <3>1. /\ Cardinality(CapturedBy(board, loc, color)) \in Nat
          /\ Cardinality(Dying(board, loc, color)) \in Nat
      BY <2>2, TakenFacts
    <3> PICK n, m : n = Cardinality(CapturedBy(board, loc, color)) /\ m = Cardinality(Dying(board, loc, color))
      OBVIOUS
    <3>2. /\ Prisoners(cap, Other(color), n) \in [Colors -> Nat]
          /\ Prisoners(cap, color, m) \in [Colors -> Nat]
          /\ Prisoners(Prisoners(cap, color, m), color, 1) \in [Colors -> Nat]
      BY <3>1, PrisonersType
    <3> QED BY <2>2, <3>2 DEF NextCaptured
  <2> QED BY <2>1, <2>2
<1> QED BY <1>1, <1>2, <1>3

(* The hash stays a set of the numbers of stones and ko points.            *)
LEMMA NextHashType ==
  ASSUME NEW board \in BoardType, NEW k \in Points \cup {NoMove}, NEW h \in HashType,
         NEW loc \in Points \cup {NoMove}, NEW color \in Colors
  PROVE  NextHash(board, k, h, loc, color) \in HashType
<1>1. \A ko \in Points \cup {NoMove} : KoPart(ko) \in HashType
  BY DEF KoPart, HashType
<1>2. \A p \in Points, c \in Colors : {StoneHash(p, c)} \in HashType
  BY DEF HashType
<1>3. ASSUME NEW b \in BoardType, NEW c \in Colors, NEW S \in SUBSET Stones(b, c)
      PROVE  StoneHashes(b, S) \in HashType
  <2>1. \A p \in S : p \in Points /\ b[p] \in Colors
    BY DEF Stones
  <2> QED BY <2>1 DEF StoneHashes, HashType
<1>4. \A x, y \in HashType : SymDiff(x, y) \in HashType
  BY DEF SymDiff, HashType
<1>5. SymDiff(h, KoPart(k)) \in HashType
  BY <1>1, <1>4
<1>6. CASE loc = NoMove
  BY <1>5, <1>6 DEF NextHash
<1>7. CASE loc # NoMove
  <2>1. /\ CapturedBy(board, loc, color) \in SUBSET Stones(board, Other(color))
        /\ Dying(board, loc, color) \in SUBSET Stones(board, color)
    BY <1>7, TakenFacts
  <2>2. StoneHashes(board, Dying(board, loc, color)) \in HashType
    BY <1>3, <2>1
  <2>3. StoneHashes(Put(board, loc, color), CapturedBy(board, loc, color)) \in HashType
    <3>1. \A p \in CapturedBy(board, loc, color) : p \in Points /\ Put(board, loc, color)[p] \in Colors
      BY <1>7, <2>1, OthersColor DEF Stones, Put, BoardType
    <3> QED BY <3>1 DEF StoneHashes, HashType
  <2>4. KoPart(KoAfter(board, loc, color)) \in HashType
    BY <1>1, KoType
  <2> PICK h1, h2, h3, h4, h5 :
         /\ h1 = SymDiff(h, KoPart(k))
         /\ h2 = StoneHashes(board, Dying(board, loc, color))
         /\ h3 = {StoneHash(loc, color)}
         /\ h4 = StoneHashes(Put(board, loc, color), CapturedBy(board, loc, color))
         /\ h5 = KoPart(KoAfter(board, loc, color))
    OBVIOUS
  <2>5. h1 \in HashType /\ h2 \in HashType /\ h3 \in HashType /\ h4 \in HashType /\ h5 \in HashType
    BY <1>2, <1>5, <1>7, <2>2, <2>3, <2>4
  <2>6. /\ SymDiff(h1, h2) \in HashType
        /\ SymDiff(h1, h3) \in HashType
        /\ SymDiff(SymDiff(h1, h3), h4) \in HashType
        /\ SymDiff(SymDiff(SymDiff(h1, h3), h4), h5) \in HashType
    BY <1>4, <2>5
  <2>7. NextHash(board, k, h, loc, color) = IF Suicidal(board, loc, color) THEN SymDiff(h1, h2)
                                         ELSE SymDiff(SymDiff(SymDiff(h1, h3), h4), h5)
    BY <1>7 DEF NextHash, HashAfter
  <2> QED BY <2>6, <2>7
<1> QED BY <1>6, <1>7

-----------------------------------------------------------------------------
(* No stone disappears: what leaves the board is counted as a prisoner.    *)

Total(board, cap, c) == Cardinality(Stones(board, c)) + cap[c]

LEMMA StonesConserved ==
  ASSUME NEW board \in BoardType, NEW cap \in [Colors -> Nat],
         NEW loc \in Points, board[loc] = "empty", NEW color \in Colors, NEW c \in Colors
  PROVE  Total(NextBoard(board, loc, color), NextCaptured(board, cap, loc, color), c)
         = Total(board, cap, c) + (IF c = color THEN 1 ELSE 0)
<1>1. loc # NoMove
  BY PointsAssumption
<1>2. /\ Other(color) \in Colors /\ Other(color) # color /\ color # "empty" /\ Other(color) # "empty"
      /\ c = color \/ c = Other(color)
  BY OthersColor
<1>3. \A d : IsFiniteSet(Stones(board, d)) /\ Cardinality(Stones(board, d)) \in Nat
  BY StonesFinite
<1>4. cap[c] \in Nat /\ cap[color] \in Nat /\ cap[Other(color)] \in Nat
  BY <1>2
<1> DEFINE b2 == NextBoard(board, loc, color)
           cap2 == NextCaptured(board, cap, loc, color)
<1>5. CASE Suicidal(board, loc, color)
  <2> DEFINE D == Dying(board, loc, color)
  <2>1. D \subseteq Stones(board, color) /\ Cardinality(D) \in Nat
    BY TakenFacts
  <2>2. b2 = Cleared(board, D) /\ cap2 = Prisoners(Prisoners(cap, color, Cardinality(D)), color, 1)
    BY <1>1, <1>5 DEF NextBoard, NextCaptured
  <2> HIDE DEF D
  <2>3. Stones(b2, color) = Stones(board, color) \ D /\ Stones(b2, Other(color)) = Stones(board, Other(color))
    BY <1>2, <2>1, <2>2 DEF Stones, Cleared
  <2>4. Stones(board, color) \cap D = D
    BY <2>1
  <2>5. Cardinality(Stones(b2, color)) = Cardinality(Stones(board, color)) - Cardinality(D)
    BY <1>3, <2>3, <2>4, FS_Difference
  <2>6. cap2[color] = cap[color] + Cardinality(D) + 1 /\ cap2[Other(color)] = cap[Other(color)]
    BY <1>2, <2>2 DEF Prisoners
  <2> HIDE DEF b2, cap2
  <2>7. Total(b2, cap2, color) = Total(board, cap, color) + 1
    BY <1>3, <1>4, <2>1, <2>5, <2>6 DEF Total
  <2>8. Total(b2, cap2, Other(color)) = Total(board, cap, Other(color))
    BY <2>3, <2>6 DEF Total
  <2>9. Total(board, cap, Other(color)) \in Nat
    BY <1>3, <1>4 DEF Total
  <2> QED BY <1>2, <2>7, <2>8, <2>9 DEF b2, cap2
<1>6. CASE ~Suicidal(board, loc, color)
  <2> DEFINE T == CapturedBy(board, loc, color)
  <2>1. T \subseteq Stones(board, Other(color)) /\ Cardinality(T) \in Nat
    BY TakenFacts
  <2>2. b2 = Cleared(Put(board, loc, color), T) /\ cap2 = Prisoners(cap, Other(color), Cardinality(T))
    BY <1>1, <1>6 DEF NextBoard, NextCaptured, BoardAfter
  <2> HIDE DEF T
  <2>3. /\ Stones(b2, color) = Stones(board, color) \cup {loc} /\ loc \notin Stones(board, color)
        /\ Stones(b2, Other(color)) = Stones(board, Other(color)) \ T
    <3>1. \A p \in Points : Put(board, loc, color)[p] = IF p = loc THEN color ELSE board[p]
      BY DEF Put, BoardType
    <3>2. \A p \in T : p \in Points /\ board[p] = Other(color) /\ p # loc
      BY <1>2, <2>1 DEF Stones
    <3>3. \A p \in Points : b2[p] = IF p \in T THEN "empty" ELSE IF p = loc THEN color ELSE board[p]
      BY <2>2, <3>1 DEF Cleared
    <3> HIDE DEF b2
    <3> QED BY <1>2, <3>2, <3>3 DEF Stones
  <2>4. Stones(board, Other(color)) \cap T = T
    BY <2>1
  <2>5. /\ Cardinality(Stones(b2, Other(color))) = Cardinality(Stones(board, Other(color))) - Cardinality(T)
        /\ Cardinality(Stones(b2, color)) = Cardinality(Stones(board, color)) + 1
    <3>1. Cardinality(Stones(board, Other(color)) \ T)
          = Cardinality(Stones(board, Other(color))) - Cardinality(Stones(board, Other(color)) \cap T)
      BY <1>3, FS_Difference
    <3>2. Cardinality(Stones(board, color) \cup {loc})
          = IF loc \in Stones(board, color) THEN Cardinality(Stones(board, color))
            ELSE Cardinality(Stones(board, color)) + 1
      BY <1>3, FS_AddElement
    <3> HIDE DEF b2
    <3> QED BY <2>3, <2>4, <3>1, <3>2
  <2>6. cap2[color] = cap[color] /\ cap2[Other(color)] = cap[Other(color)] + Cardinality(T)
    BY <1>2, <2>2 DEF Prisoners
  <2> HIDE DEF b2, cap2
  <2>7. Total(b2, cap2, color) = Total(board, cap, color) + 1
    BY <1>3, <1>4, <2>5, <2>6 DEF Total
  <2>8. Total(b2, cap2, Other(color)) = Total(board, cap, Other(color))
    BY <1>3, <1>4, <2>1, <2>5, <2>6 DEF Total
  <2>9. Total(board, cap, Other(color)) \in Nat
    BY <1>3, <1>4 DEF Total
  <2> QED BY <1>2, <2>7, <2>8, <2>9 DEF b2, cap2
<1> QED BY <1>5, <1>6

-----------------------------------------------------------------------------
(* The hash follows the board.                                             *)

BoardHash(board) == {StoneHash(p, board[p]) : p \in {q \in Points : board[q] \in Colors}}

LEMMA HashesDiffer ==
  ASSUME NEW p, NEW c, NEW q, NEW d
  PROVE  /\ StoneHash(p, c) = StoneHash(q, d) <=> p = q /\ c = d
         /\ StoneHash(p, c) # KoHash(q)
BY DEF StoneHash, KoHash

LEMMA SymDiffFacts ==
  ASSUME NEW A, NEW B, NEW K
  PROVE  /\ B \subseteq A => SymDiff(A, B) = A \ B
         /\ A \cap B = {} => SymDiff(A, B) = A \cup B
         /\ A \cap K = {} => SymDiff(A \cup K, K) = A
BY DEF SymDiff

LEMMA KoHashesApart ==
  ASSUME NEW board, NEW ko
  PROVE  BoardHash(board) \cap KoPart(ko) = {}
BY HashesDiffer DEF BoardHash, KoPart

LEMMA PutHash ==
  ASSUME NEW board \in BoardType, NEW loc \in Points, board[loc] = "empty", NEW color \in Colors
  PROVE  SymDiff(BoardHash(board), {StoneHash(loc, color)}) = BoardHash(Put(board, loc, color))
<1>1. "empty" \notin Colors
  BY DEF Colors
<1>2. \A p \in Points : Put(board, loc, color)[p] = IF p = loc THEN color ELSE board[p]
  BY DEF Put, BoardType
<1>3. StoneHash(loc, color) \notin BoardHash(board)
  BY <1>1, HashesDiffer DEF BoardHash
<1>4. BoardHash(Put(board, loc, color)) = BoardHash(board) \cup {StoneHash(loc, color)}
  BY <1>1, <1>2 DEF BoardHash
<1>5. BoardHash(board) \cap {StoneHash(loc, color)} = {}
  BY <1>3
<1> QED BY <1>4, <1>5, SymDiffFacts

LEMMA ClearedHash ==
  ASSUME NEW board \in BoardType, NEW S \in SUBSET Points, \A p \in S : board[p] \in Colors
  PROVE  SymDiff(BoardHash(board), StoneHashes(board, S)) = BoardHash(Cleared(board, S))
<1>1. "empty" \notin Colors
  BY DEF Colors
<1>2. StoneHashes(board, S) \subseteq BoardHash(board)
  BY DEF StoneHashes, BoardHash
<1>3. \A p \in Points : Cleared(board, S)[p] = IF p \in S THEN "empty" ELSE board[p]
  BY DEF Cleared
<1>4. BoardHash(Cleared(board, S)) = BoardHash(board) \ StoneHashes(board, S)
  <2>1. ASSUME NEW x \in BoardHash(Cleared(board, S)) PROVE x \in BoardHash(board) \ StoneHashes(board, S)
    <3>1. PICK p \in Points : Cleared(board, S)[p] \in Colors /\ x = StoneHash(p, Cleared(board, S)[p])
      BY <2>1 DEF BoardHash
    <3>2. p \notin S /\ board[p] \in Colors /\ x = StoneHash(p, board[p])
      BY <1>1, <1>3, <3>1
    <3> QED BY <3>2, HashesDiffer DEF BoardHash, StoneHashes
  <2>2. ASSUME NEW x \in BoardHash(board) \ StoneHashes(board, S) PROVE x \in BoardHash(Cleared(board, S))
    <3>1. PICK p \in Points : board[p] \in Colors /\ x = StoneHash(p, board[p])
      BY <2>2 DEF BoardHash
    <3>2. p \notin S
      BY <2>2, <3>1 DEF StoneHashes
    <3>3. Cleared(board, S)[p] = board[p]
      BY <1>3, <3>2
    <3> QED BY <3>1, <3>3 DEF BoardHash
  <2> QED BY <2>1, <2>2
<1> QED BY <1>2, <1>4, SymDiffFacts

LEMMA HashFollows ==
  ASSUME NEW board \in BoardType, NEW k, NEW loc \in Points \cup {NoMove}, NEW color \in Colors,
         loc # NoMove => board[loc] = "empty"
  PROVE  NextHash(board, k, HashRecalc(board, k), loc, color)
         = HashRecalc(NextBoard(board, loc, color), NextKo(board, loc, color))
<1>1. \A b, ko : HashRecalc(b, ko) = BoardHash(b) \cup KoPart(ko)
  BY DEF HashRecalc, BoardHash
<1>2. SymDiff(HashRecalc(board, k), KoPart(k)) = BoardHash(board)
  BY <1>1, KoHashesApart, SymDiffFacts
<1>3. KoPart(NoMove) = {}
  BY DEF KoPart
<1>4. CASE loc = NoMove
  BY <1>1, <1>2, <1>3, <1>4 DEF NextHash, NextBoard, NextKo
<1>5. CASE Suicidal(board, loc, color)
  <2> DEFINE D == Dying(board, loc, color)
  <2>1. loc # NoMove /\ loc \in Points
    BY <1>5 DEF Suicidal
  <2>2. D \in SUBSET Points /\ \A p \in D : board[p] \in Colors
    BY <2>1, TakenFacts DEF Stones
  <2>3. NextHash(board, k, HashRecalc(board, k), loc, color) = SymDiff(BoardHash(board), StoneHashes(board, D))
    BY <1>2, <1>5, <2>1 DEF NextHash
  <2>4. NextBoard(board, loc, color) = Cleared(board, D) /\ NextKo(board, loc, color) = NoMove
    BY <1>5, <2>1 DEF NextBoard, NextKo
  <2> HIDE DEF D
  <2> QED BY <1>1, <1>3, <2>2, <2>3, <2>4, ClearedHash
<1>6. CASE loc # NoMove /\ ~Suicidal(board, loc, color)
  <2> DEFINE T == CapturedBy(board, loc, color)
             b1 == Put(board, loc, color)
             ko == KoAfter(board, loc, color)
  <2>1. loc \in Points /\ board[loc] = "empty" /\ b1 \in BoardType
    BY <1>6, BoardTypes
  <2>2. T \in SUBSET Points /\ \A p \in T : b1[p] \in Colors
    BY <2>1, TakenFacts, OthersColor DEF Stones, Put, BoardType
  <2>3. SymDiff(BoardHash(board), {StoneHash(loc, color)}) = BoardHash(b1)
    BY <2>1, PutHash
  <2>4. NextHash(board, k, HashRecalc(board, k), loc, color)
        = SymDiff(SymDiff(BoardHash(b1), StoneHashes(b1, T)), KoPart(ko))
    BY <1>2, <1>6, <2>3 DEF NextHash, HashAfter
  <2>5. NextBoard(board, loc, color) = Cleared(b1, T) /\ NextKo(board, loc, color) = ko
    BY <1>6 DEF NextBoard, NextKo, BoardAfter
  <2> HIDE DEF T, b1, ko
  <2>6. SymDiff(BoardHash(b1), StoneHashes(b1, T)) = BoardHash(Cleared(b1, T))
    BY <2>1, <2>2, ClearedHash
  <2> QED BY <1>1, <2>4, <2>5, <2>6, KoHashesApart, SymDiffFacts
<1> QED BY <1>4, <1>5, <1>6 DEF Suicidal
-----------------------------------------------------------------------------
(* Strings and liberties after a stone is put or strings are taken.        *)

(* A string that loses no stone and meets no new one stays as it is.       *)
LEMMA StringKept ==
  ASSUME NEW b, NEW b2, NEW p \in Points, b2[p] = b[p],
         StringAt(b, p) \subseteq Stones(b2, b[p]),
         \A q \in Stones(b2, b[p]) : Neighbors[q] \cap StringAt(b, p) # {} => b[q] = b[p]
  PROVE  StringAt(b2, p) = StringAt(b, p)
<1> DEFINE own == Stones(b, b[p])
           own2 == Stones(b2, b[p])
           X == StringAt(b, p)
           Y == StringAt(b2, p)
<1>1. /\ p \in X /\ X \subseteq own /\ X \subseteq own2 /\ p \in Y /\ Y \subseteq own2
      /\ Closed(own, X) /\ Closed(own2, Y)
  BY StringFacts, StringIsClosed
<1>2. \A q \in own2 : Neighbors[q] \cap X # {} => q \in own
  BY DEF Stones
<1>3. Closed(own2, X)
  BY <1>1, <1>2 DEF Closed
<1>4. Y \subseteq X
  BY <1>1, <1>3, StringIsLeast
<1>5. Closed(own, Y)
  <2> HIDE DEF own, own2, X, Y
  <2> SUFFICES ASSUME NEW r \in own, Neighbors[r] \cap Y # {} PROVE r \in Y
    BY DEF Closed
  <2>1. r \in X
    BY <1>1, <1>4 DEF Closed
  <2> QED BY <1>1, <2>1 DEF Closed
<1>6. X \subseteq Y
  BY <1>1, <1>5, StringIsLeast
<1> QED BY <1>4, <1>6

LEMMA LibertyIs ==
  ASSUME NEW b, NEW p, NEW l
  PROVE  l \in Liberties(b, p) <=>
            l \in Points /\ b[l] = "empty" /\ \E q \in StringAt(b, p) : q \in Neighbors[l]
BY DEF Liberties, LibertiesOf

LEMMA NeighborLiberty ==
  ASSUME NEW b, NEW loc \in Points, b[loc] = "empty", NEW q \in Neighbors[loc]
  PROVE  /\ q \in Points /\ loc \in Liberties(b, q)
         /\ Cardinality(Liberties(b, q)) = 1 <=> Liberties(b, q) = {loc}
<1>1. q \in Points
  BY PointsAssumption
<1>2. loc \in Liberties(b, q)
  BY <1>1, StringFacts, LibertyIs
<1>3. IsFiniteSet(Liberties(b, q))
  <2>1. Liberties(b, q) \in SUBSET Points /\ IsFiniteSet(Points)
    BY PointsAssumption DEF Liberties, LibertiesOf
  <2> QED BY <2>1, FS_Subset
<1>4. Cardinality(Liberties(b, q)) = 1 <=> \E x : Liberties(b, q) = {x}
  BY <1>3, FS_Singleton
<1> QED BY <1>1, <1>2, <1>4

(* Sets of whole strings.                                                  *)
Whole(b, D) == D \subseteq Points /\ \A r \in D : StringAt(b, r) \subseteq D

LEMMA UnionsAreWhole ==
  ASSUME NEW b, NEW Q \in SUBSET Points
  PROVE  Whole(b, UNION {StringAt(b, q) : q \in Q})
<1> DEFINE D == UNION {StringAt(b, q) : q \in Q}
<1>1. ASSUME NEW r \in D PROVE r \in Points /\ StringAt(b, r) \subseteq D
  <2>1. PICK q \in Q : r \in StringAt(b, q)
    OBVIOUS
  <2>2. r \in Points /\ StringAt(b, r) = StringAt(b, q)
    BY <2>1, StringsPartition
  <2> QED BY <2>2
<1> QED BY <1>1 DEF Whole

LEMMA ClearedStrings ==
  ASSUME NEW b, NEW D, Whole(b, D), "empty" \notin {b[r] : r \in D},
         NEW s \in Points, s \notin D, b[s] \in Colors
  PROVE  /\ Cleared(b, D)[s] = b[s]
         /\ StringAt(Cleared(b, D), s) = StringAt(b, s)
         /\ Liberties(b, s) \subseteq Liberties(Cleared(b, D), s)
<1> DEFINE b2 == Cleared(b, D)
<1>1. \A p \in Points : b2[p] = IF p \in D THEN "empty" ELSE b[p]
  BY DEF Cleared
<1>2. b[s] # "empty" /\ b2[s] = b[s]
  BY <1>1 DEF Colors
<1>3. StringAt(b, s) \cap D = {}
  <2> SUFFICES ASSUME NEW r \in StringAt(b, s), r \in D PROVE FALSE
    OBVIOUS
  <2>1. StringAt(b, r) = StringAt(b, s) /\ s \in StringAt(b, s)
    BY StringsPartition, StringFacts
  <2> QED BY <2>1 DEF Whole
<1> HIDE DEF b2
<1>4. StringAt(b, s) \subseteq Stones(b2, b[s])
  BY <1>1, <1>2, <1>3, StringFacts DEF Stones
<1>5. \A q \in Stones(b2, b[s]) : b[q] = b[s]
  BY <1>1, <1>2 DEF Stones
<1>6. StringAt(b2, s) = StringAt(b, s)
  BY <1>2, <1>4, <1>5, StringKept
<1>7. Liberties(b, s) \subseteq Liberties(b2, s)
  BY <1>1, <1>6, LibertyIs
<1> QED BY <1>2, <1>6, <1>7 DEF b2

(* The strings next to a stone that is put, and the others.                *)
LEMMA PutOthers ==
  ASSUME NEW b \in BoardType, NEW loc \in Points, b[loc] = "empty", NEW color \in Colors,
         NEW s \in Points, b[s] = Other(color)
  PROVE  /\ Put(b, loc, color)[s] = b[s]
         /\ StringAt(Put(b, loc, color), s) = StringAt(b, s)
         /\ Liberties(Put(b, loc, color), s) = Liberties(b, s) \ {loc}
<1> DEFINE b1 == Put(b, loc, color)
<1>1. \A p \in Points : b1[p] = IF p = loc THEN color ELSE b[p]
  BY DEF Put, BoardType
<1>2. Other(color) # "empty" /\ Other(color) # color /\ color # "empty"
  BY OthersColor
<1> HIDE DEF b1
<1>3. b1[s] = b[s]
  BY <1>1, <1>2
<1>4. Stones(b1, b[s]) = Stones(b, b[s])
  BY <1>1, <1>2 DEF Stones
<1>5. StringAt(b, s) \subseteq Stones(b1, b[s]) /\ \A q \in Stones(b1, b[s]) : b[q] = b[s]
  BY <1>4, StringFacts DEF Stones
<1>6. StringAt(b1, s) = StringAt(b, s)
  BY <1>3, <1>5, StringKept
<1>7. Liberties(b1, s) = Liberties(b, s) \ {loc}
  BY <1>1, <1>2, <1>6, LibertyIs
<1> QED BY <1>3, <1>6, <1>7 DEF b1

LEMMA PutOwn ==
  ASSUME NEW b \in BoardType, NEW loc \in Points, b[loc] = "empty", NEW color \in Colors,
         NEW s \in Points, b[s] = color
  PROVE  /\ Put(b, loc, color)[s] = b[s]
         /\ StringAt(b, s) \subseteq StringAt(Put(b, loc, color), s)
         /\ \/ s \in StringAt(Put(b, loc, color), loc)
            \/ /\ StringAt(Put(b, loc, color), s) = StringAt(b, s)
               /\ Liberties(b, s) \subseteq Liberties(Put(b, loc, color), s)
<1> DEFINE b1 == Put(b, loc, color)
           Y == StringAt(b1, s)
<1>1. \A p \in Points : b1[p] = IF p = loc THEN color ELSE b[p]
  BY DEF Put, BoardType
<1>2. color # "empty" /\ loc # s
  BY OthersColor
<1> HIDE DEF b1
<1>3. b1[s] = b[s] /\ b1[loc] = color
  BY <1>1, <1>2
<1>4. Stones(b, color) \subseteq Stones(b1, color)
  BY <1>1 DEF Stones
<1>5. s \in Y /\ Closed(Stones(b1, color), Y)
  BY <1>3, StringFacts, StringIsClosed
<1>6. Closed(Stones(b, color), Y)
  BY <1>4, <1>5 DEF Closed
<1>7. StringAt(b, s) \subseteq Y
  BY <1>5, <1>6, StringIsLeast
<1>8. ASSUME s \notin StringAt(b1, loc)
      PROVE  Y = StringAt(b, s) /\ Liberties(b, s) \subseteq Liberties(b1, s)
  <2>1. Neighbors[loc] \cap StringAt(b, s) = {}
    <3> SUFFICES ASSUME Neighbors[loc] \cap StringAt(b, s) # {} PROVE FALSE
      OBVIOUS
    <3>1. Neighbors[loc] \cap Y # {} /\ loc \in Stones(b1, color)
      BY <1>3, <1>7 DEF Stones
    <3>2. loc \in Y
      BY <1>5, <3>1 DEF Closed
    <3>3. StringAt(b1, loc) = Y
      BY <3>2, StringsPartition
    <3> QED BY <1>5, <1>8, <3>3
  <2>2. StringAt(b, s) \subseteq Stones(b1, b[s])
    BY <1>4, StringFacts
  <2>3. \A q \in Stones(b1, b[s]) : Neighbors[q] \cap StringAt(b, s) # {} => b[q] = b[s]
    BY <1>1, <2>1 DEF Stones
  <2>4. Y = StringAt(b, s)
    BY <1>3, <2>2, <2>3, StringKept
  <2>5. \A l \in Liberties(b, s) : l # loc
    BY <2>1, LibertyIs
  <2> QED BY <1>1, <2>4, <2>5, LibertyIs
<1> QED BY <1>3, <1>7, <1>8 DEF b1

(* The new stone's string is made of it and the strings next to it.        *)
LEMMA PutString ==
  ASSUME NEW b \in BoardType, NEW loc \in Points, b[loc] = "empty", NEW color \in Colors,
         NEW r \in StringAt(Put(b, loc, color), loc)
  PROVE  r = loc \/ \E q \in Neighbors[loc] : b[q] = color /\ r \in StringAt(b, q)
<1> DEFINE b1 == Put(b, loc, color)
           X == {loc} \cup UNION {StringAt(b, q) : q \in {q \in Neighbors[loc] : b[q] = color}}
<1>1. \A p \in Points : b1[p] = IF p = loc THEN color ELSE b[p]
  BY DEF Put, BoardType
<1> HIDE DEF b1
<1>2. b1[loc] = color
  BY <1>1
<1>3. Closed(Stones(b1, color), X)
  <2> SUFFICES ASSUME NEW s \in Stones(b1, color), s # loc, NEW u \in Neighbors[s], u \in X
               PROVE  s \in X
    BY DEF Closed
  <2>1. s \in Points /\ b[s] = color
    BY <1>1 DEF Stones
  <2>2. CASE u = loc
    <3>1. s \in Neighbors[loc] /\ s \in StringAt(b, s)
      BY <2>1, <2>2, PointsAssumption, StringFacts
    <3> QED BY <2>1, <3>1
  <2>3. CASE u # loc
    <3>1. PICK q \in Neighbors[loc] : b[q] = color /\ u \in StringAt(b, q)
      BY <2>3
    <3>2. q \in Points
      BY PointsAssumption
    <3>3. Closed(Stones(b, color), StringAt(b, q)) /\ s \in Stones(b, color)
      BY <2>1, <3>1, <3>2, StringIsClosed DEF Stones
    <3>4. s \in StringAt(b, q)
      BY <3>1, <3>3 DEF Closed
    <3> QED BY <3>1, <3>4
  <2> QED BY <2>2, <2>3
<1>4. StringAt(b1, loc) \subseteq X
  BY <1>2, <1>3, StringIsLeast
<1> QED BY <1>4 DEF b1
-----------------------------------------------------------------------------
(* Shapes: every string keeps a liberty, a ko point is surrounded, and the *)
(* suicide test by liberty counts is the rule.                             *)

(* A move that is no suicide finds a liberty or captures.                  *)
LEMMA NotSuicide ==
  ASSUME NEW b \in BoardType, NEW loc \in Points, b[loc] = "empty", NEW color \in Colors,
         ~IsSuicide(b, loc, color)
  PROVE  \/ \E l \in Liberties(Put(b, loc, color), loc) : b[l] = "empty" /\ l # loc
         \/ \E q \in Neighbors[loc] : b[q] = Other(color) /\ Liberties(b, q) = {loc}
<1> DEFINE b1 == Put(b, loc, color)
<1>1. \A p \in Points : b1[p] = IF p = loc THEN color ELSE b[p]
  BY DEF Put, BoardType
<1>2. loc \in StringAt(b1, loc)
  BY StringFacts
<1>3. PICK q \in Neighbors[loc] : b[q] = "empty" \/ ~((b[q] = color) = (Cardinality(Liberties(b, q)) = 1))
  BY DEF IsSuicide
<1>4. q \in Points /\ q # loc /\ loc \in Neighbors[q]
  BY PointsAssumption
<1>5. /\ loc \in Liberties(b, q)
      /\ Cardinality(Liberties(b, q)) = 1 <=> Liberties(b, q) = {loc}
  BY NeighborLiberty
<1> HIDE DEF b1
<1>6. CASE b[q] = "empty"
  <2>1. q \in Liberties(b1, loc)
    BY <1>1, <1>2, <1>4, <1>6, LibertyIs
  <2> QED BY <1>4, <1>6, <2>1 DEF b1
<1>7. CASE b[q] = color /\ Liberties(b, q) # {loc}
  <2>1. PICK l \in Liberties(b, q) : l # loc
    BY <1>5, <1>7
  <2>2. l \in Points /\ b[l] = "empty"
    BY <2>1, LibertyIs
  <2>3. PICK r \in StringAt(b, q) : r \in Neighbors[l]
    BY <2>1, LibertyIs
  <2>4. StringAt(b, q) \subseteq StringAt(b1, q)
    BY <1>4, <1>7, PutOwn DEF b1
  <2>5. StringAt(b1, q) = StringAt(b1, loc)
    <3>1. q \in Stones(b1, b1[loc]) /\ Neighbors[q] \cap StringAt(b1, loc) # {}
      BY <1>1, <1>2, <1>4, <1>7 DEF Stones
    <3>2. q \in StringAt(b1, loc)
      BY <3>1, StringIsClosed DEF Closed
    <3> QED BY <3>2, StringsPartition
  <2>6. b1[l] = "empty"
    BY <1>1, <2>1, <2>2
  <2>7. l \in Liberties(b1, loc)
    BY <2>2, <2>3, <2>4, <2>5, <2>6, LibertyIs
  <2> QED BY <2>1, <2>2, <2>7 DEF b1
<1>8. CASE b[q] # "empty" /\ b[q] # color /\ Liberties(b, q) = {loc}
  <2>1. b[q] = Other(color)
    BY <1>4, <1>8, OthersColor DEF BoardType
  <2> QED BY <1>8, <2>1
<1> QED BY <1>3, <1>5, <1>6, <1>7, <1>8

(* is_suicide.                                                             *)
LEMMA SuicideTest ==
  ASSUME NEW b \in BoardType, NoDeadStrings(b),
         NEW loc \in Points, b[loc] = "empty", NEW color \in Colors
  PROVE  IsSuicide(b, loc, color) <=> SuicideByTheRules(b, loc, color)
<1> DEFINE b1 == Put(b, loc, color)
           dead == {p \in Stones(b, Other(color)) : Liberties(b1, p) = {}}
<1>1. \A p \in Points : b1[p] = IF p = loc THEN color ELSE b[p]
  BY DEF Put, BoardType
<1>2. SuicideByTheRules(b, loc, color) <=> dead = {} /\ Liberties(b1, loc) = {}
  BY DEF SuicideByTheRules, Put, Liberties
<1>3. /\ Other(color) \in Colors /\ Other(color) # color /\ color # "empty"
  BY OthersColor
<1> HIDE DEF b1
<1>4. \A p \in Stones(b, Other(color)) : p \in Points /\ Liberties(b1, p) = Liberties(b, p) \ {loc}
  BY PutOthers DEF Stones, b1
<1>5. ASSUME ~IsSuicide(b, loc, color) PROVE ~(dead = {} /\ Liberties(b1, loc) = {})
  <2>1. CASE \E l \in Liberties(b1, loc) : b[l] = "empty" /\ l # loc
    BY <2>1
  <2>2. CASE \E q \in Neighbors[loc] : b[q] = Other(color) /\ Liberties(b, q) = {loc}
    <3>1. PICK q \in Neighbors[loc] : b[q] = Other(color) /\ Liberties(b, q) = {loc}
      BY <2>2
    <3>2. q \in Stones(b, Other(color))
      BY <3>1, PointsAssumption DEF Stones
    <3>3. q \in dead
      BY <1>4, <3>1, <3>2
    <3> QED BY <3>3
  <2> QED BY <1>5, <2>1, <2>2, NotSuicide DEF b1
<1>6. ASSUME IsSuicide(b, loc, color) PROVE dead = {} /\ Liberties(b1, loc) = {}
  <2>1. ASSUME NEW q \in Neighbors[loc]
        PROVE  /\ b[q] # "empty" /\ q \in Points
               /\ b[q] = color <=> Liberties(b, q) = {loc}
    BY <1>6, NeighborLiberty DEF IsSuicide
  <2>2. dead = {}
    <3> SUFFICES ASSUME NEW p \in dead PROVE FALSE
      OBVIOUS
    <3>1. p \in Points /\ b[p] = Other(color) /\ Liberties(b, p) \ {loc} = {}
      BY <1>4 DEF Stones
    <3>2. Liberties(b, p) = {loc}
      BY <1>3, <3>1 DEF NoDeadStrings
    <3>3. PICK q \in StringAt(b, p) : q \in Neighbors[loc]
      BY <3>2, LibertyIs
    <3>4. b[q] = Other(color) /\ StringAt(b, q) = StringAt(b, p)
      BY <3>1, <3>3, StringsPartition
    <3>5. Liberties(b, q) = {loc}
      BY <3>2, <3>4 DEF Liberties
    <3> QED BY <1>3, <2>1, <3>3, <3>4, <3>5
  <2>3. Liberties(b1, loc) = {}
    <3> SUFFICES ASSUME NEW l \in Liberties(b1, loc) PROVE FALSE
      OBVIOUS
    <3>1. l \in Points /\ b1[l] = "empty"
      BY LibertyIs
    <3>2. PICK r \in StringAt(b1, loc) : r \in Neighbors[l]
      BY LibertyIs
    <3>3. b[l] = "empty" /\ l # loc
      BY <1>1, <1>3, <3>1
    <3>4. CASE r = loc
      <4>1. l \in Neighbors[loc]
        BY <3>1, <3>2, <3>4, PointsAssumption
      <4> QED BY <2>1, <3>3, <4>1
    <3>5. CASE r # loc
      <4>1. PICK q \in Neighbors[loc] : b[q] = color /\ r \in StringAt(b, q)
        BY <3>2, <3>5, PutString DEF b1
      <4>2. l \in Liberties(b, q)
        BY <3>1, <3>2, <3>3, <4>1, LibertyIs
      <4> QED BY <2>1, <3>3, <4>1, <4>2
    <3> QED BY <3>4, <3>5
  <2> QED BY <2>2, <2>3
<1> QED BY <1>2, <1>5, <1>6

(* The stones a move takes off are whole strings.                          *)
LEMMA TakenAreWhole ==
  ASSUME NEW b, NEW loc \in Points, NEW color
  PROVE  Whole(b, CapturedBy(b, loc, color)) /\ Whole(b, Dying(b, loc, color))
<1>1. Neighbors[loc] \subseteq Points
  BY PointsAssumption
<1> DEFINE A == {q \in Neighbors[loc] : b[q] = Other(color) /\ Liberties(b, q) = {loc}}
           B == {q \in Neighbors[loc] : b[q] = color}
<1>2. A \in SUBSET Points /\ B \in SUBSET Points
  BY <1>1
<1>3. CapturedBy(b, loc, color) = UNION {StringAt(b, q) : q \in A} /\ Dying(b, loc, color) = UNION {StringAt(b, q) : q \in B}
  BY DEF CapturedBy, Dying
<1> HIDE DEF A, B
<1> QED BY <1>2, <1>3, UnionsAreWhole

LEMMA SuicideShape ==
  ASSUME NEW b \in BoardType, NoDeadStrings(b), NEW loc \in Points, NEW color \in Colors
  PROVE  NoDeadStrings(Cleared(b, Dying(b, loc, color)))
<1> DEFINE D == Dying(b, loc, color)
           b2 == Cleared(b, D)
<1>1. Whole(b, D) /\ D \subseteq Stones(b, color) /\ color # "empty"
  BY TakenAreWhole, TakenFacts, OthersColor
<1>2. "empty" \notin {b[r] : r \in D}
  BY <1>1 DEF Stones
<1>3. \A p \in Points : b2[p] = IF p \in D THEN "empty" ELSE b[p]
  BY DEF Cleared
<1> HIDE DEF D
<1> SUFFICES ASSUME NEW s \in Points, b2[s] \in Colors PROVE Liberties(b2, s) # {}
  BY DEF NoDeadStrings, D
<1>4. s \notin D /\ b[s] \in Colors
  BY <1>3 DEF Colors
<1>5. Liberties(b, s) \subseteq Liberties(b2, s)
  BY <1>1, <1>2, <1>4, ClearedStrings
<1> QED BY <1>4, <1>5 DEF NoDeadStrings

LEMMA PlayShape ==
  ASSUME NEW b \in BoardType, NoDeadStrings(b), NEW loc \in Points, b[loc] = "empty",
         NEW color \in Colors, ~IsSuicide(b, loc, color)
  PROVE  NoDeadStrings(BoardAfter(b, loc, color))
<1> DEFINE b1 == Put(b, loc, color)
           T == CapturedBy(b, loc, color)
           b2 == Cleared(b1, T)
<1>1. \A p \in Points : b1[p] = IF p = loc THEN color ELSE b[p]
  BY DEF Put, BoardType
<1>2. /\ Other(color) \in Colors /\ Other(color) # color /\ color # "empty" /\ Other(color) # "empty"
      /\ \A d \in Colors : d = color \/ d = Other(color)
  BY OthersColor
<1>3. \A p \in Points : b2[p] = IF p \in T THEN "empty" ELSE b1[p]
  BY DEF Cleared
<1>4. Whole(b, T) /\ T \subseteq Stones(b, Other(color))
  BY TakenAreWhole, TakenFacts
<1>5. BoardAfter(b, loc, color) = b2
  BY DEF BoardAfter
<1> HIDE DEF b1, b2, T
<1>6. Whole(b1, T) /\ "empty" \notin {b1[r] : r \in T} /\ loc \notin T
  <2>1. \A r \in T : r \in Points /\ b[r] = Other(color) /\ r # loc /\ b1[r] = b[r]
    BY <1>1, <1>2, <1>4 DEF Stones
  <2>2. \A r \in T : StringAt(b1, r) = StringAt(b, r)
    BY <2>1, PutOthers DEF b1
  <2> QED BY <1>2, <1>4, <2>1, <2>2 DEF Whole
<1> SUFFICES ASSUME NEW s \in Points, b2[s] \in Colors PROVE Liberties(b2, s) # {}
  BY <1>5 DEF NoDeadStrings
<1>7. s \notin T /\ b1[s] = b2[s] /\ b1[s] \in Colors
  BY <1>3 DEF Colors
<1>8. StringAt(b2, s) = StringAt(b1, s) /\ Liberties(b1, s) \subseteq Liberties(b2, s)
  BY <1>6, <1>7, ClearedStrings DEF b2
<1>9. CASE b1[s] = Other(color)
  <2>1. b[s] = Other(color)
    BY <1>1, <1>2, <1>9
  <2>2. Liberties(b1, s) = Liberties(b, s) \ {loc} /\ Liberties(b, s) # {}
    BY <1>2, <2>1, PutOthers DEF b1, NoDeadStrings
  <2>3. Liberties(b, s) # {loc}
    <3> SUFFICES ASSUME Liberties(b, s) = {loc} PROVE FALSE
      OBVIOUS
    <3>1. PICK q \in StringAt(b, s) : q \in Neighbors[loc]
      BY LibertyIs
    <3>2. b[q] = Other(color) /\ StringAt(b, q) = StringAt(b, s)
      BY <2>1, <3>1, StringsPartition
    <3>3. Liberties(b, q) = {loc} /\ s \in StringAt(b, q)
      BY <3>2, StringFacts DEF Liberties
    <3>4. s \in T
      BY <3>1, <3>2, <3>3 DEF T, CapturedBy
    <3> QED BY <1>7, <3>4
  <2> QED BY <1>8, <2>2, <2>3
<1>10. CASE b1[s] = color /\ s \notin StringAt(b1, loc)
  <2>1. s # loc
    BY <1>10, StringFacts
  <2>2. b[s] = color
    BY <1>1, <1>10, <2>1
  <2>3. Liberties(b, s) \subseteq Liberties(b1, s) /\ Liberties(b, s) # {}
    BY <1>10, <2>2, PutOwn DEF b1, NoDeadStrings
  <2> QED BY <1>8, <2>3
<1>11. CASE s \in StringAt(b1, loc)
  <2>1. StringAt(b1, s) = StringAt(b1, loc) /\ loc \in StringAt(b1, loc)
    BY <1>11, StringsPartition, StringFacts
  <2>2. CASE \E l \in Liberties(b1, loc) : b[l] = "empty" /\ l # loc
    <3>1. Liberties(b1, s) = Liberties(b1, loc)
      BY <2>1 DEF Liberties
    <3> QED BY <1>8, <2>2, <3>1
  <2>3. CASE \E q \in Neighbors[loc] : b[q] = Other(color) /\ Liberties(b, q) = {loc}
    <3>1. PICK q \in Neighbors[loc] : b[q] = Other(color) /\ Liberties(b, q) = {loc}
      BY <2>3
    <3>2. q \in Points /\ loc \in Neighbors[q]
      BY PointsAssumption
    <3>3. q \in T
      BY <3>1, <3>2, StringFacts DEF T, CapturedBy
    <3>4. b2[q] = "empty" /\ loc \in StringAt(b2, s)
      BY <1>3, <1>8, <2>1, <3>2, <3>3
    <3>5. q \in Liberties(b2, s)
      BY <3>2, <3>4, LibertyIs
    <3> QED BY <3>5
  <2> QED BY <2>2, <2>3, NotSuicide DEF b1
<1> QED BY <1>2, <1>7, <1>9, <1>10, <1>11

(* A ko: one stone taken, and the taking stone's one liberty is where it   *)
(* stood, among stones of the taker only.                                  *)
LEMMA KoShape ==
  ASSUME NEW b \in BoardType, NEW loc \in Points, b[loc] = "empty", NEW color \in Colors,
         NEW k, k = KoAfter(b, loc, color), k # NoMove
  PROVE  /\ BoardAfter(b, loc, color)[k] = "empty"
         /\ \A r \in Neighbors[k] : BoardAfter(b, loc, color)[r] = color
<1> DEFINE b1 == Put(b, loc, color)
           T == CapturedBy(b, loc, color)
           b2 == BoardAfter(b, loc, color)
           libs == Liberties(b2, loc)
<1>1. \A p \in Points : b1[p] = IF p = loc THEN color ELSE b[p]
  BY DEF Put, BoardType
<1>2. /\ Other(color) \in Colors /\ Other(color) # color /\ color # "empty" /\ Other(color) # "empty"
  BY OthersColor
<1>3. \A p \in Points : b2[p] = IF p \in T THEN "empty" ELSE b1[p]
  BY DEF Cleared, BoardAfter
<1>4. T \subseteq Stones(b, Other(color)) /\ IsFiniteSet(T)
  <2>1. T \subseteq Stones(b, Other(color))
    BY TakenFacts
  <2>2. IsFiniteSet(Stones(b, Other(color)))
    BY StonesFinite
  <2> HIDE DEF T
  <2> QED BY <2>1, <2>2, FS_Subset
<1>5. /\ Cardinality(libs) = 1 /\ Cardinality(T) = 1 /\ k = CHOOSE l \in libs : TRUE
  BY DEF KoAfter
<1>6. IsFiniteSet(libs)
  <2>1. libs \in SUBSET Points /\ IsFiniteSet(Points)
    BY PointsAssumption DEF Liberties, LibertiesOf
  <2> QED BY <2>1, FS_Subset
<1>7. PICK t : T = {t}
  BY <1>4, <1>5, FS_Singleton
<1>8. PICK l : libs = {l}
  BY <1>5, <1>6, FS_Singleton
<1>9. PICK q \in Neighbors[loc] : b[q] = Other(color) /\ Liberties(b, q) = {loc} /\ t \in StringAt(b, q)
  BY <1>7 DEF CapturedBy
<1>10. StringAt(b, q) \subseteq T /\ q \in StringAt(b, q) /\ q \in Points
  <2>1. q \in Points
    BY PointsAssumption
  <2> QED BY <1>9, <2>1, StringFacts DEF CapturedBy
<1>11. q = t /\ StringAt(b, t) = {t} /\ Liberties(b, t) = {loc} /\ t \in Points /\ b[t] = Other(color)
  BY <1>7, <1>9, <1>10
<1> HIDE DEF b1, b2, T, libs
<1>12. b2[t] = "empty" /\ t # loc
  BY <1>2, <1>3, <1>7, <1>11
<1>13. t \in libs
  <2>1. loc \in StringAt(b2, loc) /\ loc \in Neighbors[t]
    BY <1>9, <1>11, StringFacts, PointsAssumption
  <2> QED BY <1>11, <1>12, <2>1, LibertyIs DEF libs
<1>14. k = t
  BY <1>5, <1>8, <1>13
<1>15. ASSUME NEW r \in Neighbors[t] PROVE b2[r] = color
  <2>1. r \in Points /\ t \in Neighbors[r] /\ r # t
    BY <1>11, PointsAssumption
  <2>2. CASE r = loc
    BY <1>1, <1>2, <1>3, <1>4, <2>1, <2>2 DEF Stones
  <2>3. CASE r # loc
    <3>1. b[r] # "empty"
      <4> SUFFICES ASSUME b[r] = "empty" PROVE FALSE
        OBVIOUS
      <4>1. r \in Liberties(b, t)
        BY <1>11, <2>1, LibertyIs
      <4> QED BY <1>11, <2>3, <4>1
    <3>2. b[r] # Other(color)
      <4> SUFFICES ASSUME b[r] = Other(color) PROVE FALSE
        OBVIOUS
      <4>1. r \in Stones(b, b[t]) /\ Neighbors[r] \cap StringAt(b, t) # {}
        BY <1>11, <2>1 DEF Stones
      <4>2. r \in StringAt(b, t)
        BY <1>11, <4>1, StringIsClosed DEF Closed
      <4> QED BY <1>11, <2>1, <4>2
    <3>3. b[r] = color
      BY <2>1, <3>1, <3>2, OthersColor DEF BoardType
    <3> QED BY <1>1, <1>3, <1>7, <2>1, <2>3, <3>3
  <2> QED BY <2>2, <2>3
<1> QED BY <1>12, <1>14, <1>15 DEF b2

(* Every move leaves shapes that the next one can rest on.                 *)
LEMMA NextShape ==
  ASSUME NEW b \in BoardType, NoDeadStrings(b), NEW loc \in Points \cup {NoMove}, NEW color \in Colors,
         loc # NoMove => b[loc] = "empty",
         NEW P, P.board = NextBoard(b, loc, color), P.ko = NextKo(b, loc, color)
  PROVE  NoDeadStrings(P.board) /\ KoIsSurrounded(P)
<1>1. CASE loc = NoMove
  BY <1>1 DEF NextBoard, NextKo, KoIsSurrounded
<1>2. CASE loc # NoMove /\ IsSuicide(b, loc, color)
  BY <1>2, SuicideShape DEF NextBoard, NextKo, Suicidal, KoIsSurrounded
<1>3. CASE loc # NoMove /\ ~IsSuicide(b, loc, color)
  <2>1. P.board = BoardAfter(b, loc, color) /\ P.ko = KoAfter(b, loc, color) /\ loc \in Points /\ b[loc] = "empty"
    BY <1>3 DEF NextBoard, NextKo, Suicidal
  <2>2. NoDeadStrings(P.board)
    BY <1>3, <2>1, PlayShape
  <2>3. P.ko # NoMove => P.board[P.ko] = "empty" /\ \A r \in Neighbors[P.ko] : P.board[r] = color
    BY <2>1, KoShape
  <2> QED BY <2>2, <2>3 DEF KoIsSurrounded
<1> QED BY <1>1, <1>2, <1>3

-----------------------------------------------------------------------------
(* Rings, which the string records link their stones in: a set that next   *)
(* maps into itself, and that no smaller set can be closed in.             *)
Onward(next, Y) == \A p \in Y : next[p] \in Y
Ring(next, o, S) ==
    /\ o \in S /\ Onward(next, S)
    /\ \A Y \in SUBSET S : Y # {} /\ Onward(next, Y) => Y = S

LEMMA RingSame ==
  ASSUME NEW next, NEW next2, NEW o, NEW S, Ring(next, o, S), \A p \in S : next2[p] = next[p], NEW q \in S
  PROVE  Ring(next2, q, S)
BY DEF Ring, Onward

LEMMA RingOfOne ==
  ASSUME NEW next, NEW p, next[p] = p
  PROVE  Ring(next, p, {p})
BY DEF Ring, Onward

(* Two rings become one when a stone of one and a stone of the other       *)
(* change successors.                                                      *)
LEMMA RingsLinked ==
  ASSUME NEW next, NEW o1, NEW S1, Ring(next, o1, S1), NEW o2, NEW S2, Ring(next, o2, S2), S1 \cap S2 = {},
         NEW a \in S1, NEW b \in S2, NEW next2, next2[a] = next[b], next2[b] = next[a],
         \A p \in S1 \cup S2 : p \notin {a, b} => next2[p] = next[p], NEW o \in S1 \cup S2
  PROVE  Ring(next2, o, S1 \cup S2)
<1>1. Onward(next, S1) /\ Onward(next, S2)
  BY DEF Ring
<1>2. Onward(next2, S1 \cup S2)
  BY <1>1 DEF Onward
<1>3. ASSUME NEW Y \in SUBSET (S1 \cup S2), Y # {}, Onward(next2, Y)
      PROVE  Y = S1 \cup S2
  <2>1. ASSUME NEW T1, NEW T2, NEW c, NEW d, Onward(next, T1), Onward(next, T2),
               \A Z \in SUBSET T1 : Z # {} /\ Onward(next, Z) => Z = T1,
               T1 \cap T2 = {}, c \in T1, d \in T2, next2[c] = next[d], next2[d] = next[c],
               \A p \in T1 \cup T2 : p \notin {c, d} => next2[p] = next[p],
               Y \subseteq T1 \cup T2, Y \cap T1 # {}
        PROVE  c \in Y
    <3> SUFFICES ASSUME c \notin Y PROVE FALSE
      OBVIOUS
    <3> DEFINE Z == Y \cap T1
    <3>1. Onward(next, Z)
      BY <1>3, <2>1 DEF Onward
    <3>2. Z = T1
      BY <2>1, <3>1
    <3> QED BY <2>1, <3>2
  <2>2. \A Z \in SUBSET S1 : Z # {} /\ Onward(next, Z) => Z = S1
    BY DEF Ring
  <2>3. \A Z \in SUBSET S2 : Z # {} /\ Onward(next, Z) => Z = S2
    BY DEF Ring
  <2>4. Y \cap S1 # {} => a \in Y
    BY <1>1, <2>1, <2>2
  <2>5. Y \cap S2 # {} => b \in Y
    <3>1. \A p \in S2 \cup S1 : p \notin {b, a} => next2[p] = next[p]
      OBVIOUS
    <3>2. Y \subseteq S2 \cup S1 /\ S2 \cap S1 = {}
      BY <1>3
    <3> QED BY <1>1, <2>1, <2>3, <3>1, <3>2
  <2>6. a \in Y /\ b \in Y
    BY <1>1, <1>3, <2>4, <2>5 DEF Onward
  <2>7. next[a] \in Y /\ next[b] \in Y
    BY <1>3, <2>6 DEF Onward
  <2> DEFINE Y1 == Y \cap S1
             Y2 == Y \cap S2
  <2>8. Onward(next, Y1) /\ Onward(next, Y2)
    BY <1>1, <1>3, <2>7 DEF Onward
  <2>9. Y1 = S1 /\ Y2 = S2
    BY <2>2, <2>3, <2>6, <2>8
  <2> QED BY <1>3, <2>9
<1> QED BY <1>2, <1>3 DEF Ring

-----------------------------------------------------------------------------
(* Walking around a ring.                                                  *)
Walk(stone, n, next, o) ==
    /\ stone = [k \in 0 .. n |-> stone[k]] /\ stone[0] = o
    /\ \A k \in 1 .. n : stone[k] = next[stone[k - 1]]

LEMMA WalkStays ==
  ASSUME NEW next, NEW o, NEW S, Ring(next, o, S), NEW n \in Nat, NEW stone, Walk(stone, n, next, o)
  PROVE  \A k \in 0 .. n : stone[k] \in S
<1> DEFINE G == {k \in 0 .. n : stone[k] \in S}
<1> SUFFICES ASSUME \E k \in 0 .. n : k \notin G PROVE FALSE
  OBVIOUS
<1>1. PICK m \in 0 .. n : m \notin G /\ \A k \in 0 .. m - 1 : k \in G
  <2> HIDE DEF G
  <2> QED BY Steps!FirstGap
<1>2. m # 0
  BY <1>1 DEF Walk, Ring
<1>3. m - 1 \in 0 .. m - 1 /\ m \in 1 .. n
  BY <1>2
<1>4. stone[m] = next[stone[m - 1]] /\ stone[m - 1] \in S
  BY <1>1, <1>3 DEF Walk
<1> QED BY <1>1, <1>4 DEF Ring, Onward

(* What comes back to where it was has been everywhere.                    *)
LEMMA WalkReturns ==
  ASSUME NEW next, NEW o, NEW S, Ring(next, o, S), NEW n \in Nat, NEW stone, Walk(stone, n, next, o),
         NEW i \in 0 .. n, NEW j \in 0 .. n, i < j, stone[i] = stone[j]
  PROVE  {stone[k] : k \in i .. j - 1} = S
<1> DEFINE Y == {stone[k] : k \in i .. j - 1}
<1>1. Y \subseteq S /\ i \in i .. j - 1
  BY WalkStays
<1>2. ASSUME NEW k \in i .. j - 1 PROVE next[stone[k]] \in Y
  <2>1. k + 1 \in 1 .. n /\ stone[k + 1] = next[stone[k]]
    <3>1. \A l \in 1 .. n : stone[l] = next[stone[l - 1]]
      BY DEF Walk
    <3>2. k + 1 \in 1 .. n /\ (k + 1) - 1 = k
      OBVIOUS
    <3> QED BY <3>1, <3>2
  <2>2. CASE k = j - 1
    BY <1>1, <2>1, <2>2
  <2>3. CASE k # j - 1
    <3>1. k + 1 \in i .. j - 1
      BY <2>3
    <3> QED BY <2>1, <3>1
  <2> QED BY <2>2, <2>3
<1>3. Onward(next, Y)
  BY <1>2 DEF Onward
<1> QED BY <1>1, <1>3 DEF Ring

(* The first return to the start closes the ring.                          *)
LEMMA WalkAround ==
  ASSUME NEW D, IsFiniteSet(D), NEW next, NEW o, NEW S \in SUBSET D, Ring(next, o, S),
         NEW C, C = Cardinality(D), NEW stone, Walk(stone, C, next, o)
  PROVE  \E m \in 1 .. C : /\ stone[m] = o /\ \A k \in 1 .. m - 1 : stone[k] # o
                           /\ {stone[k] : k \in 0 .. m - 1} = S
                           /\ \A i, j \in 0 .. m - 1 : stone[i] = stone[j] => i = j
<1>1. C \in Nat
  BY FS_CardinalityType
<1>2. \A k \in 0 .. C : stone[k] \in S
  BY <1>1, WalkStays
<1>3. \E i, j \in 0 .. C : i # j /\ stone[i] = stone[j]
  <2>1. IsFiniteSet(0 .. C) /\ Cardinality(0 .. C) = C + 1
    BY <1>1, FS_Interval
  <2>2. stone \in [0 .. C -> D]
    <3>1. stone = [k \in 0 .. C |-> stone[k]]
      BY DEF Walk
    <3>2. \A k \in 0 .. C : stone[k] \in D
      BY <1>2
    <3> QED BY <3>1, <3>2
  <2>3. IsFiniteSet(D) /\ Cardinality(D) < Cardinality(0 .. C)
    BY <1>1, <2>1
  <2> QED BY <2>1, <2>2, <2>3, FS_PigeonHole
<1>4. \E n \in 1 .. C : stone[n] = o
  <2>1. PICK i \in 0 .. C, j \in 0 .. C : i < j /\ stone[i] = stone[j]
    <3>1. PICK i \in 0 .. C, j \in 0 .. C : i # j /\ stone[i] = stone[j]
      BY <1>3
    <3>2. i < j \/ j < i
      BY <1>1, <3>1
    <3> QED BY <3>1, <3>2
  <2>2. o \in {stone[k] : k \in i .. j - 1}
    BY <1>1, <2>1, WalkReturns DEF Ring
  <2>3. PICK k \in i .. j - 1 : o = stone[k]
    BY <2>2
  <2>4. CASE k = 0
    <3>1. i = 0 /\ j \in 1 .. C
      BY <1>1, <2>1, <2>4
    <3> QED BY <2>1, <3>1 DEF Walk
  <2>5. CASE k # 0
    <3>1. k \in 1 .. C
      BY <1>1, <2>1, <2>5
    <3> QED BY <2>3, <3>1
  <2> QED BY <2>4, <2>5
<1>5. PICK m \in 1 .. C : stone[m] = o /\ \A k \in 1 .. C : stone[k] = o => m <= k
  <2> DEFINE T == {n \in 1 .. C : stone[n] = o}
  <2>1. T \in SUBSET Nat /\ T # {}
    BY <1>1, <1>4
  <2>2. PICK m \in T : \A k \in T : m <= k
    <3> HIDE DEF T
    <3> QED BY <2>1, Steps!Least
  <2> QED BY <2>2
<1>6. \A k \in 1 .. m - 1 : stone[k] # o
  BY <1>1, <1>5
<1>7. stone[0] = o /\ 0 \in 0 .. C /\ m \in 0 .. C /\ 0 < m
  BY <1>1 DEF Walk
<1>8. {stone[k] : k \in 0 .. m - 1} = S
  BY <1>1, <1>5, <1>7, WalkReturns
<1>9. ASSUME NEW i \in 0 .. m - 1, NEW j \in 0 .. m - 1, stone[i] = stone[j], i < j
      PROVE  FALSE
  <2>1. i \in 0 .. C /\ j \in 0 .. C
    BY <1>1
  <2>2. o \in {stone[k] : k \in i .. j - 1}
    BY <1>1, <1>9, <2>1, WalkReturns DEF Ring
  <2>3. PICK k \in i .. j - 1 : o = stone[k]
    BY <2>2
  <2>4. k = 0
    BY <1>1, <1>6, <2>3
  <2>5. i = 0 /\ j \in 1 .. m - 1
    BY <1>1, <1>9, <2>4
  <2> QED BY <1>6, <1>7, <1>9, <2>5
<1>10. \A i, j \in 0 .. m - 1 : stone[i] = stone[j] => i = j
  <2> SUFFICES ASSUME NEW i \in 0 .. m - 1, NEW j \in 0 .. m - 1, stone[i] = stone[j], i # j PROVE FALSE
    OBVIOUS
  <2>1. i < j \/ j < i
    BY <1>1
  <2> QED BY <1>9, <2>1
<1> QED BY <1>5, <1>6, <1>8, <1>10

(* What a walk of at most C steps passes until it is back at o.            *)
Path(next, o, C) ==
    LET at[n \in 0 .. C] == IF n = 0 THEN o ELSE next[at[n - 1]]
        Ahead(n) == \A k \in 1 .. n - 1 : at[k] # o
    IN [n \in {n \in 1 .. C : Ahead(n)} |-> at[n - 1]]

(* It passes the members of the ring, each once; the last is linked to the *)
(* first.                                                                  *)
Round(c, next, o, S, m) ==
    /\ DOMAIN c = 1 .. m /\ {c[i] : i \in 1 .. m} = S /\ c = [k \in 1 .. m |-> c[k]]
    /\ \A i, j \in 1 .. m : c[i] = c[j] => i = j
    /\ c[1] = o /\ next[c[m]] = o

LEMMA PathIs ==
  ASSUME NEW D, IsFiniteSet(D), NEW next, NEW o, NEW S \in SUBSET D, Ring(next, o, S),
         NEW C, C = Cardinality(D)
  PROVE  \E m \in 1 .. C : m \in Nat /\ Round(Path(next, o, C), next, o, S, m)
<1> DEFINE goes(f) == [n \in 0 .. C |-> IF n = 0 THEN o ELSE next[f[n - 1]]]
           walk == CHOOSE f : f = goes(f)
           Ahead(n) == \A k \in 1 .. n - 1 : walk[k] # o
           c == Path(next, o, C)
<1>1. C \in Nat
  BY FS_CardinalityType
<1>2. c = [n \in {n \in 1 .. C : Ahead(n)} |-> walk[n - 1]]
  BY DEF Path
<1>3. o \in S /\ \A p \in S : next[p] \in S
  BY DEF Ring, Onward
<1> HIDE DEF c
<1>4. \E f : f = goes(f)
  <2> DEFINE step == [k \in 1 .. C |-> [p \in S |-> next[p]]]
  <2>1. step \in [1 .. C -> [S -> S]] /\ o \in S
    BY <1>3
  <2>2. \A k \in 1 .. C, p \in S : step[k][p] = next[p]
    OBVIOUS
  <2> HIDE DEF step
  <2>3. PICK f : Steps!Started(f, C, S, o) /\ Steps!Stepped(f, C, step)
    BY <1>1, <2>1, Steps!Stepwise
  <2>4. \A k \in 0 .. C : f[k] = IF k = 0 THEN o ELSE next[f[k - 1]]
    <3> TAKE k \in 0 .. C
    <3>1. CASE k = 0
      BY <2>3, <3>1 DEF Steps!Started
    <3>2. CASE k # 0
      <4>1. k \in 1 .. C /\ k - 1 \in 0 .. C
        BY <1>1, <3>2
      <4>2. f[k - 1] \in S /\ f[k] = step[k][f[k - 1]]
        BY <2>3, <4>1 DEF Steps!Started, Steps!Stepped
      <4> QED BY <2>2, <3>2, <4>1, <4>2
    <3> QED BY <3>1, <3>2
  <2>5. f = [k \in 0 .. C |-> f[k]]
    BY <2>3 DEF Steps!Started
  <2> QED BY <2>4, <2>5
<1>5. walk = goes(walk)
  <2> HIDE DEF goes
  <2> QED BY <1>4, Zenon
<1> HIDE DEF walk
<1>6. \A k \in 0 .. C : walk[k] = IF k = 0 THEN o ELSE next[walk[k - 1]]
  BY <1>5
<1>7. Walk(walk, C, next, o)
  <2>1. walk = [k \in 0 .. C |-> walk[k]]
    BY <1>5
  <2>2. walk[0] = o
    BY <1>1, <1>6
  <2>3. \A k \in 1 .. C : walk[k] = next[walk[k - 1]]
    BY <1>1, <1>6
  <2> QED BY <2>1, <2>2, <2>3 DEF Walk
<1> HIDE DEF goes
<1>8. PICK m \in 1 .. C : /\ walk[m] = o /\ \A k \in 1 .. m - 1 : walk[k] # o
                         /\ {walk[k] : k \in 0 .. m - 1} = S
                         /\ \A i, j \in 0 .. m - 1 : walk[i] = walk[j] => i = j
  <2>1. Ring(next, o, S)
    OBVIOUS
  <2> QED BY <1>7, <2>1, WalkAround
<1>9. {n \in 1 .. C : Ahead(n)} = 1 .. m
  <2>1. ASSUME NEW n \in 1 .. C, Ahead(n) PROVE n \in 1 .. m
    <3> SUFFICES ASSUME n > m PROVE FALSE
      BY <1>1
    <3>1. m \in 1 .. n - 1
      BY <1>1
    <3> QED BY <1>8, <2>1, <3>1
  <2>2. ASSUME NEW n \in 1 .. m PROVE n \in 1 .. C /\ Ahead(n)
    <3>1. n \in 1 .. C /\ \A k \in 1 .. n - 1 : k \in 1 .. m - 1
      BY <1>1
    <3> QED BY <1>8, <3>1
  <2> QED BY <2>1, <2>2
<1>10. c = [n \in 1 .. m |-> walk[n - 1]]
  BY <1>2, <1>9
<1>11. {c[i] : i \in 1 .. m} = S
  <2>1. {c[i] : i \in 1 .. m} = {walk[n - 1] : n \in 1 .. m}
    BY <1>10
  <2>2. \A n \in 1 .. m : n - 1 \in 0 .. m - 1
    BY <1>1
  <2>3. \A n \in 0 .. m - 1 : n + 1 \in 1 .. m /\ (n + 1) - 1 = n
    BY <1>1
  <2>4. {walk[n - 1] : n \in 1 .. m} = {walk[k] : k \in 0 .. m - 1}
    BY <2>2, <2>3
  <2> HIDE DEF c
  <2> QED BY <1>8, <2>1, <2>4
<1>12. ASSUME NEW i \in 1 .. m, NEW j \in 1 .. m, c[i] = c[j] PROVE i = j
  <2>1. i - 1 \in 0 .. m - 1 /\ j - 1 \in 0 .. m - 1
    BY <1>1
  <2>2. i - 1 = j - 1
    BY <1>8, <1>10, <1>12, <2>1
  <2> QED BY <1>1, <2>2
<1>13. next[c[m]] = o
  <2>1. m \in 1 .. m /\ c[m] = walk[m - 1] /\ walk[m] = next[walk[m - 1]]
    BY <1>1, <1>6, <1>10
  <2> QED BY <1>8, <2>1
<1>14. DOMAIN c = 1 .. m /\ c = [k \in 1 .. m |-> c[k]]
  BY <1>10
<1>15. m \in Nat /\ 1 \in 1 .. m /\ c[1] = o
  <2>1. m \in Nat /\ 1 \in 1 .. m /\ 0 \in 0 .. C /\ 1 - 1 = 0
    BY <1>1
  <2> QED BY <1>6, <1>10, <2>1
<1> QED BY <1>11, <1>12, <1>13, <1>14, <1>15 DEF c, Round
=============================================================================
