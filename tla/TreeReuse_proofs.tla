-------------------------- MODULE TreeReuse_proofs --------------------------
(***************************************************************************)
(* Proofs about TreeReuse, for any boards, budgets and game lengths.  A    *)
(* tree goes through three hands: a search grows it, a store cuts it, and  *)
(* a later search grafts a part of what was stored.  The invariant says    *)
(* of the tree of a search and of the cached one the same thing, each seen *)
(* from the game position it was searched in, the cached one as long as it *)
(* lies there and whatever the game does meanwhile.                        *)
(***************************************************************************)
EXTENDS TreeReuse, FiniteSetTheorems, SequenceTheorems, TLAPS

Moves == Points \cup {Pass}

(* The moves of node p that have a child.                                  *)
TriedIn(t, p) == {m \in Moves : Append(p, m) \in DOMAIN t}

(* A finite tree over the moves, with a root.                              *)
Shaped(t) ==
    /\ IsFiniteSet(DOMAIN t) /\ DOMAIN t \subseteq Seq(Moves) /\ <<>> \in DOMAIN t
    /\ IsTree(t)

(* The nodes of a tree, searched by color c in a position of the stones S: *)
(* nothing is both untested and tried, below the root no playable move is  *)
(* neither, and every simulation counted was one of the node's position.   *)
SoundAt(t, c, S, p) ==
    /\ t[p].untested \cap TriedIn(t, p) = {}
    /\ p # <<>> => EmptyIn(S \cup StonesAlong(c, p)) \subseteq t[p].untested \cup TriedIn(t, p)
    /\ \A u \in t[p].under :
          u = [board |-> board, stones |-> S \cup StonesAlong(c, p), mover |-> Mover(c, Len(p))]

Sound(t, c, S) == \A p \in DOMAIN t : SoundAt(t, c, S, p)

RootIsComplete ==
    EmptyIn(StonesAt(<<>>)) \cap allowed \subseteq tree[<<>>].untested \cup TriedIn(tree, <<>>)

(* What holds on any boards: shapes, types and counts.                     *)
ShapeInv ==
    /\ TypeOK
    /\ mode # "idle" => Shaped(tree)
    /\ mode = "idle" => allowed = {}
    /\ mode = "genmove" => Len(hist) < MaxHist
    /\ cache.have \in BOOLEAN
    /\ cache.have => Shaped(cache.tree) /\ cache.stones \subseteq Colors \X Points
    /\ mode # "idle" => arcs + (SimCap - sims) <= pool

(* What holds as long as the board keeps its size.                         *)
SoundInv ==
    /\ mode # "idle" => Sound(tree, color, StonesOf(hist)) /\ RootIsComplete
    /\ cache.have => Sound(cache.tree, cache.color, cache.stones)

(* No boardsize command changes the size.                                  *)
KeepsTheBoard == [][board' = board]_vars

-----------------------------------------------------------------------------
(* Sequences of moves.                                                     *)

LEMMA FrontOfAppend ==
  ASSUME NEW p \in Seq(Moves), NEW m \in Moves
  PROVE  /\ Append(p, m) \in Seq(Moves) /\ Append(p, m) # <<>>
         /\ Len(Append(p, m)) = Len(p) + 1
         /\ Front(Append(p, m)) = p
<1>1. /\ Append(p, m) \in Seq(Moves) /\ Append(p, m) # <<>>
      /\ Len(Append(p, m)) = Len(p) + 1 /\ Len(p) \in Nat
      /\ \A i \in 1 .. Len(p) : Append(p, m)[i] = p[i] /\ p[i] \in Moves
  BY AppendProperties, LenProperties
<1> DEFINE a == Append(p, m)
<1> HIDE DEF a
<1>2. SubSeq(a, 1, Len(p)) \in Seq(Moves) /\ Len(SubSeq(a, 1, Len(p))) = Len(p)
      /\ \A i \in 1 .. Len(p) : SubSeq(a, 1, Len(p))[i] = p[i]
  <2>1. \A i \in 1 .. Len(p) : a[i] \in Moves
    BY <1>1 DEF a
  <2>2. \A i \in 1 .. Len(p) : 1 + i - 1 = i
    BY <1>1
  <2> QED BY <1>1, <2>1, <2>2, SubSeqProperties DEF a
<1>3. SubSeq(a, 1, Len(p)) = p
  BY <1>2, SeqEqual
<1> QED BY <1>1, <1>3 DEF Front, a

(* A path that is not empty is its front and one more move.                *)
LEMMA FrontAndLast ==
  ASSUME NEW q \in Seq(Moves), q # <<>>
  PROVE  /\ Front(q) \in Seq(Moves) /\ Len(Front(q)) = Len(q) - 1
         /\ q[Len(q)] \in Moves /\ Append(Front(q), q[Len(q)]) = q
<1>1. PICK f \in Seq(Moves), m \in Moves : q = Append(f, m)
  BY SequenceEmptyOrAppend
<1>2. Front(q) = f /\ Len(q) = Len(f) + 1 /\ q[Len(f) + 1] = m /\ Len(f) \in Nat
  BY <1>1, FrontOfAppend, AppendProperties, LenProperties
<1> QED BY <1>1, <1>2

(* What a prefix leaves of a path.                                         *)
LEMMA RestOfPath ==
  ASSUME NEW p \in Seq(Moves), NEW r \in Seq(Moves), IsPrefix(p, r)
  PROVE  /\ SubSeq(r, Len(p) + 1, Len(r)) \in Seq(Moves)
         /\ p \o SubSeq(r, Len(p) + 1, Len(r)) = r
<1>1. /\ Len(p) \in Nat /\ Len(r) \in Nat /\ Len(p) <= Len(r)
      /\ \A i \in 1 .. Len(r) : r[i] \in Moves
      /\ SubSeq(p, 1, Len(p)) = SubSeq(r, 1, Len(p))
  BY LenProperties DEF IsPrefix
<1>2. SubSeq(p, 1, Len(p)) = p /\ SubSeq(r, 1, Len(r)) = r
  BY SubSeqFull
<1>3. SubSeq(r, Len(p) + 1, Len(r)) \in Seq(Moves)
  BY <1>1, SubSeqProperties
<1>4. SubSeq(r, 1, Len(p)) \o SubSeq(r, Len(p) + 1, Len(r)) = SubSeq(r, 1, Len(r))
  <2>1. 1 \in 1 .. Len(r) + 1 /\ Len(p) \in 1 - 1 .. Len(r) /\ Len(r) \in Len(p) .. Len(r)
    BY <1>1
  <2> QED BY <2>1, ConcatAdjacentSubSeq
<1> QED BY <1>1, <1>2, <1>3, <1>4

LEMMA PathBelow ==
  ASSUME NEW p \in Seq(Moves), NEW q \in Seq(Moves)
  PROVE  /\ p \o q \in Seq(Moves) /\ Len(p \o q) = Len(p) + Len(q)
         /\ IsPrefix(p, p \o q)
         /\ SubSeq(p \o q, Len(p) + 1, Len(p \o q)) = q
         /\ (p \o q = <<>> <=> p = <<>> /\ q = <<>>)
<1> DEFINE r == p \o q
           a == Len(p)
           b == Len(q)
<1>1. /\ r \in Seq(Moves) /\ Len(r) = a + b /\ a \in Nat /\ b \in Nat
      /\ \A i \in 1 .. a + b : r[i] = IF i <= a THEN p[i] ELSE q[i - a]
      /\ \A i \in 1 .. a + b : r[i] \in Moves
  BY ConcatProperties, LenProperties
<1>2. r = <<>> <=> p = <<>> /\ q = <<>>
  BY ConcatEqualIffEmpty
<1> HIDE DEF r
<1>3. SubSeq(r, 1, a) = SubSeq(p, 1, a)
  <2>1. SubSeq(r, 1, a) \in Seq(Moves) /\ Len(SubSeq(r, 1, a)) = a
        /\ \A i \in 1 .. a : SubSeq(r, 1, a)[i] = p[i]
    <3>1. \A i \in 1 .. a : i \in 1 .. a + b /\ 1 + i - 1 = i /\ i <= a
      BY <1>1
    <3>2. \A i \in 1 .. a : r[i] \in Moves /\ r[i] = p[i]
      BY <1>1, <3>1
    <3> HIDE DEF a, b
    <3> QED BY <1>1, <3>1, <3>2, SubSeqProperties
  <2>2. SubSeq(r, 1, a) = p
    BY <2>1, SeqEqual
  <2> QED BY <2>2, SubSeqFull
<1>4. SubSeq(r, a + 1, Len(r)) = q
  <2>1. SubSeq(r, a + 1, a + b) \in Seq(Moves) /\ Len(SubSeq(r, a + 1, a + b)) = b
        /\ \A i \in 1 .. b : SubSeq(r, a + 1, a + b)[i] = q[i]
    <3>1. \A i \in a + 1 .. a + b : r[i] \in Moves
      BY <1>1
    <3>2. \A i \in 1 .. b : (a + 1) + i - 1 \in 1 .. a + b /\ ~((a + 1) + i - 1 <= a)
                            /\ (a + 1) + i - 1 - a = i
      BY <1>1
    <3>3. (a + b) - (a + 1) + 1 = b
      BY <1>1
    <3> HIDE DEF a, b
    <3>5. SubSeq(r, a + 1, a + b) \in Seq(Moves)
          /\ Len(SubSeq(r, a + 1, a + b)) = (IF a + 1 <= a + b THEN a + b - (a + 1) + 1 ELSE 0)
          /\ \A i \in 1 .. a + b - (a + 1) + 1 : SubSeq(r, a + 1, a + b)[i] = r[(a + 1) + i - 1]
      BY <1>1, <3>1, SubSeqProperties
    <3>6. Len(SubSeq(r, a + 1, a + b)) = b
      BY <1>1, <3>5
    <3>7. \A i \in 1 .. b : SubSeq(r, a + 1, a + b)[i] = r[(a + 1) + i - 1]
      BY <3>3, <3>5
    <3>8. \A i \in 1 .. b : r[(a + 1) + i - 1] = q[i]
      BY <1>1, <3>2
    <3> QED BY <3>5, <3>6, <3>7, <3>8
  <2> QED BY <1>1, <2>1, SeqEqual
<1> QED BY <1>1, <1>2, <1>3, <1>4 DEF IsPrefix, r

LEMMA AppendBelow ==
  ASSUME NEW p \in Seq(Moves), NEW q \in Seq(Moves), NEW m \in Moves
  PROVE  p \o Append(q, m) = Append(p \o q, m)
<1>1. /\ Append(q, m) = q \o <<m>> /\ Append(p \o q, m) = (p \o q) \o <<m>>
      /\ <<m>> \in Seq(Moves)
  BY AppendIsConcat, PathBelow
<1> QED BY <1>1, ConcatAssociative

-----------------------------------------------------------------------------
(* Players and stones along a path.                                        *)

LEMMA MoverSum ==
  ASSUME NEW c \in Colors, NEW j \in Nat, NEW k \in Nat
  PROVE  Mover(c, j) \in Colors /\ Mover(Mover(c, j), k) = Mover(c, j + k)
<1>1. (j + k) % 2 = 0 <=> (j % 2 = 0 <=> k % 2 = 0)
  OBVIOUS
<1>2. Other(c) \in Colors /\ Other(Other(c)) = c
  BY DEF Colors, Other
<1>3. CASE j % 2 = 0
  BY <1>1, <1>2, <1>3 DEF Mover
<1>4. CASE j % 2 # 0
  BY <1>1, <1>2, <1>4 DEF Mover
<1> QED BY <1>3, <1>4

(* The stones along a path are those to a node and those from it on.       *)
LEMMA StonesBelow ==
  ASSUME NEW c \in Colors, NEW p \in Seq(Moves), NEW q \in Seq(Moves)
  PROVE  StonesAlong(c, p \o q) = StonesAlong(c, p) \cup StonesAlong(Mover(c, Len(p)), q)
<1> DEFINE r == p \o q
           a == Len(p)
           b == Len(q)
           d == Mover(c, a)
<1>1. /\ DOMAIN p = 1 .. a /\ DOMAIN q = 1 .. b /\ DOMAIN r = 1 .. a + b
      /\ a \in Nat /\ b \in Nat
  BY PathBelow, LenProperties
<1>2. (\A i \in 1 .. a : r[i] = p[i]) /\ (\A i \in 1 .. b : r[a + i] = q[i])
  <2>1. \A i \in 1 .. a + b : r[i] = IF i <= a THEN p[i] ELSE q[i - a]
    BY ConcatProperties
  <2>2. \A i \in 1 .. b : a + i \in 1 .. a + b /\ ~(a + i <= a) /\ a + i - a = i
    BY <1>1
  <2>3. \A i \in 1 .. a : i \in 1 .. a + b /\ i <= a
    BY <1>1
  <2> QED BY <2>1, <2>2, <2>3
<1>3. \A i \in 1 .. b : Mover(d, i - 1) = Mover(c, (a + i) - 1)
  <2> TAKE i \in 1 .. b
  <2>1. i - 1 \in Nat /\ a + (i - 1) = (a + i) - 1
    BY <1>1
  <2> QED BY <1>1, <2>1, MoverSum
<1> HIDE DEF r, a, b, d
<1>4. \A s : s \in StonesAlong(c, r) <=>
               \E k \in 1 .. a + b : r[k] # Pass /\ s = <<Mover(c, k - 1), r[k]>>
  BY <1>1 DEF StonesAlong
<1>5. \A s : s \in StonesAlong(c, p) <=>
               \E k \in 1 .. a : p[k] # Pass /\ s = <<Mover(c, k - 1), p[k]>>
  BY <1>1 DEF StonesAlong
<1>6. \A s : s \in StonesAlong(d, q) <=>
               \E k \in 1 .. b : q[k] # Pass /\ s = <<Mover(d, k - 1), q[k]>>
  BY <1>1 DEF StonesAlong
<1>7. ASSUME NEW s \in StonesAlong(c, r)
      PROVE  s \in StonesAlong(c, p) \cup StonesAlong(d, q)
  <2>1. PICK k \in 1 .. a + b : r[k] # Pass /\ s = <<Mover(c, k - 1), r[k]>>
    BY <1>4, <1>7
  <2>2. CASE k <= a
    <3>1. k \in 1 .. a
      BY <1>1, <2>2
    <3> QED BY <1>2, <1>5, <2>1, <3>1
  <2>3. CASE ~(k <= a)
    <3>1. k - a \in 1 .. b /\ a + (k - a) = k
      BY <1>1, <2>3
    <3>2. r[k] = q[k - a] /\ Mover(c, k - 1) = Mover(d, (k - a) - 1)
      BY <1>2, <1>3, <3>1
    <3> QED BY <1>6, <2>1, <3>1, <3>2
  <2> QED BY <2>2, <2>3
<1>8. StonesAlong(c, p) \subseteq StonesAlong(c, r)
  <2>1. \A k \in 1 .. a : k \in 1 .. a + b
    BY <1>1
  <2> QED BY <1>2, <1>4, <1>5, <2>1
<1>9. StonesAlong(d, q) \subseteq StonesAlong(c, r)
  <2>1. \A k \in 1 .. b : a + k \in 1 .. a + b
    BY <1>1
  <2> QED BY <1>2, <1>3, <1>4, <1>6, <2>1
<1> QED BY <1>7, <1>8, <1>9 DEF r, d, a

LEMMA NoStones ==
  ASSUME NEW c
  PROVE  StonesAlong(c, <<>>) = {}
BY DEF StonesAlong

-----------------------------------------------------------------------------
(* Cutting, copying and grafting.                                          *)

(* A cut is a part of a tree with its root, and no larger than asked for.  *)
LEMMA CutFacts ==
  ASSUME NEW t, Shaped(t), NEW n \in Nat \ {0}, NEW K \in Cuts(t, n)
  PROVE  /\ K \subseteq DOMAIN t /\ <<>> \in K /\ IsFiniteSet(K)
         /\ \A q \in K : q = <<>> \/ Front(q) \in K
         /\ Cardinality(K) \in 1 .. n /\ Cardinality(K) <= Cardinality(DOMAIN t)
         /\ Cardinality(DOMAIN t) \in Nat
<1>1. K \subseteq DOMAIN t /\ <<>> \in K /\ \A q \in K : q = <<>> \/ Front(q) \in K
  BY DEF Cuts, kSubset, Shaped, IsTree
<1>2. IsFiniteSet(DOMAIN t) /\ Cardinality(DOMAIN t) \in Nat
  BY FS_CardinalityType DEF Shaped
<1>3. IsFiniteSet(K) /\ Cardinality(K) \in Nat /\ Cardinality(K) <= Cardinality(DOMAIN t)
  BY <1>1, <1>2, FS_Subset, FS_CardinalityType
<1>4. Cardinality(K) # 0
  BY <1>1, <1>3, FS_EmptySet
<1>5. Cardinality(K) <= n
  <2>1. CASE Cardinality(DOMAIN t) <= n
    BY <1>2, <1>3, <2>1
  <2>2. CASE ~(Cardinality(DOMAIN t) <= n)
    BY <2>2 DEF Cuts, kSubset
  <2> QED BY <2>1, <2>2
<1> QED BY <1>1, <1>2, <1>3, <1>4, <1>5

(* Below p, the subtree is the tree.                                       *)
LEMMA SubtreeFacts ==
  ASSUME NEW t, DOMAIN t \subseteq Seq(Moves), NEW p \in Seq(Moves)
  PROVE  /\ DOMAIN Subtree(t, p) = {q \in Seq(Moves) : p \o q \in DOMAIN t}
         /\ \A q \in DOMAIN Subtree(t, p) : Subtree(t, p)[q] = t[p \o q]
<1> DEFINE R == {r \in DOMAIN t : IsPrefix(p, r)}
           D == {SubSeq(r, Len(p) + 1, Len(r)) : r \in R}
<1>1. DOMAIN Subtree(t, p) = D /\ \A q \in D : Subtree(t, p)[q] = t[p \o q]
  BY DEF Subtree
<1>2. ASSUME NEW q \in D PROVE q \in Seq(Moves) /\ p \o q \in DOMAIN t
  <2>1. PICK r \in R : q = SubSeq(r, Len(p) + 1, Len(r))
    OBVIOUS
  <2> QED BY <2>1, RestOfPath
<1>3. ASSUME NEW q \in Seq(Moves), p \o q \in DOMAIN t PROVE q \in D
  <2>1. p \o q \in R /\ q = SubSeq(p \o q, Len(p) + 1, Len(p \o q))
    BY <1>3, PathBelow
  <2> QED BY <2>1
<1> QED BY <1>1, <1>2, <1>3

LEMMA SubtreeShaped ==
  ASSUME NEW t, Shaped(t), NEW p \in DOMAIN t
  PROVE  Shaped(Subtree(t, p)) /\ Cardinality(DOMAIN Subtree(t, p)) <= Cardinality(DOMAIN t)
<1> DEFINE s == Subtree(t, p)
           R == {r \in DOMAIN t : IsPrefix(p, r)}
           f == [r \in R |-> SubSeq(r, Len(p) + 1, Len(r))]
<1>1. p \in Seq(Moves) /\ DOMAIN t \subseteq Seq(Moves)
  BY DEF Shaped
<1>2. /\ DOMAIN s = {q \in Seq(Moves) : p \o q \in DOMAIN t}
      /\ \A q \in DOMAIN s : s[q] = t[p \o q]
  BY <1>1, SubtreeFacts
<1>3. IsFiniteSet(DOMAIN s) /\ Cardinality(DOMAIN s) <= Cardinality(DOMAIN t)
  <2>1. IsFiniteSet(R) /\ Cardinality(R) <= Cardinality(DOMAIN t)
    BY FS_Subset DEF Shaped
  <2>2. f \in Surjection(R, DOMAIN s)
    BY DEF Surjection, Subtree
  <2>3. IsFiniteSet(DOMAIN s) /\ Cardinality(DOMAIN s) <= Cardinality(R)
    <3> HIDE DEF R, f, s
    <3> QED BY <2>1, <2>2, FS_Surjection
  <2>4. Cardinality(R) \in Nat /\ Cardinality(DOMAIN s) \in Nat /\ Cardinality(DOMAIN t) \in Nat
    BY <2>1, <2>3, FS_CardinalityType DEF Shaped
  <2> HIDE DEF R, s
  <2> QED BY <2>1, <2>3, <2>4
<1>4. <<>> \in DOMAIN s
  <2>1. <<>> \in Seq(Moves) /\ p \o <<>> = p
    BY <1>1, EmptySeq, ConcatEmptySeq
  <2> QED BY <1>2, <2>1
<1>5. ASSUME NEW q \in DOMAIN s
      PROVE  (q = <<>> \/ Front(q) \in DOMAIN s) /\ Len(q) <= MaxDepth /\ s[q] \in Nodes
  <2>1. /\ q \in Seq(Moves) /\ p \o q \in DOMAIN t /\ s[q] = t[p \o q]
        /\ Len(p \o q) = Len(p) + Len(q) /\ Len(p) \in Nat /\ Len(q) \in Nat
    BY <1>1, <1>2, PathBelow, LenProperties
  <2>2. Len(q) <= MaxDepth /\ s[q] \in Nodes
    <3>1. MaxDepth \in Nat
      BY ReuseAssumption
    <3>2. Len(p \o q) <= MaxDepth /\ t[p \o q] \in Nodes
      BY <2>1 DEF Shaped, IsTree
    <3> QED BY <2>1, <3>1, <3>2
  <2>3. ASSUME q # <<>> PROVE Front(q) \in DOMAIN s
    <3> DEFINE f1 == Front(q)
               m == q[Len(q)]
    <3>1. f1 \in Seq(Moves) /\ m \in Moves /\ Append(f1, m) = q
      BY <2>1, <2>3, FrontAndLast
    <3> HIDE DEF f1, m
    <3>2. p \o q = Append(p \o f1, m) /\ p \o f1 \in Seq(Moves)
      <4>1. p \o Append(f1, m) = Append(p \o f1, m)
        BY <1>1, <3>1, AppendBelow
      <4> QED BY <1>1, <3>1, <4>1, PathBelow
    <3>3. Front(p \o q) = p \o f1 /\ p \o q # <<>>
      BY <3>1, <3>2, FrontOfAppend
    <3> QED BY <1>2, <2>1, <3>1, <3>3 DEF Shaped, IsTree, f1
  <2> QED BY <2>2, <2>3
<1> HIDE DEF s
<1> QED BY <1>2, <1>3, <1>4, <1>5 DEF Shaped, IsTree, s

(* K is a part of t with its root.                                         *)
Part(t, K) ==
    /\ K \subseteq DOMAIN t /\ <<>> \in K /\ IsFiniteSet(K)
    /\ \A q \in K : q = <<>> \/ Front(q) \in K

(* The moves of q whose children are dropped.                              *)
Dropped(t, K, q) == {m \in board : Append(q, m) \in DOMAIN t \ K}

LEMMA CopyShaped ==
  ASSUME TypeOK, NEW t, Shaped(t), NEW K, Part(t, K)
  PROVE  Shaped(CopyOf(t, K))
<1>1. board \subseteq Points
  BY DEF TypeOK, Points
<1>2. \A q \in K : CopyOf(t, K)[q] \in Nodes
  <2> TAKE q \in K
  <2>1. t[q] \in Nodes
    BY DEF Shaped, IsTree, Part
  <2>2. CopyOf(t, K)[q].untested \subseteq Points
    <3>1. CopyOf(t, K)[q].untested = t[q].untested \cup Dropped(t, K, q)
      BY <2>1 DEF CopyOf, Nodes, Dropped
    <3>2. t[q].untested \subseteq Points
      BY <2>1 DEF Nodes
    <3> QED BY <1>1, <3>1, <3>2 DEF Dropped
  <2>3. CopyOf(t, K)[q] = [untested |-> CopyOf(t, K)[q].untested, under |-> t[q].under]
    BY <2>1 DEF CopyOf, Nodes, Dropped
  <2> QED BY <2>1, <2>2, <2>3 DEF Nodes
<1>3. DOMAIN CopyOf(t, K) = K
  BY DEF CopyOf
<1> QED BY <1>2, <1>3 DEF Shaped, IsTree, Part

(* The bit of a dropped child is set again: a copy loses no move.          *)
LEMMA CopySound ==
  ASSUME TypeOK, NEW t, Shaped(t), NEW K, Part(t, K), NEW c, NEW S, Sound(t, c, S)
  PROVE  Sound(CopyOf(t, K), c, S)
<1> DEFINE k == CopyOf(t, K)
<1> SUFFICES ASSUME NEW q \in K PROVE SoundAt(k, c, S, q)
  BY DEF Sound, CopyOf
<1>1. /\ DOMAIN k = K /\ k[q].under = t[q].under
      /\ k[q].untested = t[q].untested \cup Dropped(t, K, q)
  <2>1. t[q] \in Nodes
    BY DEF Shaped, IsTree, Part
  <2>2. DOMAIN k = K
    BY DEF CopyOf
  <2> QED BY <2>1, <2>2 DEF CopyOf, Nodes, Dropped
<1>2. SoundAt(t, c, S, q)
  BY DEF Sound, Part
<1>3. board \subseteq Moves
  BY DEF TypeOK, Points, Moves
<1> HIDE DEF k
<1>4. k[q].untested \cap TriedIn(k, q) = {}
  BY <1>1, <1>2 DEF SoundAt, TriedIn, Part, Dropped
<1>5. \A m \in board : m \in TriedIn(t, q) => m \in k[q].untested \cup TriedIn(k, q)
  BY <1>1, <1>3 DEF TriedIn, Dropped
<1>6. ASSUME q # <<>>
      PROVE  EmptyIn(S \cup StonesAlong(c, q)) \subseteq k[q].untested \cup TriedIn(k, q)
  BY <1>1, <1>2, <1>5, <1>6 DEF SoundAt, EmptyIn
<1> QED BY <1>1, <1>2, <1>4, <1>6 DEF SoundAt

(* A node's subtree is sound for the position of the node.                 *)
LEMMA SubtreeSound ==
  ASSUME NEW t, Shaped(t), NEW c \in Colors, NEW S, Sound(t, c, S), NEW p \in DOMAIN t
  PROVE  Sound(Subtree(t, p), Mover(c, Len(p)), S \cup StonesAlong(c, p))
<1> DEFINE s == Subtree(t, p)
           d == Mover(c, Len(p))
<1>1. p \in Seq(Moves) /\ DOMAIN t \subseteq Seq(Moves)
  BY DEF Shaped
<1>2. /\ DOMAIN s = {q \in Seq(Moves) : p \o q \in DOMAIN t}
      /\ \A q \in DOMAIN s : s[q] = t[p \o q]
  BY <1>1, SubtreeFacts
<1> SUFFICES ASSUME NEW q \in DOMAIN s PROVE SoundAt(s, d, S \cup StonesAlong(c, p), q)
  BY DEF Sound
<1>3. q \in Seq(Moves) /\ p \o q \in DOMAIN t /\ s[q] = t[p \o q]
  BY <1>2
<1>4. SoundAt(t, c, S, p \o q)
  BY <1>3 DEF Sound
<1>5. TriedIn(s, q) = TriedIn(t, p \o q)
  <2>1. \A m \in Moves : Append(q, m) \in Seq(Moves) /\ p \o Append(q, m) = Append(p \o q, m)
    BY <1>1, <1>3, AppendBelow, FrontOfAppend
  <2> HIDE DEF s
  <2> QED BY <1>2, <2>1 DEF TriedIn
<1>6. StonesAlong(c, p \o q) = StonesAlong(c, p) \cup StonesAlong(d, q)
  BY <1>1, <1>3, StonesBelow
<1>7. Mover(c, Len(p \o q)) = Mover(d, Len(q))
  <2>1. Len(p) \in Nat /\ Len(q) \in Nat /\ Len(p \o q) = Len(p) + Len(q)
    BY <1>1, <1>3, PathBelow, LenProperties
  <2> QED BY <2>1, MoverSum
<1>8. q # <<>> => p \o q # <<>>
  BY <1>1, <1>3, PathBelow
<1>9. S \cup StonesAlong(c, p \o q) = (S \cup StonesAlong(c, p)) \cup StonesAlong(d, q)
  BY <1>6
<1> HIDE DEF s, d
<1> QED BY <1>3, <1>4, <1>5, <1>7, <1>8, <1>9 DEF SoundAt

(* The new root: its own fresh moves and the dropped ones.                 *)
RootUntested(points, K) ==
    ((points \cap EmptyIn(StonesOf(hist)))
        \cup {m \in board : <<m>> \in DOMAIN Subtree(cache.tree, Played) \ K})
    \ {m \in Points : <<m>> \in K}

LEMMA GraftFacts ==
  ASSUME NEW points, NEW K, Shaped(Subtree(cache.tree, Played)), Part(Subtree(cache.tree, Played), K)
  PROVE  LET src == Subtree(cache.tree, Played)
             g == Grafted(points, K)
         IN  /\ DOMAIN g = K
             /\ \A q \in K : q # <<>> => g[q] = CopyOf(src, K)[q]
             /\ g[<<>>] = [untested |-> RootUntested(points, K), under |-> src[<<>>].under]
<1> DEFINE src == Subtree(cache.tree, Played)
           root == [untested |-> RootUntested(points, K), under |-> src[<<>>].under]
<1>1. Grafted(points, K) = [CopyOf(src, K) EXCEPT ![<<>>] = root]
  BY DEF Grafted, FreshRoot, RootUntested
<1>2. DOMAIN CopyOf(src, K) = K /\ <<>> \in K
  BY DEF CopyOf, Part
<1>3. /\ DOMAIN Grafted(points, K) = K /\ Grafted(points, K)[<<>>] = root
      /\ \A q \in K : q # <<>> => Grafted(points, K)[q] = CopyOf(src, K)[q]
  <2> HIDE DEF root, src
  <2> QED BY <1>1, <1>2
<1> QED BY <1>3

-----------------------------------------------------------------------------
(* Types.                                                                  *)

LEMMA StonesType ==
  ASSUME TypeOK
  PROVE  /\ StonesOf(hist) \subseteq Colors \X Points
         /\ Len(hist) \in Nat /\ board \subseteq Points /\ Pass \notin Points
         /\ \A S : EmptyIn(S) \subseteq board
         /\ \A p \in Seq(Moves) : StonesAlong(color, p) \subseteq Colors \X Points
<1>1. /\ DOMAIN hist = 1 .. Len(hist) /\ Len(hist) \in Nat
      /\ \A k \in 1 .. Len(hist) : hist[k] \in [color : Colors, move : Points \cup {Pass}]
  <2> DEFINE R == [color : Colors, move : Points \cup {Pass}]
  <2>1. hist \in Seq(R)
    BY DEF TypeOK
  <2> HIDE DEF R
  <2>2. DOMAIN hist = 1 .. Len(hist) /\ Len(hist) \in Nat /\ \A k \in 1 .. Len(hist) : hist[k] \in R
    BY <2>1, LenProperties
  <2> QED BY <2>2 DEF R
<1>2. StonesOf(hist) \subseteq Colors \X Points
  <2> SUFFICES ASSUME NEW k \in 1 .. Len(hist), hist[k].move # Pass
               PROVE  <<hist[k].color, hist[k].move>> \in Colors \X Points
    BY <1>1 DEF StonesOf
  <2> QED BY <1>1
<1>3. board \subseteq Points /\ Pass \notin Points
  BY ReuseAssumption DEF TypeOK, Points
<1>4. \A S : EmptyIn(S) \subseteq board
  BY DEF EmptyIn
<1>5. ASSUME NEW p \in Seq(Moves) PROVE StonesAlong(color, p) \subseteq Colors \X Points
  <2>1. DOMAIN p = 1 .. Len(p) /\ Len(p) \in Nat /\ \A k \in 1 .. Len(p) : p[k] \in Moves
    BY LenProperties
  <2>2. \A k \in 1 .. Len(p) : Mover(color, k - 1) \in Colors
    BY DEF Mover, Other, Colors, TypeOK
  <2> QED BY <2>1, <2>2 DEF StonesAlong, Moves
<1> QED BY <1>1, <1>2, <1>3, <1>4, <1>5

LEMMA SituationType ==
  ASSUME TypeOK, NEW p \in Seq(Moves)
  PROVE  Situation(p) \in [board : Boards, stones : SUBSET (Colors \X Points), mover : Colors]
<1>1. Mover(color, Len(p)) \in Colors
  BY DEF Mover, Other, Colors, TypeOK
<1>2. StonesAt(p) \subseteq Colors \X Points
  BY StonesType DEF StonesAt
<1> QED BY <1>1, <1>2 DEF Situation, TypeOK

(* A stone played keeps the history well formed.                           *)
LEMMA HistoryGrows ==
  ASSUME TypeOK, NEW c \in Colors, NEW m \in EmptyIn(StonesOf(hist)) \cup {Pass}
  PROVE  /\ Append(hist, [color |-> c, move |-> m]) \in Seq([color : Colors, move : Points \cup {Pass}])
         /\ Len(Append(hist, [color |-> c, move |-> m])) = Len(hist) + 1
<1>1. [color |-> c, move |-> m] \in [color : Colors, move : Points \cup {Pass}]
  BY StonesType
<1>2. hist \in Seq([color : Colors, move : Points \cup {Pass}])
  BY DEF TypeOK
<1> QED BY <1>1, <1>2, AppendProperties

-----------------------------------------------------------------------------
(* The start of a search.                                                  *)

LEMMA MatchFacts ==
  ASSUME ShapeInv, NEW c \in Colors, Matches(c)
  PROVE  /\ Played \in DOMAIN cache.tree /\ Played \in Seq(Moves)
         /\ c = Mover(cache.color, Len(Played)) /\ cache.color \in Colors
         /\ StonesOf(hist) = cache.stones \cup StonesAlong(cache.color, Played)
         /\ Shaped(cache.tree) /\ Shaped(Subtree(cache.tree, Played))
         /\ Cached \in Nat \ {0} /\ Cached = Cardinality(DOMAIN cache.tree)
<1>1. /\ cache.have /\ Shaped(cache.tree) /\ Played \in DOMAIN cache.tree
      /\ Played \in Seq(Moves) /\ cache.color \in Colors
  BY DEF ShapeInv, TypeOK, Matches, Shaped
<1>2. Len(Played) = Len(hist) - cache.at
  <2> DEFINE n == Len(hist) - cache.at
  <2>1. n \in Nat
    BY DEF Matches
  <2>2. DOMAIN Played = 1 .. n
    BY DEF Played
  <2>3. DOMAIN Played = 1 .. Len(Played) /\ Len(Played) \in Nat
    BY <1>1, LenProperties
  <2> HIDE DEF n
  <2>4. Len(Played) = n
    BY <2>1, <2>2, <2>3
  <2> QED BY <2>4 DEF n
<1>3. Shaped(Subtree(cache.tree, Played))
  BY <1>1, SubtreeShaped
<1>4. Cached = Cardinality(DOMAIN cache.tree) /\ Cached \in Nat \ {0}
  <2>1. Cached = Cardinality(DOMAIN cache.tree)
    BY <1>1 DEF Cached
  <2>2. IsFiniteSet(DOMAIN cache.tree) /\ DOMAIN cache.tree # {}
    BY <1>1 DEF Shaped
  <2> QED BY <2>1, <2>2, FS_CardinalityType, FS_EmptySet
<1> QED BY <1>1, <1>2, <1>3, <1>4 DEF Matches

(* The graft stays below the number of cached nodes.                       *)
LEMMA GraftBound ==
  ASSUME ShapeInv, NEW c \in Colors, Matches(c)
  PROVE  GraftCap \in Nat /\ GraftCap <= Cached - 1 /\ PoolFor \in Nat /\ PoolFor = SimCap + Cached
<1>1. /\ Cached \in Nat /\ Cached - 1 \in Nat /\ PoolFor \in Nat /\ PoolFor \div 2 \in Nat
      /\ Reserve \in Nat
      /\ (PoolFor > Reserve => PoolFor - Reserve - 1 \in Nat)
  <2>1. Cached \in Nat \ {0} /\ SimCap \in Nat /\ Reserve \in Nat
    BY MatchFacts, ReuseAssumption
  <2>2. PoolFor = SimCap + Cached
    BY DEF PoolFor
  <2>3. PoolFor \in Nat
    BY <2>1, <2>2
  <2> QED BY <2>1, <2>3
<1> DEFINE x == Cached - 1
           y == PoolFor \div 2
           z == IF PoolFor > Reserve THEN PoolFor - Reserve - 1 ELSE 0
<1>2. x \in Nat /\ y \in Nat /\ z \in Nat /\ GraftCap = Min({x, y} \cup {z})
  BY <1>1 DEF GraftCap
<1> HIDE DEF x, y, z
<1>3. \E v \in {x, y} \cup {z} : \A w \in {x, y} \cup {z} : v <= w
  BY <1>2
<1>4. GraftCap \in {x, y} \cup {z} /\ \A w \in {x, y} \cup {z} : GraftCap <= w
  BY <1>2, <1>3 DEF Min
<1> QED BY <1>1, <1>2, <1>4 DEF x, PoolFor

LEMMA GraftShaped ==
  ASSUME ShapeInv, NEW c \in Colors, Matches(c), NEW points \in SUBSET board,
         NEW K \in Cuts(Subtree(cache.tree, Played), GraftCap + 1)
  PROVE  /\ Part(Subtree(cache.tree, Played), K)
         /\ Shaped(Grafted(points, K))
         /\ Cardinality(K) \in Nat \ {0} /\ Cardinality(K) <= GraftCap + 1
<1> DEFINE src == Subtree(cache.tree, Played)
           g == Grafted(points, K)
<1>1. Shaped(src) /\ TypeOK
  BY MatchFacts DEF ShapeInv
<1>2. GraftCap + 1 \in Nat \ {0}
  BY GraftBound
<1>3. /\ Part(src, K) /\ Cardinality(K) \in 1 .. GraftCap + 1
  BY <1>1, <1>2, CutFacts DEF Part
<1>4. Shaped(CopyOf(src, K)) /\ DOMAIN CopyOf(src, K) = K
  BY <1>1, <1>3, CopyShaped DEF CopyOf
<1>5. /\ DOMAIN g = K
      /\ \A q \in K : q # <<>> => g[q] = CopyOf(src, K)[q]
      /\ RootUntested(points, K) \subseteq Points /\ src[<<>>] \in Nodes
      /\ g[<<>>] = [untested |-> RootUntested(points, K), under |-> src[<<>>].under]
  <2>1. src[<<>>] \in Nodes
    BY <1>1 DEF Shaped, IsTree
  <2>2. EmptyIn(StonesOf(hist)) \subseteq Points /\ board \subseteq Points
    BY <1>1, StonesType
  <2>3. RootUntested(points, K) \subseteq Points
    BY <2>2 DEF RootUntested
  <2>4. /\ DOMAIN g = K
        /\ \A q \in K : q # <<>> => g[q] = CopyOf(src, K)[q]
        /\ g[<<>>] = [untested |-> RootUntested(points, K), under |-> src[<<>>].under]
    BY <1>1, <1>3, GraftFacts
  <2> QED BY <2>1, <2>3, <2>4
<1> HIDE DEF src, g
<1>6. g[<<>>] \in Nodes
  BY <1>5 DEF Nodes
<1>7. Shaped(g)
  BY <1>4, <1>5, <1>6 DEF Shaped, IsTree
<1> QED BY <1>2, <1>3, <1>7 DEF src, g

LEMMA OneMovePath ==
  ASSUME NEW m \in Moves
  PROVE  Append(<<>>, m) = <<m>> /\ <<>> \in Seq(Moves)
OBVIOUS

(* The graft is sound for the current position, and at its root every move *)
(* of the search is untested or has come with a child.                     *)
LEMMA GraftSound ==
  ASSUME ShapeInv, SoundInv, NEW c \in Colors, Matches(c), NEW points \in SUBSET board,
         NEW K \in Cuts(Subtree(cache.tree, Played), GraftCap + 1)
  PROVE  /\ Sound(Grafted(points, K), c, StonesOf(hist))
         /\ EmptyIn(StonesOf(hist)) \cap points
               \subseteq Grafted(points, K)[<<>>].untested \cup TriedIn(Grafted(points, K), <<>>)
<1> DEFINE src == Subtree(cache.tree, Played)
           copy == CopyOf(src, K)
           g == Grafted(points, K)
           S == StonesOf(hist)
<1>1. Shaped(src) /\ TypeOK /\ Part(src, K)
  BY MatchFacts, GraftShaped DEF ShapeInv
<1>2. Sound(src, c, S)
  <2>1. Sound(cache.tree, cache.color, cache.stones)
    BY DEF SoundInv, Matches
  <2>2. Sound(src, Mover(cache.color, Len(Played)), cache.stones \cup StonesAlong(cache.color, Played))
    BY <2>1, MatchFacts, SubtreeSound
  <2> QED BY <2>2, MatchFacts
<1>3. Sound(copy, c, S)
  BY <1>1, <1>2, CopySound
<1>4. /\ DOMAIN g = K /\ DOMAIN copy = K /\ <<>> \in K
      /\ \A q \in K : q # <<>> => g[q] = copy[q]
      /\ g[<<>>] = [untested |-> RootUntested(points, K), under |-> src[<<>>].under]
  BY <1>1, GraftFacts DEF CopyOf, Part
<1>5. SoundAt(src, c, S, <<>>)
  BY <1>1, <1>2 DEF Sound, Part
<1>6. Pass \notin Points /\ EmptyIn(S) \subseteq Points
  BY <1>1, StonesType
<1>7. \A m \in Moves : Append(<<>>, m) = <<m>>
  BY OneMovePath
<1> HIDE DEF src, copy, g, S
<1>8. ASSUME NEW q \in K, q # <<>> PROVE SoundAt(g, c, S, q)
  <2>1. SoundAt(copy, c, S, q)
    BY <1>3, <1>4, <1>8 DEF Sound
  <2>2. TriedIn(g, q) = TriedIn(copy, q) /\ g[q] = copy[q]
    BY <1>4, <1>8 DEF TriedIn
  <2> QED BY <2>1, <2>2 DEF SoundAt
<1>9. SoundAt(g, c, S, <<>>)
  <2>1. g[<<>>].untested = RootUntested(points, K) /\ g[<<>>].under = src[<<>>].under
    BY <1>4
  <2>2. RootUntested(points, K) \cap TriedIn(g, <<>>) = {}
    <3>1. RootUntested(points, K) \subseteq Points \ {m \in Points : <<m>> \in K}
      BY <1>1, StonesType DEF RootUntested
    <3> QED BY <1>4, <1>7, <3>1 DEF TriedIn
  <2> QED BY <1>5, <2>1, <2>2 DEF SoundAt
<1>10. EmptyIn(S) \cap points \subseteq g[<<>>].untested \cup TriedIn(g, <<>>)
  <2>1. g[<<>>].untested = RootUntested(points, K)
    BY <1>4
  <2>2. \A m \in EmptyIn(S) \cap points : m \in RootUntested(points, K) \/ <<m>> \in K
    BY DEF RootUntested, S
  <2>3. \A m \in EmptyIn(S) : m \in Moves
    BY <1>6 DEF Moves
  <2> QED BY <1>4, <1>7, <2>1, <2>2, <2>3 DEF TriedIn
<1> QED BY <1>4, <1>8, <1>9, <1>10 DEF Sound, g, S

LEMMA BeginShape ==
  ASSUME ShapeInv, NEW kind \in Kinds, NEW c \in Colors, NEW points \in SUBSET board,
         Begin(kind, c, points), kind = "genmove" => Len(hist) < MaxHist
  PROVE  ShapeInv'
<1>1. TypeOK /\ kind # "idle" /\ PoolFor \in Nat /\ SimCap \in Nat /\ Cached \in Nat
      /\ PoolFor = SimCap + Cached
  <2>1. Cached \in Nat /\ SimCap \in Nat
    BY FS_CardinalityType, ReuseAssumption DEF ShapeInv, Cached, Shaped
  <2> QED BY <2>1 DEF ShapeInv, Kinds, PoolFor
<1>2. /\ mode' = kind /\ color' = c /\ allowed' = points /\ pool' = PoolFor /\ sims' = 0
      /\ UNCHANGED <<board, hist, cache>>
  BY DEF Begin, gameVars
<1>3. Shaped(tree') /\ arcs' \in Nat /\ arcs' <= Cached
  <2>1. CASE Matches(c)
    <3>1. PICK K \in Cuts(Subtree(cache.tree, Played), GraftCap + 1) :
             /\ tree' = Grafted(points, K)
             /\ arcs' = Cardinality(K) - 1 + (IF QueueIsFull(K) THEN 1 ELSE 0)
      BY <2>1 DEF Begin
    <3>2. /\ Shaped(Grafted(points, K))
          /\ Cardinality(K) \in Nat \ {0} /\ Cardinality(K) <= GraftCap + 1
      BY <2>1, GraftShaped
    <3>3. GraftCap \in Nat /\ GraftCap <= Cached - 1
      BY <2>1, GraftBound
    <3>4. arcs' \in Nat /\ arcs' <= Cached
      <4>1. arcs' = Cardinality(K) - 1 \/ arcs' = Cardinality(K)
        BY <3>1, <3>2
      <4> QED BY <1>1, <3>2, <3>3, <4>1
    <3> QED BY <3>1, <3>2, <3>4
  <2>2. CASE ~Matches(c)
    <3>1. tree' = [p \in {<<>>} |-> FreshRoot(points)] /\ arcs' = 0
      BY <2>2 DEF Begin
    <3>2. FreshRoot(points) \in Nodes
      BY <1>1, StonesType DEF FreshRoot, Nodes
    <3>3. MaxDepth \in Nat
      BY ReuseAssumption
    <3>4. Len(<<>>) <= MaxDepth /\ <<>> \in Seq(Moves)
      BY <3>3
    <3>5. IsFiniteSet({<<>>})
      BY FS_Singleton
    <3> QED BY <1>1, <3>1, <3>2, <3>4, <3>5 DEF Shaped, IsTree
  <2> QED BY <2>1, <2>2
<1>4. TypeOK'
  <2>1. DOMAIN tree' # {} /\ IsTree(tree')
    BY <1>3 DEF Shaped
  <2>2. 0 \in 0 .. SimCap
    BY <1>1
  <2> QED BY <1>1, <1>2, <1>3, <2>1, <2>2 DEF TypeOK, IsTree
<1>5. arcs' + (SimCap - sims') <= pool'
  <2>1. sims' = 0 /\ pool' = SimCap + Cached
    BY <1>1, <1>2
  <2>2. SimCap - sims' = SimCap
    BY <1>1, <2>1
  <2>3. SimCap \in Nat /\ Cached \in Nat /\ arcs' \in Nat /\ arcs' <= Cached
    BY <1>1, <1>3
  <2>4. arcs' + SimCap <= SimCap + Cached
    <3>1. \A a, n, s \in Nat : a <= n => a + s <= s + n
      OBVIOUS
    <3> QED BY <2>3, <3>1
  <2> QED BY <2>1, <2>2, <2>4
<1> QED BY <1>1, <1>2, <1>3, <1>4, <1>5 DEF ShapeInv, Shaped, IsTree

LEMMA BeginSound ==
  ASSUME ShapeInv, SoundInv, NEW kind \in Kinds, NEW c \in Colors, NEW points \in SUBSET board,
         Begin(kind, c, points)
  PROVE  SoundInv'
<1>1. /\ mode' = kind /\ color' = c /\ allowed' = points
      /\ UNCHANGED <<board, hist, cache>>
  BY DEF Begin, gameVars
<1>2. /\ Sound(tree', c, StonesOf(hist))
      /\ EmptyIn(StonesOf(hist)) \cap points \subseteq tree'[<<>>].untested \cup TriedIn(tree', <<>>)
  <2>1. CASE Matches(c)
    <3>1. PICK K \in Cuts(Subtree(cache.tree, Played), GraftCap + 1) : tree' = Grafted(points, K)
      BY <2>1 DEF Begin
    <3> QED BY <2>1, <3>1, GraftSound
  <2>2. CASE ~Matches(c)
    <3>1. tree' = [p \in {<<>>} |-> FreshRoot(points)]
      BY <2>2 DEF Begin
    <3>2. TriedIn(tree', <<>>) = {}
      BY <3>1, OneMovePath DEF TriedIn
    <3> QED BY <3>1, <3>2 DEF Sound, SoundAt, FreshRoot
  <2> QED BY <2>1, <2>2
<1>3. StonesAlong(c, <<>>) = {}
  BY NoStones
<1> QED BY <1>1, <1>2, <1>3 DEF SoundInv, RootIsComplete, Sound, SoundAt, EmptyIn, StonesOf,
        StonesAt, TriedIn

-----------------------------------------------------------------------------
(* A simulation.                                                           *)

(* The tree with the new node, before its counters are updated.            *)
Grown(p, m) ==
    [r \in DOMAIN tree \cup {Append(p, m)} |->
        IF r = Append(p, m) THEN [untested |-> EmptyIn(StonesAt(r)), under |-> {}]
        ELSE [tree EXCEPT ![p].untested = @ \ {m}][r]]

LEMMA VisitedFacts ==
  ASSUME NEW t, Shaped(t), NEW p
  PROVE  /\ DOMAIN Visited(t, p) = DOMAIN t
         /\ \A q \in DOMAIN t : /\ Visited(t, p)[q].untested = t[q].untested
                                /\ Visited(t, p)[q].under \subseteq t[q].under \cup {Situation(q)}
<1> SUFFICES ASSUME NEW q \in DOMAIN t
             PROVE  /\ Visited(t, p)[q].untested = t[q].untested
                    /\ Visited(t, p)[q].under \subseteq t[q].under \cup {Situation(q)}
  BY DEF Visited
<1>1. t[q] \in Nodes
  BY DEF Shaped, IsTree
<1>2. CASE IsPrefix(q, p)
  <2>1. Visited(t, p)[q] = [t[q] EXCEPT !.under = @ \cup {Situation(q)}]
    BY <1>2 DEF Visited
  <2> QED BY <1>1, <2>1 DEF Nodes
<1>3. CASE ~IsPrefix(q, p)
  BY <1>3 DEF Visited
<1> QED BY <1>2, <1>3

LEMMA VisitedShaped ==
  ASSUME TypeOK, NEW t, Shaped(t), NEW p
  PROVE  Shaped(Visited(t, p))
<1>1. ASSUME NEW q \in DOMAIN t PROVE Visited(t, p)[q] \in Nodes
  <2>1. t[q] \in Nodes /\ q \in Seq(Moves)
    BY DEF Shaped, IsTree
  <2>2. CASE IsPrefix(q, p)
    <3>1. Visited(t, p)[q] = [t[q] EXCEPT !.under = @ \cup {Situation(q)}]
      BY <2>2 DEF Visited
    <3>2. Situation(q) \in [board : Boards, stones : SUBSET (Colors \X Points), mover : Colors]
      BY <2>1, SituationType
    <3> QED BY <2>1, <3>1, <3>2 DEF Nodes
  <2>3. CASE ~IsPrefix(q, p)
    BY <2>1, <2>3 DEF Visited
  <2> QED BY <2>2, <2>3
<1>2. DOMAIN Visited(t, p) = DOMAIN t
  BY DEF Visited
<1> QED BY <1>1, <1>2 DEF Shaped, IsTree

LEMMA VisitedSound ==
  ASSUME NEW t, Shaped(t), Sound(t, color, StonesOf(hist)), NEW p
  PROVE  Sound(Visited(t, p), color, StonesOf(hist))
<1> DEFINE v == Visited(t, p)
<1> SUFFICES ASSUME NEW q \in DOMAIN t PROVE SoundAt(v, color, StonesOf(hist), q)
  BY DEF Sound, Visited
<1>1. /\ DOMAIN v = DOMAIN t /\ v[q].untested = t[q].untested
      /\ v[q].under \subseteq t[q].under \cup {Situation(q)}
  BY VisitedFacts
<1>2. SoundAt(t, color, StonesOf(hist), q)
  BY DEF Sound
<1>3. Situation(q) = [board |-> board, stones |-> StonesOf(hist) \cup StonesAlong(color, q),
                      mover |-> Mover(color, Len(q))]
  BY DEF Situation, StonesAt
<1>4. TriedIn(v, q) = TriedIn(t, q)
  BY <1>1 DEF TriedIn
<1> HIDE DEF v
<1> QED BY <1>1, <1>2, <1>3, <1>4 DEF SoundAt

LEMMA NextMoveType ==
  ASSUME TypeOK, Shaped(tree), NEW p \in DOMAIN tree, NEW m \in NextMoves(p)
  PROVE  m \in Moves /\ p \in Seq(Moves) /\ tree[p] \in Nodes
BY DEF Shaped, IsTree, NextMoves, Nodes, Moves

LEMMA GrownShaped ==
  ASSUME TypeOK, Shaped(tree), NEW p \in DOMAIN tree, NEW m \in NextMoves(p), Len(p) < MaxDepth
  PROVE  Shaped(Grown(p, m))
<1> DEFINE q == Append(p, m)
           g == Grown(p, m)
<1>1. m \in Moves /\ p \in Seq(Moves) /\ tree[p] \in Nodes
  BY NextMoveType
<1>2. q \in Seq(Moves) /\ Front(q) = p /\ Len(q) = Len(p) + 1 /\ Len(p) \in Nat /\ MaxDepth \in Nat
  <2>1. MaxDepth \in Nat
    BY ReuseAssumption
  <2> QED BY <1>1, <2>1, FrontOfAppend, LenProperties
<1>3. DOMAIN g = DOMAIN tree \cup {q}
  BY DEF Grown
<1>4. IsFiniteSet(DOMAIN g)
  BY <1>3, FS_AddElement DEF Shaped
<1>5. g[q] \in Nodes
  <2>1. g[q] = [untested |-> EmptyIn(StonesAt(q)), under |-> {}]
    BY DEF Grown
  <2>2. EmptyIn(StonesAt(q)) \subseteq Points
    BY StonesType
  <2> QED BY <2>1, <2>2 DEF Nodes
<1>6. ASSUME NEW r \in DOMAIN tree PROVE g[r] \in Nodes
  <2>1. CASE r = q
    BY <1>5, <2>1
  <2>2. CASE r # q
    <3>1. g[r] = [tree EXCEPT ![p].untested = @ \ {m}][r]
      BY <2>2 DEF Grown
    <3>2. [tree[p] EXCEPT !.untested = @ \ {m}] \in Nodes
      BY <1>1 DEF Nodes
    <3>3. g[r] = tree[r] \/ g[r] = [tree[p] EXCEPT !.untested = @ \ {m}]
      BY <3>1
    <3> QED BY <3>2, <3>3 DEF Shaped, IsTree
  <2> QED BY <2>1, <2>2
<1> HIDE DEF q, g
<1>7. Len(q) <= MaxDepth
  BY <1>2
<1> QED BY <1>2, <1>3, <1>4, <1>5, <1>6, <1>7 DEF Shaped, IsTree, g

(* The child is new, and it moves its move from untested to tried.         *)
LEMMA GrownSound ==
  ASSUME TypeOK, Shaped(tree), Sound(tree, color, StonesOf(hist)), RootIsComplete,
         NEW p \in DOMAIN tree, NEW m \in NextMoves(p)
  PROVE  /\ Sound(Grown(p, m), color, StonesOf(hist))
         /\ EmptyIn(StonesAt(<<>>)) \cap allowed
               \subseteq Grown(p, m)[<<>>].untested \cup TriedIn(Grown(p, m), <<>>)
<1> DEFINE q == Append(p, m)
           g == Grown(p, m)
           S == StonesOf(hist)
<1>1. m \in Moves /\ p \in Seq(Moves) /\ tree[p] \in Nodes
  BY NextMoveType
<1>2. q \in Seq(Moves) /\ q # <<>> /\ Front(q) = p /\ Len(q) = Len(p) + 1 /\ q[Len(q)] = m
  BY <1>1, FrontOfAppend, AppendProperties
<1>3. q \notin DOMAIN tree
  <2>1. CASE tree[p].untested # {}
    <3>1. m \in tree[p].untested /\ SoundAt(tree, color, S, p)
      BY <2>1 DEF NextMoves, Sound
    <3> QED BY <1>1, <3>1 DEF SoundAt, TriedIn
  <2>2. CASE tree[p].untested = {}
    <3>1. IsPrefix(p, q)
      <4>1. q = p \o <<m>> /\ <<m>> \in Seq(Moves)
        BY <1>1, AppendIsConcat
      <4> QED BY <1>1, <4>1, PathBelow
    <3> QED BY <1>2, <2>2, <3>1 DEF NextMoves
  <2> QED BY <2>1, <2>2
<1>4. /\ DOMAIN g = DOMAIN tree \cup {q}
      /\ g[q] = [untested |-> EmptyIn(S \cup StonesAlong(color, q)), under |-> {}]
  BY DEF Grown, StonesAt
<1>5. ASSUME NEW r \in DOMAIN tree
      PROVE  /\ g[r].under = tree[r].under
             /\ g[r].untested = IF r = p THEN tree[r].untested \ {m} ELSE tree[r].untested
  <2>1. g[r] = [tree EXCEPT ![p].untested = @ \ {m}][r]
    BY <1>3 DEF Grown
  <2>2. g[r] = IF r = p THEN [tree[p] EXCEPT !.untested = @ \ {m}] ELSE tree[r]
    BY <2>1
  <2> HIDE DEF g
  <2>3. CASE r = p
    BY <1>1, <2>2, <2>3 DEF Nodes
  <2>4. CASE r # p
    BY <2>2, <2>4
  <2> QED BY <2>3, <2>4
<1>6. ASSUME NEW r \in DOMAIN tree
      PROVE  TriedIn(g, r) = IF r = p THEN TriedIn(tree, r) \cup {m} ELSE TriedIn(tree, r)
  <2>1. \A x \in Moves : Append(r, x) = q <=> r = p /\ x = m
    <3> TAKE x \in Moves
    <3>1. r \in Seq(Moves)
      BY DEF Shaped
    <3>2. Front(Append(r, x)) = r /\ Append(r, x)[Len(Append(r, x))] = x
      BY <3>1, FrontOfAppend, AppendProperties
    <3> QED BY <1>2, <3>2
  <2> HIDE DEF g, q
  <2> QED BY <1>1, <1>4, <2>1 DEF TriedIn
<1>7. TriedIn(g, q) = {}
  <2> SUFFICES ASSUME NEW x \in Moves, Append(q, x) \in DOMAIN g PROVE FALSE
    BY DEF TriedIn
  <2>1. Append(q, x) # <<>> /\ Front(Append(q, x)) = q /\ Len(Append(q, x)) = Len(q) + 1
        /\ Len(q) \in Nat
    BY <1>2, FrontOfAppend, LenProperties
  <2>2. Append(q, x) # q
    BY <2>1
  <2>3. Append(q, x) \in DOMAIN tree
    BY <1>4, <2>2
  <2> QED BY <1>3, <2>1, <2>3 DEF Shaped, IsTree
<1> HIDE DEF q, g, S
<1>8. ASSUME NEW r \in DOMAIN tree
      PROVE  /\ SoundAt(g, color, S, r)
             /\ tree[r].untested \cup TriedIn(tree, r) \subseteq g[r].untested \cup TriedIn(g, r)
  <2>1. SoundAt(tree, color, S, r)
    BY DEF Sound, S
  <2>2. tree[r].untested \cup TriedIn(tree, r) \subseteq g[r].untested \cup TriedIn(g, r)
    BY <1>5, <1>6
  <2>3. g[r].untested \cap TriedIn(g, r) = {}
    BY <1>5, <1>6, <2>1 DEF SoundAt
  <2>4. g[r].under = tree[r].under
    BY <1>5
  <2> QED BY <2>1, <2>2, <2>3, <2>4 DEF SoundAt
<1>9. SoundAt(g, color, S, q)
  BY <1>4, <1>7 DEF SoundAt
<1>10. Sound(g, color, S)
  BY <1>4, <1>8, <1>9 DEF Sound
<1>11. EmptyIn(StonesAt(<<>>)) \cap allowed \subseteq g[<<>>].untested \cup TriedIn(g, <<>>)
  <2>1. <<>> \in DOMAIN tree
    BY DEF Shaped
  <2> QED BY <1>8, <2>1 DEF RootIsComplete
<1> QED BY <1>10, <1>11 DEF g, S

(* What a simulation does to the tree and to the counts.                   *)
LEMMA SimulateCases ==
  ASSUME ShapeInv, Simulate
  PROVE  /\ mode # "idle" /\ sims < SimCap /\ sims' = sims + 1
         /\ UNCHANGED <<board, hist, cache, mode, color, allowed, pool>>
         /\ \E p \in DOMAIN tree :
               \/ Len(p) = MaxDepth /\ tree' = Visited(tree, p) /\ arcs' = arcs
               \/ \E m \in NextMoves(p) : /\ Len(p) < MaxDepth
                                          /\ tree' = Visited(Grown(p, m), Append(p, m))
                                          /\ arcs' = arcs + 1
<1>1. ASSUME NEW p \in DOMAIN tree, NEW m \in NextMoves(p), Expand(p, m)
      PROVE  Len(p) < MaxDepth /\ tree' = Visited(Grown(p, m), Append(p, m)) /\ arcs' = arcs + 1
  <2>1. Grown(p, m) = [r \in DOMAIN tree \cup {Append(p, m)} |->
                          IF r = Append(p, m)
                          THEN [untested |-> EmptyIn(StonesAt(Append(p, m))), under |-> {}]
                          ELSE [tree EXCEPT ![p].untested = @ \ {m}][r]]
    BY DEF Grown
  <2> QED BY <1>1, <2>1 DEF Expand
<1>2. ASSUME NEW p \in DOMAIN tree, Rescore(p)
      PROVE  Len(p) = MaxDepth /\ tree' = Visited(tree, p) /\ arcs' = arcs
  BY <1>2 DEF Rescore
<1>3. PICK p \in DOMAIN tree : Rescore(p) \/ \E m \in NextMoves(p) : Expand(p, m)
  BY DEF Simulate
<1>4. /\ mode # "idle" /\ sims < SimCap /\ sims' = sims + 1
      /\ UNCHANGED <<board, hist, cache, mode, color, allowed, pool>>
  BY DEF Simulate, gameVars
<1> QED BY <1>1, <1>2, <1>3, <1>4

LEMMA SimulateShape ==
  ASSUME ShapeInv, Simulate
  PROVE  ShapeInv'
<1>1. /\ mode # "idle" /\ sims < SimCap /\ sims' = sims + 1
      /\ UNCHANGED <<board, hist, cache, mode, color, allowed, pool>>
  BY SimulateCases
<1>2. TypeOK /\ Shaped(tree) /\ arcs \in Nat /\ sims \in Nat /\ SimCap \in Nat /\ pool \in Nat
      /\ arcs + (SimCap - sims) <= pool
  BY <1>1, ReuseAssumption DEF ShapeInv, TypeOK
<1>3. Shaped(tree') /\ (arcs' = arcs \/ arcs' = arcs + 1)
  <2>1. PICK p \in DOMAIN tree :
               \/ Len(p) = MaxDepth /\ tree' = Visited(tree, p) /\ arcs' = arcs
               \/ \E m \in NextMoves(p) : /\ Len(p) < MaxDepth
                                          /\ tree' = Visited(Grown(p, m), Append(p, m))
                                          /\ arcs' = arcs + 1
    BY SimulateCases
  <2>2. CASE tree' = Visited(tree, p) /\ arcs' = arcs
    BY <1>2, <2>2, VisitedShaped
  <2>3. ASSUME NEW m \in NextMoves(p), Len(p) < MaxDepth,
               tree' = Visited(Grown(p, m), Append(p, m)), arcs' = arcs + 1
        PROVE  Shaped(tree') /\ arcs' = arcs + 1
    <3>1. Shaped(Grown(p, m))
      BY <1>2, <2>3, GrownShaped
    <3> QED BY <1>2, <2>3, <3>1, VisitedShaped
  <2> QED BY <2>1, <2>2, <2>3
<1>4. arcs' \in Nat /\ sims' \in 0 .. SimCap /\ arcs' + (SimCap - sims') <= pool'
  BY <1>1, <1>2, <1>3
<1>5. DOMAIN tree' # {} /\ IsTree(tree')
  BY <1>3 DEF Shaped
<1>6. TypeOK'
  BY <1>1, <1>2, <1>4, <1>5 DEF TypeOK, IsTree
<1> QED BY <1>1, <1>3, <1>4, <1>6 DEF ShapeInv, Shaped, IsTree

LEMMA SimulateSound ==
  ASSUME ShapeInv, SoundInv, Simulate
  PROVE  SoundInv'
<1>1. /\ mode # "idle" /\ UNCHANGED <<board, hist, cache, mode, color, allowed, pool>>
  BY SimulateCases
<1>2. TypeOK /\ Shaped(tree) /\ Sound(tree, color, StonesOf(hist)) /\ RootIsComplete
  BY <1>1 DEF ShapeInv, SoundInv
<1>3. /\ Sound(tree', color, StonesOf(hist))
      /\ EmptyIn(StonesAt(<<>>)) \cap allowed \subseteq tree'[<<>>].untested \cup TriedIn(tree', <<>>)
  <2>0. <<>> \in DOMAIN tree
    BY <1>2 DEF Shaped
  <2>1. PICK p \in DOMAIN tree :
               \/ Len(p) = MaxDepth /\ tree' = Visited(tree, p) /\ arcs' = arcs
               \/ \E m \in NextMoves(p) : /\ Len(p) < MaxDepth
                                          /\ tree' = Visited(Grown(p, m), Append(p, m))
                                          /\ arcs' = arcs + 1
    BY SimulateCases
  <2>2. CASE tree' = Visited(tree, p)
    <3>1. Sound(tree', color, StonesOf(hist))
      BY <1>2, <2>2, VisitedSound
    <3>2. DOMAIN tree' = DOMAIN tree /\ tree'[<<>>].untested = tree[<<>>].untested
      BY <1>2, <2>0, <2>2, VisitedFacts
    <3> QED BY <1>2, <3>1, <3>2 DEF RootIsComplete, TriedIn
  <2>3. ASSUME NEW m \in NextMoves(p), Len(p) < MaxDepth,
               tree' = Visited(Grown(p, m), Append(p, m))
        PROVE  /\ Sound(tree', color, StonesOf(hist))
               /\ EmptyIn(StonesAt(<<>>)) \cap allowed
                     \subseteq tree'[<<>>].untested \cup TriedIn(tree', <<>>)
    <3>1. /\ Shaped(Grown(p, m)) /\ Sound(Grown(p, m), color, StonesOf(hist))
          /\ EmptyIn(StonesAt(<<>>)) \cap allowed
               \subseteq Grown(p, m)[<<>>].untested \cup TriedIn(Grown(p, m), <<>>)
      BY <1>2, <2>3, GrownShaped, GrownSound
    <3>2. Sound(tree', color, StonesOf(hist))
      BY <2>3, <3>1, VisitedSound
    <3>3. DOMAIN tree' = DOMAIN Grown(p, m)
          /\ tree'[<<>>].untested = Grown(p, m)[<<>>].untested
      <4>1. <<>> \in DOMAIN Grown(p, m)
        BY <3>1 DEF Shaped
      <4> QED BY <2>3, <3>1, <4>1, VisitedFacts
    <3> QED BY <3>1, <3>2, <3>3 DEF TriedIn
  <2> QED BY <2>1, <2>2, <2>3
<1>4. Sound(cache.tree, cache.color, cache.stones) \/ ~cache.have
  BY DEF SoundInv
<1> QED BY <1>1, <1>3, <1>4 DEF SoundInv, RootIsComplete, Sound, SoundAt, EmptyIn, StonesOf,
        StonesAlong, StonesAt, TriedIn

-----------------------------------------------------------------------------
(* The end of a search.                                                    *)

LEMMA StoreFacts ==
  ASSUME ShapeInv, mode # "idle", Store
  PROVE  /\ cache'.have \in BOOLEAN
         /\ cache'.have => /\ Shaped(cache'.tree) /\ cache'.stones = StonesOf(hist)
                           /\ Cardinality(DOMAIN cache'.tree) \in 1 .. CacheCap
                           /\ cache'.color = color /\ cache'.at = Len(hist)
         /\ SoundInv => (cache'.have => Sound(cache'.tree, cache'.color, cache'.stones))
<1>1. TypeOK /\ Shaped(tree) /\ CacheCap \in Nat \ {0}
  BY ReuseAssumption DEF ShapeInv
<1>2. CASE cache' = [have |-> FALSE]
  BY <1>2
<1>3. ASSUME NEW K \in Cuts(tree, CacheCap),
             cache' = [have |-> TRUE, tree |-> CopyOf(tree, K), color |-> color,
                       at |-> Len(hist), stones |-> StonesOf(hist)]
      PROVE  /\ cache'.have \in BOOLEAN /\ Shaped(cache'.tree) /\ cache'.stones = StonesOf(hist)
             /\ Cardinality(DOMAIN cache'.tree) \in 1 .. CacheCap
             /\ cache'.color = color /\ cache'.at = Len(hist)
             /\ SoundInv => Sound(cache'.tree, cache'.color, cache'.stones)
  <2>1. Part(tree, K) /\ Cardinality(K) \in 1 .. CacheCap
    BY <1>1, CutFacts DEF Part
  <2>2. Shaped(CopyOf(tree, K)) /\ DOMAIN CopyOf(tree, K) = K
    BY <1>1, <2>1, CopyShaped DEF CopyOf
  <2>3. SoundInv => Sound(CopyOf(tree, K), color, StonesOf(hist))
    BY <1>1, <2>1, CopySound DEF SoundInv
  <2> QED BY <1>3, <2>1, <2>2, <2>3
<1> QED BY <1>2, <1>3 DEF Store

LEMMA FinishShape ==
  ASSUME ShapeInv, Finish
  PROVE  ShapeInv'
<1>1. /\ mode # "idle" /\ Store /\ mode' = "idle" /\ color' = "black" /\ allowed' = {}
      /\ tree' = <<>> /\ pool' = 0 /\ arcs' = 0 /\ sims' = 0 /\ board' = board
      /\ IF mode = "genmove"
         THEN \E m \in EmptyIn(StonesOf(hist)) \cup {Pass} :
                 hist' = Append(hist, [color |-> color, move |-> m])
         ELSE hist' = hist
  BY DEF Finish
<1>2. TypeOK /\ MaxHist \in Nat /\ SimCap \in Nat /\ Len(hist) \in Nat /\ Len(hist) <= MaxHist
      /\ StonesOf(hist) \subseteq Colors \X Points /\ color \in Colors
  BY ReuseAssumption, StonesType DEF ShapeInv, TypeOK
<1>3. hist' \in Seq([color : Colors, move : Points \cup {Pass}]) /\ Len(hist') <= MaxHist
  <2>1. CASE mode = "genmove"
    <3>1. PICK m \in EmptyIn(StonesOf(hist)) \cup {Pass} :
                 hist' = Append(hist, [color |-> color, move |-> m])
      BY <1>1, <2>1
    <3>2. Len(hist) < MaxHist
      BY <2>1 DEF ShapeInv
    <3>3. /\ hist' \in Seq([color : Colors, move : Points \cup {Pass}])
          /\ Len(hist') = Len(hist) + 1
      BY <1>2, <3>1, HistoryGrows
    <3> QED BY <1>2, <3>2, <3>3
  <2>2. CASE mode # "genmove"
    BY <1>1, <1>2, <2>2 DEF TypeOK
  <2> QED BY <2>1, <2>2
<1>4. /\ cache'.have \in BOOLEAN
      /\ cache'.have => /\ Shaped(cache'.tree) /\ IsTree(cache'.tree)
                        /\ cache'.stones \subseteq Colors \X Points
                        /\ Cardinality(DOMAIN cache'.tree) \in 1 .. CacheCap
                        /\ cache'.color \in Colors /\ cache'.at \in 0 .. MaxHist
  <2>1. Len(hist) \in 0 .. MaxHist
    BY <1>2
  <2> QED BY <1>1, <1>2, <2>1, StoreFacts DEF Shaped
<1>5. IsTree(tree') /\ DOMAIN tree' = {}
  BY <1>1 DEF IsTree
<1>6. TypeOK'
  BY <1>1, <1>2, <1>3, <1>4, <1>5 DEF TypeOK, IsTree, Colors
<1> QED BY <1>1, <1>4, <1>6 DEF ShapeInv, Shaped, IsTree

LEMMA FinishSound ==
  ASSUME ShapeInv, SoundInv, Finish
  PROVE  SoundInv'
<1>1. mode # "idle" /\ Store /\ mode' = "idle" /\ board' = board
  BY DEF Finish
<1>2. cache'.have => Sound(cache'.tree, cache'.color, cache'.stones)
  BY <1>1, StoreFacts
<1> QED BY <1>1, <1>2 DEF SoundInv, Sound, SoundAt, EmptyIn, TriedIn

-----------------------------------------------------------------------------
(* The GTP commands.                                                       *)

(* Between searches, whatever the game becomes.                            *)
LEMMA IdleShape ==
  ASSUME ShapeInv, mode = "idle", UNCHANGED <<cache, searchVars>>, board' \in Boards,
         hist' \in Seq([color : Colors, move : Points \cup {Pass}]), Len(hist') <= MaxHist
  PROVE  ShapeInv'
<1>1. UNCHANGED <<cache, mode, color, allowed, tree, pool, arcs, sims>>
  BY DEF searchVars
<1>2. TypeOK'
  BY <1>1 DEF ShapeInv, TypeOK, IsTree
<1> QED BY <1>1, <1>2 DEF ShapeInv, Shaped, IsTree

LEMMA IdleSound ==
  ASSUME SoundInv, mode = "idle", UNCHANGED <<cache, searchVars>>, board' = board
  PROVE  SoundInv'
BY DEF SoundInv, searchVars, Sound, SoundAt, EmptyIn, TriedIn

LEMMA PlayHistory ==
  ASSUME ShapeInv, NEW c \in Colors, Play(c)
  PROVE  /\ hist' \in Seq([color : Colors, move : Points \cup {Pass}]) /\ Len(hist') <= MaxHist
         /\ mode = "idle" /\ board' = board /\ UNCHANGED <<cache, searchVars>>
<1>1. /\ mode = "idle" /\ Len(hist) < MaxHist /\ board' = board /\ UNCHANGED <<cache, searchVars>>
      /\ \E m \in EmptyIn(StonesOf(hist)) \cup {Pass} :
            hist' = Append(hist, [color |-> c, move |-> m])
  BY DEF Play
<1>2. PICK m \in EmptyIn(StonesOf(hist)) \cup {Pass} : hist' = Append(hist, [color |-> c, move |-> m])
  BY <1>1
<1>3. TypeOK /\ Len(hist) \in Nat /\ MaxHist \in Nat
  BY ReuseAssumption, StonesType DEF ShapeInv
<1>4. /\ hist' \in Seq([color : Colors, move : Points \cup {Pass}])
      /\ Len(hist') = Len(hist) + 1
  BY <1>2, <1>3, HistoryGrows
<1> QED BY <1>1, <1>3, <1>4

LEMMA UndoHistory ==
  ASSUME ShapeInv, Undo
  PROVE  /\ hist' \in Seq([color : Colors, move : Points \cup {Pass}]) /\ Len(hist') <= MaxHist
         /\ mode = "idle" /\ board' = board /\ UNCHANGED <<cache, searchVars>>
<1> DEFINE R == [color : Colors, move : Points \cup {Pass}]
<1>1. /\ mode = "idle" /\ hist # <<>> /\ hist' = SubSeq(hist, 1, Len(hist) - 1)
      /\ board' = board /\ UNCHANGED <<cache, searchVars>>
  BY DEF Undo, Front
<1>2. hist \in Seq(R) /\ Len(hist) <= MaxHist /\ MaxHist \in Nat
  BY ReuseAssumption DEF ShapeInv, TypeOK
<1> HIDE DEF R
<1>3. Len(hist) \in Nat \ {0} /\ \A i \in 1 .. Len(hist) : hist[i] \in R
  BY <1>1, <1>2, LenProperties, EmptySeq
<1>4. \A i \in 1 .. Len(hist) - 1 : hist[i] \in R
  BY <1>3
<1>5. hist' \in Seq(R) /\ Len(hist') = Len(hist) - 1
  <2>1. SubSeq(hist, 1, Len(hist) - 1) \in Seq(R)
        /\ Len(SubSeq(hist, 1, Len(hist) - 1))
              = IF 1 <= Len(hist) - 1 THEN (Len(hist) - 1) - 1 + 1 ELSE 0
    BY <1>3, <1>4, SubSeqProperties
  <2>2. \A n \in Nat \ {0} : (IF 1 <= n - 1 THEN (n - 1) - 1 + 1 ELSE 0) = n - 1
    OBVIOUS
  <2> QED BY <1>1, <1>3, <2>1, <2>2
<1> QED BY <1>1, <1>2, <1>3, <1>5 DEF R

(* The only steps are a search's start, its simulations and its end, and   *)
(* the commands between searches.                                          *)
LEMMA StepCases ==
  ASSUME ShapeInv, Next
  PROVE  \/ \E kind \in Kinds, c \in Colors, points \in SUBSET board :
               Begin(kind, c, points) /\ (kind = "genmove" => Len(hist) < MaxHist)
         \/ Simulate
         \/ Finish
         \/ /\ mode = "idle" /\ UNCHANGED <<cache, searchVars>> /\ board' \in Boards
            /\ hist' \in Seq([color : Colors, move : Points \cup {Pass}])
            /\ Len(hist') <= MaxHist
<1>1. board \in Boards /\ MaxHist \in Nat /\ <<>> \in Seq([color : Colors, move : Points \cup {Pass}])
      /\ Len(<<>>) <= MaxHist
  <2>1. MaxHist \in Nat
    BY ReuseAssumption
  <2> QED BY <2>1 DEF ShapeInv, TypeOK
<1>2. ASSUME NEW c \in Colors, Genmove(c)
      PROVE  Begin("genmove", c, board) /\ Len(hist) < MaxHist /\ "genmove" \in Kinds
  BY <1>2 DEF Genmove, Kinds
<1>3. ASSUME NEW c \in Colors, Analyse(c) PROVE Begin("analyse", c, board) /\ "analyse" \in Kinds
  BY <1>3 DEF Analyse, Kinds
<1>4. ASSUME NEW c \in Colors, NEW points \in SUBSET board, RestrictedGenmove(c, points)
      PROVE  Begin("analyse", c, points) /\ "analyse" \in Kinds
  BY <1>4 DEF RestrictedGenmove, Kinds
<1>5. ASSUME NEW c \in Colors, Play(c)
      PROVE  /\ mode = "idle" /\ UNCHANGED <<cache, searchVars>> /\ board' \in Boards
             /\ hist' \in Seq([color : Colors, move : Points \cup {Pass}])
             /\ Len(hist') <= MaxHist
  BY <1>1, <1>5, PlayHistory
<1>6. ASSUME Undo
      PROVE  /\ mode = "idle" /\ UNCHANGED <<cache, searchVars>> /\ board' \in Boards
             /\ hist' \in Seq([color : Colors, move : Points \cup {Pass}])
             /\ Len(hist') <= MaxHist
  BY <1>1, <1>6, UndoHistory
<1>7. ASSUME ClearBoard \/ \E B \in Boards : Boardsize(B)
      PROVE  /\ mode = "idle" /\ UNCHANGED <<cache, searchVars>> /\ board' \in Boards /\ hist' = <<>>
  BY <1>1, <1>7 DEF ClearBoard, Boardsize
<1>8. CASE \E c \in Colors : Genmove(c) \/ Analyse(c) \/ Play(c)
  <2>1. PICK c \in Colors : Genmove(c) \/ Analyse(c) \/ Play(c)
    BY <1>8
  <2>2. board \in SUBSET board
    OBVIOUS
  <2> QED BY <1>2, <1>3, <1>5, <2>1, <2>2
<1>9. CASE \E c \in Colors, points \in SUBSET board \ {{}, board} : RestrictedGenmove(c, points)
  <2>1. PICK c \in Colors, points \in SUBSET board : RestrictedGenmove(c, points)
    BY <1>9
  <2>2. Begin("analyse", c, points) /\ "analyse" \in Kinds /\ "analyse" # "genmove"
    BY <1>4, <2>1
  <2> QED BY <2>2
<1> QED BY <1>1, <1>6, <1>7, <1>8, <1>9 DEF Next

LEMMA ShapeInit ==
  ASSUME Init
  PROVE  ShapeInv
<1>1. /\ board \in Boards /\ hist = <<>> /\ cache = [have |-> FALSE]
      /\ mode = "idle" /\ color = "black" /\ allowed = {} /\ tree = <<>>
      /\ pool = 0 /\ arcs = 0 /\ sims = 0
  BY DEF Init
<1>2. SimCap \in Nat /\ MaxHist \in Nat
  BY ReuseAssumption
<1>3. IsTree(tree) /\ DOMAIN tree = {} /\ Len(hist) <= MaxHist
      /\ hist \in Seq([color : Colors, move : Points \cup {Pass}]) /\ 0 \in 0 .. SimCap
      /\ cache.have = FALSE
  BY <1>1, <1>2 DEF IsTree
<1>4. TypeOK
  BY <1>1, <1>3 DEF TypeOK, Colors
<1> QED BY <1>1, <1>3, <1>4 DEF ShapeInv

LEMMA ShapeStep ==
  ASSUME ShapeInv, [Next]_vars
  PROVE  ShapeInv'
<1>1. CASE UNCHANGED vars
  BY <1>1 DEF vars, gameVars, searchVars, ShapeInv, TypeOK, Shaped, IsTree
<1>2. CASE Next
  BY <1>2, StepCases, BeginShape, SimulateShape, FinishShape, IdleShape
<1> QED BY <1>1, <1>2

LEMMA SoundStep ==
  ASSUME ShapeInv, SoundInv, [Next]_vars, [board' = board]_vars
  PROVE  SoundInv'
<1>1. CASE UNCHANGED vars
  BY <1>1 DEF vars, gameVars, searchVars, SoundInv, RootIsComplete, Sound, SoundAt, EmptyIn,
        StonesOf, StonesAlong, StonesAt, TriedIn
<1>2. CASE Next
  <2>1. ASSUME mode = "idle", UNCHANGED <<cache, searchVars>>, board' \in Boards
        PROVE  SoundInv'
    <3>1. board' = board
      BY DEF vars, gameVars
    <3> QED BY <2>1, <3>1, IdleSound
  <2> QED BY <1>2, <2>1, StepCases, BeginSound, SimulateSound, FinishSound
<1> QED BY <1>1, <1>2

-----------------------------------------------------------------------------
(* Every variable keeps its type, on any boards: in particular every tree, *)
(* a search's or the cached one, stays closed under parents, no deeper     *)
(* than UCT_MAX_SEARCH_DEPTH, and the cached one within its node cap.      *)
THEOREM Typing == Spec => []TypeOK
<1>1. Init => ShapeInv
  BY ShapeInit
<1>2. ShapeInv /\ [Next]_vars => ShapeInv'
  BY ShapeStep
<1>3. ShapeInv => TypeOK
  BY DEF ShapeInv
<1> QED BY <1>1, <1>2, <1>3, PTL DEF Spec

(* "The fresh simulation budget stays untouched": on any boards, with any  *)
(* reserve and caps, the arcs a graft takes leave one for every simulation *)
(* of the budget.                                                          *)
THEOREM BudgetFitsAlways == Spec => []BudgetFits
<1>1. Init => ShapeInv
  BY ShapeInit
<1>2. ShapeInv /\ [Next]_vars => ShapeInv'
  BY ShapeStep
<1>3. ShapeInv => BudgetFits
  BY DEF ShapeInv, BudgetFits
<1> QED BY <1>1, <1>2, <1>3, PTL DEF Spec

(* While the board keeps its size, what is stored, cut, stored again and   *)
(* grafted is sound for the position it is used in.                        *)
THEOREM SoundAlways == Spec /\ KeepsTheBoard => [](ShapeInv /\ SoundInv)
<1>1. Init => ShapeInv /\ SoundInv
  BY ShapeInit DEF Init, SoundInv
<1>2. ShapeInv /\ SoundInv /\ [Next]_vars /\ [board' = board]_vars => (ShapeInv /\ SoundInv)'
  BY ShapeStep, SoundStep
<1> QED BY <1>1, <1>2, PTL DEF Spec, KeepsTheBoard

(* "The graft must leave every dropped move as merely not tried yet":      *)
(* while the board keeps its size, no move of a node is ever lost, and     *)
(* none is both untested and tried.                                        *)
THEOREM NoMoveIsLostAlways == Spec /\ KeepsTheBoard => []NoMoveIsLost
<1>1. ASSUME ShapeInv, SoundInv PROVE NoMoveIsLost
  <2> SUFFICES ASSUME NEW p \in DOMAIN tree
               PROVE  /\ EmptyIn(StonesAt(p)) \cap (IF p = <<>> THEN allowed ELSE board)
                            \subseteq tree[p].untested \cup Tried(p)
                      /\ tree[p].untested \cap Tried(p) = {}
    BY DEF NoMoveIsLost
  <2>1. mode # "idle"
    BY <1>1 DEF ShapeInv, TypeOK
  <2>2. SoundAt(tree, color, StonesOf(hist), p) /\ RootIsComplete
    BY <1>1, <2>1 DEF SoundInv, Sound
  <2>3. Tried(p) = TriedIn(tree, p)
    BY DEF Tried, TriedIn, Moves
  <2>4. CASE p = <<>>
    BY <2>2, <2>3, <2>4 DEF RootIsComplete, SoundAt
  <2>5. CASE p # <<>>
    BY <2>2, <2>3, <2>5 DEF StonesAt, SoundAt
  <2> QED BY <2>4, <2>5
<1>2. ShapeInv /\ SoundInv => NoMoveIsLost
  BY <1>1
<1> QED BY <1>2, SoundAlways, PTL

(* "The hash check makes staleness structurally impossible": while the     *)
(* board keeps its size, every simulation counted in a node was one of     *)
(* the node's own position with the same player to move.                   *)
THEOREM StatisticsAreOfThePositionAlways == Spec /\ KeepsTheBoard => []StatisticsAreOfThePosition
<1>1. ASSUME ShapeInv, SoundInv PROVE StatisticsAreOfThePosition
  <2> SUFFICES ASSUME NEW p \in DOMAIN tree, NEW u \in tree[p].under
               PROVE  u = Situation(p)
    BY DEF StatisticsAreOfThePosition
  <2>1. mode # "idle"
    BY <1>1 DEF ShapeInv, TypeOK
  <2>2. SoundAt(tree, color, StonesOf(hist), p)
    BY <1>1, <2>1 DEF SoundInv, Sound
  <2> QED BY <2>2 DEF SoundAt, Situation, StonesAt
<1>2. ShapeInv /\ SoundInv => StatisticsAreOfThePosition
  BY <1>1
<1> QED BY <1>2, SoundAlways, PTL
=============================================================================
