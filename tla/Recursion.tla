------------------------------ MODULE Recursion ------------------------------
(***************************************************************************)
(* What the proofs about loops rest on: a set of numbers has a least one,  *)
(* and a value that is computed step by step is a function of the step.    *)
(* Each proof about a loop instantiates Stepwise with the values the loop  *)
(* takes, and then argues from the first step that would go wrong.         *)
(***************************************************************************)
EXTENDS Naturals, FiniteSets, WellFoundedInduction, TLAPS

(* One turn of a loop, on the value v that the turns before left and the   *)
(* entry x; and what is known of v after k turns over seq from base.  Both *)
(* may depend on values a, b and c that the loop does not change.          *)
CONSTANTS
    Turn(_, _, _, _, _),
    Holds(_, _, _, _, _, _, _)

LEMMA Least ==
  ASSUME NEW S \in SUBSET Nat, S # {}
  PROVE  \E m \in S : \A k \in S : m <= k
<1>1. PICK m \in S : \A k \in S : ~(<<k, m>> \in OpToRel(<, Nat))
  <2> DEFINE R == OpToRel(<, Nat)
  <2>1. IsWellFoundedOn(R, Nat)
    BY NatLessThanWellFounded
  <2> HIDE DEF R
  <2>2. \E m \in S : \A k \in S : ~(<<k, m>> \in R)
    BY <2>1, WFMin
  <2> QED BY <2>2 DEF R
<1>2. \A k \in S : ~(k < m)
  BY <1>1 DEF OpToRel
<1> QED BY <1>2

(* A set of numbers that is not all of 0 .. n has a first gap.             *)
LEMMA FirstGap ==
  ASSUME NEW n \in Nat, NEW G, \E k \in 0 .. n : k \notin G
  PROVE  \E m \in 0 .. n : m \notin G /\ \A k \in 0 .. m - 1 : k \in G
<1> DEFINE S == {k \in 0 .. n : k \notin G}
<1>1. S \in SUBSET Nat /\ S # {}
  OBVIOUS
<1>2. PICK m \in S : \A k \in S : m <= k
  <2> HIDE DEF S
  <2> QED BY <1>1, Least
<1>3. \A k \in 0 .. m - 1 : k \in 0 .. n /\ ~(m <= k)
  OBVIOUS
<1> QED BY <1>2, <1>3

(* Started in a and taken through steps 1 .. n, each a function of what    *)
(* the one before left.                                                    *)
Started(f, n, A, a) == f \in [0 .. n -> A] /\ f[0] = a
Stepped(f, n, step) == \A k \in 1 .. n : f[k] = step[k][f[k - 1]]

LEMMA Stepwise ==
  ASSUME NEW n \in Nat, NEW A, NEW a \in A, NEW step \in [1 .. n -> [A -> A]]
  PROVE  \E f : Started(f, n, A, a) /\ Stepped(f, n, step)
<1> DEFINE G == {m \in 0 .. n : \E f : Started(f, m, A, a) /\ Stepped(f, m, step)}
<1> SUFFICES ASSUME n \notin G PROVE FALSE
  OBVIOUS
<1>1. PICK m \in 0 .. n : m \notin G /\ \A k \in 0 .. m - 1 : k \in G
  <2>1. \E k \in 0 .. n : k \notin G
    OBVIOUS
  <2> HIDE DEF G
  <2> QED BY <2>1, FirstGap
<1>2. CASE m = 0
  <2> DEFINE g == [i \in 0 .. 0 |-> a]
  <2>1. Started(g, 0, A, a) /\ Stepped(g, 0, step)
    BY DEF Started, Stepped
  <2> QED BY <1>1, <1>2, <2>1
<1>3. CASE m # 0
  <2>1. m - 1 \in 0 .. m - 1 /\ m \in 1 .. n /\ m \in Nat
    BY <1>3
  <2>2. PICK f : Started(f, m - 1, A, a) /\ Stepped(f, m - 1, step)
    BY <1>1, <2>1
  <2> DEFINE g == [i \in 0 .. m |-> IF i = m THEN step[m][f[m - 1]] ELSE f[i]]
  <2>3. \A i \in 0 .. m : i # m => i \in 0 .. m - 1
    BY <2>1
  <2>4. f[m - 1] \in A /\ step[m][f[m - 1]] \in A
    BY <2>1, <2>2 DEF Started
  <2>5. Started(g, m, A, a)
    <3>1. \A i \in 0 .. m : g[i] \in A
      BY <2>2, <2>3, <2>4 DEF Started
    <3>2. 0 \in 0 .. m /\ 0 # m
      BY <1>3, <2>1
    <3> QED BY <2>2, <3>1, <3>2 DEF Started
  <2>6. Stepped(g, m, step)
    <3> SUFFICES ASSUME NEW k \in 1 .. m PROVE g[k] = step[k][g[k - 1]]
      BY DEF Stepped
    <3>1. k \in 0 .. m /\ k - 1 \in 0 .. m /\ k - 1 # m
      BY <2>1
    <3>2. g[k - 1] = f[k - 1]
      BY <3>1
    <3>3. CASE k = m
      BY <3>1, <3>2, <3>3
    <3>4. CASE k # m
      <4>1. k \in 1 .. m - 1
        BY <2>1, <3>4
      <4>2. f[k] = step[k][f[k - 1]]
        BY <2>2, <4>1 DEF Stepped
      <4> QED BY <3>1, <3>2, <3>4, <4>2
    <3> QED BY <3>3, <3>4
  <2> HIDE DEF g
  <2>7. m \in G
    BY <2>5, <2>6
  <2> QED BY <1>1, <2>7
<1> QED BY <1>2, <1>3

-----------------------------------------------------------------------------
(* A loop over a list: what each of its turns keeps, it keeps.             *)
Greatest(S) == CHOOSE x \in S : \A y \in S : x >= y

(* FoldLeft(LAMBDA v, x : Turn(a, b, c, v, x), base, seq), as it is        *)
(* defined: by the last entry.                                             *)
RestOver(a, b, c, base, seq, D, rest) ==
    [s \in SUBSET D |->
        IF s = {} THEN base ELSE Turn(a, b, c, rest[s \ {Greatest(s)}], seq[Greatest(s)])]
Rest(a, b, c, base, seq) == CHOOSE rest : rest = RestOver(a, b, c, base, seq, DOMAIN seq, rest)
Loop(a, b, c, base, seq) == Rest(a, b, c, base, seq)[DOMAIN seq]

LEMMA GreatestOf ==
  ASSUME NEW n \in Nat, NEW s \in SUBSET (1 .. n), n \in s
  PROVE  Greatest(s) = n
<1>1. n \in s /\ \A y \in s : n >= y
  OBVIOUS
<1>2. Greatest(s) \in s /\ \A y \in s : Greatest(s) >= y
  BY <1>1 DEF Greatest
<1>3. Greatest(s) \in 1 .. n /\ n >= Greatest(s) /\ Greatest(s) >= n
  BY <1>1, <1>2
<1> QED BY <1>3

(* The recursive function of a fold exists.                                *)
LEMMA RestExists ==
  ASSUME NEW a, NEW b, NEW c, NEW base, NEW seq, NEW n \in Nat, NEW D \in SUBSET (1 .. n)
  PROVE  \E rest : rest = RestOver(a, b, c, base, seq, D, rest)
<1> DEFINE Eq(it, m) == it = [s \in SUBSET (D \cap (1 .. m)) |->
                        IF s = {} THEN base ELSE Turn(a, b, c, it[s \ {Greatest(s)}], seq[Greatest(s)])]
           G == {m \in 0 .. n : \E it : Eq(it, m)}
<1>0. D = D \cap (1 .. n)
  OBVIOUS
<1> SUFFICES ASSUME n \notin G PROVE FALSE
  BY <1>0 DEF RestOver
<1>1. PICK m \in 0 .. n : m \notin G /\ \A k \in 0 .. m - 1 : k \in G
  <2> HIDE DEF G
  <2>1. \E k \in 0 .. n : k \notin G
    OBVIOUS
  <2> QED BY <2>1, FirstGap
<1>2. CASE m = 0
  <2> DEFINE it == [s \in SUBSET (D \cap (1 .. 0)) |-> base]
  <2>1. \A s \in SUBSET (D \cap (1 .. 0)) : s = {}
    OBVIOUS
  <2>2. Eq(it, 0)
    BY <2>1
  <2> QED BY <1>1, <1>2, <2>2
<1>3. CASE m # 0
  <2>1. m - 1 \in 0 .. m - 1 /\ m \in 1 .. n /\ m \in Nat
    BY <1>3
  <2>2. PICK h : Eq(h, m - 1)
    BY <1>1, <2>1
  <2> DEFINE E == D \cap (1 .. m)
             it == [s \in SUBSET E |-> IF m \in s THEN Turn(a, b, c, h[s \ {m}], seq[m]) ELSE h[s]]
  <2>3. \A s \in SUBSET E :
            it[s] = IF s = {} THEN base ELSE Turn(a, b, c, it[s \ {Greatest(s)}], seq[Greatest(s)])
    <3> TAKE s \in SUBSET E
    <3>1. CASE m \in s
      <4>1. Greatest(s) = m
        BY <2>1, <3>1, GreatestOf
      <4>2. s \ {m} \in SUBSET E /\ m \notin s \ {m}
        OBVIOUS
      <4>3. it[s \ {m}] = h[s \ {m}]
        BY <4>2
      <4>4. it[s] = Turn(a, b, c, h[s \ {m}], seq[m])
        BY <3>1
      <4> HIDE DEF it
      <4> QED BY <3>1, <4>1, <4>3, <4>4
    <3>2. CASE m \notin s
      <4>1. s \in SUBSET (D \cap (1 .. m - 1))
        BY <2>1, <3>2
      <4>2. it[s] = h[s]
        BY <3>2
      <4>3. h[s] = IF s = {} THEN base ELSE Turn(a, b, c, h[s \ {Greatest(s)}], seq[Greatest(s)])
        BY <2>2, <4>1
      <4>4. s \ {Greatest(s)} \in SUBSET E /\ m \notin s \ {Greatest(s)}
        BY <3>2
      <4>5. it[s \ {Greatest(s)}] = h[s \ {Greatest(s)}]
        BY <4>4
      <4> HIDE DEF it
      <4> QED BY <4>2, <4>3, <4>5
    <3> QED BY <3>1, <3>2
  <2>4. Eq(it, m)
    <3>1. it = [s \in SUBSET E |-> it[s]]
      OBVIOUS
    <3> HIDE DEF it
    <3> QED BY <2>3, <3>1
  <2> HIDE DEF it
  <2>5. m \in G
    BY <2>4
  <2> QED BY <1>1, <2>5
<1> QED BY <1>2, <1>3

LEMMA RestIs ==
  ASSUME NEW a, NEW b, NEW c, NEW base, NEW seq, NEW n \in Nat, DOMAIN seq \subseteq 1 .. n
  PROVE  Rest(a, b, c, base, seq) = RestOver(a, b, c, base, seq, DOMAIN seq, Rest(a, b, c, base, seq))
<1>1. PICK D : D = DOMAIN seq
  OBVIOUS
<1>2. D \in SUBSET (1 .. n)
  BY <1>1
<1>3. \E rest : rest = RestOver(a, b, c, base, seq, D, rest)
  BY <1>2, RestExists
<1>4. \E rest : rest = RestOver(a, b, c, base, seq, DOMAIN seq, rest)
  BY <1>1, <1>3
<1> QED BY <1>4 DEF Rest

(* A loop keeps what each turn of it keeps.  The entries may have gaps.    *)
LEMMA LoopKeeps ==
  ASSUME NEW a, NEW b, NEW c, NEW base, NEW n \in Nat, NEW seq, DOMAIN seq \subseteq 1 .. n,
         Holds(a, b, c, base, seq, 0, base),
         \A k \in 1 .. n : \A v : Holds(a, b, c, base, seq, k - 1, v) =>
            /\ k \in DOMAIN seq => Holds(a, b, c, base, seq, k, Turn(a, b, c, v, seq[k]))
            /\ k \notin DOMAIN seq => Holds(a, b, c, base, seq, k, v)
  PROVE  Holds(a, b, c, base, seq, n, Loop(a, b, c, base, seq))
<1> DEFINE D == DOMAIN seq
           it == Rest(a, b, c, base, seq)
           upto(m) == it[D \cap (1 .. m)]
           G == {m \in 0 .. n : Holds(a, b, c, base, seq, m, upto(m))}
<1>1. it = [s \in SUBSET D |->
              IF s = {} THEN base ELSE Turn(a, b, c, it[s \ {Greatest(s)}], seq[Greatest(s)])]
  <2>1. Rest(a, b, c, base, seq) = RestOver(a, b, c, base, seq, DOMAIN seq, Rest(a, b, c, base, seq))
    BY RestIs
  <2> QED BY <2>1 DEF RestOver
<1>0. D = D \cap (1 .. n)
  OBVIOUS
<1>7. Loop(a, b, c, base, seq) = upto(n)
  BY <1>0 DEF Loop
<1> HIDE DEF it
<1> SUFFICES ASSUME n \notin G PROVE FALSE
  BY <1>7
<1>2. PICK m \in 0 .. n : m \notin G /\ \A k \in 0 .. m - 1 : k \in G
  <2> HIDE DEF G
  <2>1. \E k \in 0 .. n : k \notin G
    OBVIOUS
  <2> QED BY <2>1, FirstGap
<1>3. CASE m = 0
  <2>1. D \cap (1 .. 0) = {}
    OBVIOUS
  <2>2. upto(0) = base
    BY <1>1, <2>1
  <2> QED BY <1>2, <1>3, <2>2
<1>4. CASE m # 0
  <2>1. m - 1 \in 0 .. m - 1 /\ m \in 1 .. n /\ m \in Nat
    BY <1>4
  <2>2. Holds(a, b, c, base, seq, m - 1, upto(m - 1))
    BY <1>2, <2>1
  <2>3. CASE m \in D
    <3>1. D \cap (1 .. m) \in SUBSET (1 .. m) /\ m \in D \cap (1 .. m)
      BY <2>1, <2>3
    <3>2. Greatest(D \cap (1 .. m)) = m
      BY <2>1, <3>1, GreatestOf
    <3>3. (D \cap (1 .. m)) \ {m} = D \cap (1 .. m - 1) /\ D \cap (1 .. m) \in SUBSET D /\ D \cap (1 .. m) # {}
      BY <2>1, <2>3
    <3>4. upto(m) = Turn(a, b, c, upto(m - 1), seq[m])
      BY <1>1, <3>2, <3>3
    <3>5. Holds(a, b, c, base, seq, m, upto(m))
      BY <2>1, <2>2, <2>3, <3>4
    <3> QED BY <1>2, <2>1, <3>5
  <2>4. CASE m \notin D
    <3>1. D \cap (1 .. m) = D \cap (1 .. m - 1)
      BY <2>1, <2>4
    <3>2. Holds(a, b, c, base, seq, m, upto(m))
      BY <2>1, <2>2, <2>4, <3>1
    <3> QED BY <1>2, <2>1, <3>2
  <2> QED BY <2>3, <2>4
<1> QED BY <1>3, <1>4
=============================================================================
