------------------------- MODULE RootDecision_proofs -------------------------
(***************************************************************************)
(* Proofs about RootDecision, for any number of workers, any moves, any    *)
(* budgets and any interval of the early stop: no simulation is counted    *)
(* twice or lost, whatever stops the workers, and the two scans of the     *)
(* child list find what they are for, whatever order the list is in.       *)
(***************************************************************************)
EXTENDS RootDecision, FiniteSetTheorems, SequenceTheorems, TLAPS

(* The loops here are followed step by step.                               *)
Steps == INSTANCE Recursion WITH Turn <- LAMBDA a, b, c, v, x : v,
                                 Holds <- LAMBDA a, b, c, base, seq, k, v : TRUE

Phases == {"test", "sim", "count", "done"}

TypeOK ==
    /\ search \in Searches
    /\ list \in Seq(Moves)
    /\ games \in [Moves -> Nat] /\ wins \in [Moves -> Nat]
    /\ sims \in [Workers -> Nat] /\ pc \in [Workers -> Phases] /\ DOMAIN at = Workers
    /\ hit \in BOOLEAN /\ round \in {1, 2}
    /\ cap = IF round = 1 THEN search.nodes ELSE search.unst

(* A simulation goes through a child of the list, and no other has visits. *)
ListInv ==
    /\ \A w \in Workers : pc[w] = "sim" => at[w] \in ToSet(list)
    /\ \A m \in Moves : games[m] > 0 => m \in ToSet(list)

(* A worker stays within its budget, and leaves off early for a hit only.  *)
BudgetInv ==
    \A w \in Workers :
        /\ sims[w] <= cap /\ (pc[w] \in {"sim", "count"} => sims[w] < cap)
        /\ pc[w] = "done" => hit \/ sims[w] = cap

(* The visits are what the workers have counted in this round, and in a    *)
(* second round at most the first one's budget besides.                    *)
VisitInv ==
    /\ round = 1 => Tally(games, Moves) = Tally(Counted, Workers)
    /\ round = 2 => Tally(games, Moves) <= Cardinality(Workers) * search.nodes + Tally(Counted, Workers)
    /\ \A m \in Moves : wins[m] <= games[m]

(* Nothing moves after the selection.                                      *)
PickInv == pick # <<>> => AllDone /\ (round = 2 \/ search.unst = 0 \/ ~Unstable)

Inv == TypeOK /\ ListInv /\ BudgetInv /\ VisitInv /\ PickInv

-----------------------------------------------------------------------------
(* Sums.                                                                   *)

Counts(f, S) == UNION {{x} \X (1 .. f[x]) : x \in S}

LEMMA CountsMembers ==
  ASSUME NEW f, NEW S
  PROVE  \A e : e \in Counts(f, S) <=> \E x \in S : \E i \in 1 .. f[x] : e = <<x, i>>
BY DEF Counts

LEMMA TallyType ==
  ASSUME NEW S, IsFiniteSet(S), NEW f, \A x \in S : f[x] \in Nat
  PROVE  IsFiniteSet(Counts(f, S)) /\ Tally(f, S) \in Nat /\ Tally(f, S) = Cardinality(Counts(f, S))
<1> DEFINE T == {{x} \X (1 .. f[x]) : x \in S}
           g == [x \in S |-> {x} \X (1 .. f[x])]
<1>1. g \in Surjection(S, T)
  BY DEF Surjection
<1>2. IsFiniteSet(T)
  <2> HIDE DEF T, g
  <2> QED BY <1>1, FS_Surjection
<1>3. \A V \in T : IsFiniteSet(V)
  <2> SUFFICES ASSUME NEW x \in S PROVE IsFiniteSet({x} \X (1 .. f[x]))
    OBVIOUS
  <2>1. IsFiniteSet({x})
    BY FS_Singleton
  <2>2. IsFiniteSet(1 .. f[x])
    <3>1. 1 \in Int /\ f[x] \in Int
      OBVIOUS
    <3> QED BY <3>1, FS_Interval
  <2> QED BY <2>1, <2>2, FS_Product
<1>4. IsFiniteSet(UNION T)
  <2> HIDE DEF T
  <2> QED BY <1>2, <1>3, FS_UNION
<1>5. IsFiniteSet(Counts(f, S)) /\ Tally(f, S) = Cardinality(Counts(f, S))
  BY <1>4 DEF Counts, Tally
<1> QED BY <1>5, FS_CardinalityType

(* One more at one place is one more in the sum.                           *)
LEMMA TallyBump ==
  ASSUME NEW S, IsFiniteSet(S), NEW f, \A y \in S : f[y] \in Nat, NEW x \in S,
         NEW g, \A y \in S : g[y] = IF y = x THEN f[y] + 1 ELSE f[y]
  PROVE  Tally(g, S) = Tally(f, S) + 1
<1> DEFINE e == <<x, f[x] + 1>>
<1>1. \A y \in S : g[y] \in Nat
  OBVIOUS
<1>2. Counts(g, S) = Counts(f, S) \cup {e}
  <2>1. ASSUME NEW d \in Counts(g, S) PROVE d \in Counts(f, S) \cup {e}
    <3>0. PICK y \in S : \E i \in 1 .. g[y] : d = <<y, i>>
      BY CountsMembers
    <3>1. PICK i \in 1 .. g[y] : d = <<y, i>>
      BY <3>0
    <3>2. CASE y = x /\ i = f[x] + 1
      BY <3>1, <3>2
    <3>3. CASE ~(y = x /\ i = f[x] + 1)
      <4>1. i \in 1 .. f[y]
        BY <3>3
      <4> QED BY <3>1, <4>1, CountsMembers
    <3> QED BY <3>2, <3>3
  <2>2. ASSUME NEW d \in Counts(f, S) PROVE d \in Counts(g, S)
    <3>0. PICK y \in S : \E i \in 1 .. f[y] : d = <<y, i>>
      BY CountsMembers
    <3>1. PICK i \in 1 .. f[y] : d = <<y, i>>
      BY <3>0
    <3>2. i \in 1 .. g[y]
      OBVIOUS
    <3> QED BY <3>1, <3>2, CountsMembers
  <2>3. e \in Counts(g, S)
    <3>1. f[x] + 1 \in 1 .. g[x]
      OBVIOUS
    <3> QED BY <3>1, CountsMembers
  <2> QED BY <2>1, <2>2, <2>3
<1>3. e \notin Counts(f, S)
  <2> SUFFICES ASSUME NEW y \in S, NEW i \in 1 .. f[y], e = <<y, i>> PROVE FALSE
    BY CountsMembers
  <2> QED OBVIOUS
<1> HIDE DEF e
<1>4. Cardinality(Counts(f, S) \cup {e}) = Cardinality(Counts(f, S)) + 1
  BY <1>3, TallyType, FS_AddElement
<1> QED BY <1>1, <1>2, <1>4, TallyType

(* Numbers of at most n, and numbers that are all n.                       *)
LEMMA TallyBound ==
  ASSUME NEW S, IsFiniteSet(S), NEW n \in Nat, NEW f, \A x \in S : f[x] \in 0 .. n
  PROVE  Tally(f, S) <= Cardinality(S) * n
<1>1. IsFiniteSet(1 .. n) /\ Cardinality(1 .. n) = n
  <2>1. 1 \in Int /\ n \in Int
    OBVIOUS
  <2>2. IsFiniteSet(1 .. n) /\ Cardinality(1 .. n) = IF 1 > n THEN 0 ELSE n - 1 + 1
    BY <2>1, FS_Interval
  <2> QED BY <2>2
<1>2. IsFiniteSet(S \X (1 .. n)) /\ Cardinality(S \X (1 .. n)) = Cardinality(S) * n
  BY <1>1, FS_Product
<1>3. Counts(f, S) \subseteq S \X (1 .. n)
  BY CountsMembers
<1>4. Cardinality(Counts(f, S)) <= Cardinality(S) * n
  BY <1>2, <1>3, FS_Subset
<1>5. \A x \in S : f[x] \in Nat
  OBVIOUS
<1> QED BY <1>4, <1>5, TallyType

LEMMA TallyConstant ==
  ASSUME NEW S, IsFiniteSet(S), NEW n \in Nat, NEW f, \A x \in S : f[x] = n
  PROVE  Tally(f, S) = Cardinality(S) * n
<1>1. IsFiniteSet(1 .. n) /\ Cardinality(1 .. n) = n
  <2>1. 1 \in Int /\ n \in Int
    OBVIOUS
  <2>2. IsFiniteSet(1 .. n) /\ Cardinality(1 .. n) = IF 1 > n THEN 0 ELSE n - 1 + 1
    BY <2>1, FS_Interval
  <2> QED BY <2>2
<1>2. Cardinality(S \X (1 .. n)) = Cardinality(S) * n
  BY <1>1, FS_Product
<1>3. Counts(f, S) = S \X (1 .. n)
  BY CountsMembers
<1>4. \A x \in S : f[x] \in Nat
  OBVIOUS
<1> QED BY <1>2, <1>3, <1>4, TallyType

-----------------------------------------------------------------------------
(* The workers.                                                            *)

LEMMA Sizes ==
  ASSUME TypeOK
  PROVE  /\ IsFiniteSet(Workers) /\ Workers # {} /\ Cardinality(Workers) \in Nat
         /\ IsFiniteSet(Moves) /\ None \notin Moves
         /\ search.nodes \in Nat /\ search.unst \in Nat /\ cap \in Nat
         /\ Counted \in [Workers -> Nat]
         /\ Tally(games, Moves) \in Nat /\ Tally(Counted, Workers) \in Nat
<1>1. /\ search.workers \subseteq AllWorkers /\ search.workers # {} /\ IsFiniteSet(search.moves)
      /\ <<>> \notin search.moves /\ search.nodes \in Nat /\ search.unst \in Nat
      /\ IsFiniteSet(AllWorkers)
  BY RootAssumption DEF TypeOK
<1>2. IsFiniteSet(Workers) /\ Cardinality(Workers) \in Nat
  BY <1>1, FS_Subset, FS_CardinalityType DEF Workers
<1>3. cap \in Nat
  BY <1>1 DEF TypeOK
<1>4. Counted \in [Workers -> Nat]
  <2> SUFFICES ASSUME NEW w \in Workers
               PROVE  sims[w] + (IF pc[w] = "count" THEN 1 ELSE 0) \in Nat
    BY DEF Counted
  <2>1. sims[w] \in Nat
    BY DEF TypeOK
  <2> QED BY <2>1
<1>5. Tally(games, Moves) \in Nat
  <2>1. IsFiniteSet(Moves) /\ \A m \in Moves : games[m] \in Nat
    BY <1>1 DEF TypeOK, Moves
  <2> QED BY <2>1, TallyType
<1>6. Tally(Counted, Workers) \in Nat
  <2>1. \A w \in Workers : Counted[w] \in Nat
    BY <1>4
  <2> HIDE DEF Workers
  <2> QED BY <1>2, <2>1, TallyType
<1> QED BY <1>1, <1>2, <1>3, <1>4, <1>5, <1>6 DEF Workers, Moves, None

LEMMA ListGrows ==
  ASSUME TypeOK, NEW m \in Moves
  PROVE  /\ <<m>> \o list \in Seq(Moves)
         /\ ToSet(<<m>> \o list) = {m} \cup ToSet(list)
<1> DEFINE l == <<m>> \o list
<1>1. list \in Seq(Moves) /\ <<m>> \in Seq(Moves) /\ Len(list) \in Nat /\ DOMAIN list = 1 .. Len(list)
  BY LenProperties DEF TypeOK
<1>2. /\ l \in Seq(Moves) /\ Len(l) = 1 + Len(list)
      /\ \A i \in 1 .. 1 + Len(list) : l[i] = IF i <= 1 THEN m ELSE list[i - 1]
  BY <1>1, ConcatProperties
<1>3. DOMAIN l = 1 .. 1 + Len(list)
  BY <1>2, LenProperties
<1> HIDE DEF l
<1>4. m \in ToSet(l)
  <2>1. 1 \in DOMAIN l /\ l[1] = m
    BY <1>1, <1>2, <1>3
  <2> QED BY <2>1 DEF ToSet
<1>5. ASSUME NEW i \in DOMAIN list PROVE list[i] \in ToSet(l)
  <2>1. i + 1 \in DOMAIN l /\ ~(i + 1 <= 1) /\ (i + 1) - 1 = i
    BY <1>1, <1>3
  <2>2. l[i + 1] = list[i]
    BY <1>2, <1>3, <2>1
  <2> QED BY <2>1, <2>2 DEF ToSet
<1>6. ASSUME NEW i \in DOMAIN l PROVE l[i] \in {m} \cup ToSet(list)
  <2>1. CASE i <= 1
    BY <1>2, <1>3, <2>1
  <2>2. CASE ~(i <= 1)
    <3>1. i - 1 \in DOMAIN list /\ l[i] = list[i - 1]
      BY <1>1, <1>2, <1>3, <2>2
    <3> QED BY <3>1 DEF ToSet
  <2> QED BY <2>1, <2>2
<1>7. ToSet(l) = {m} \cup ToSet(list)
  BY <1>4, <1>5, <1>6 DEF ToSet
<1> QED BY <1>2, <1>7 DEF l

LEMMA StartSimStep ==
  ASSUME Inv, NEW w \in Workers, StartSim(w)
  PROVE  Inv'
<1>1. /\ pc[w] = "test" /\ sims[w] < cap /\ pc' = [pc EXCEPT ![w] = "sim"]
      /\ UNCHANGED <<search, games, wins, sims, cap, hit, round, pick>>
  BY DEF StartSim
<1>2. PICK m \in Moves : /\ list' = IF m \in ToSet(list) THEN list ELSE <<m>> \o list
                         /\ at' = [at EXCEPT ![w] = m]
  BY DEF StartSim
<1>3. /\ list' \in Seq(Moves) /\ m \in ToSet(list')
      /\ \A x \in ToSet(list) : x \in ToSet(list')
  BY <1>2, ListGrows DEF Inv, TypeOK
<1>4. \A v \in Workers : /\ pc'[v] = IF v = w THEN "sim" ELSE pc[v]
                         /\ at'[v] = IF v = w THEN m ELSE at[v]
  BY <1>1, <1>2 DEF Inv, TypeOK
<1>5. TypeOK'
  BY <1>1, <1>2, <1>3 DEF Inv, TypeOK, Workers, Moves, Phases
<1>6. ListInv'
  BY <1>1, <1>3, <1>4 DEF Inv, ListInv, Workers, Moves
<1>7. BudgetInv'
  BY <1>1, <1>4 DEF Inv, BudgetInv, Workers
<1>8. Counted' = Counted
  BY <1>1, <1>4 DEF Counted, Workers
<1>9. VisitInv'
  BY <1>1, <1>8 DEF Inv, VisitInv, Tally, Workers, Moves
<1>10. PickInv'
  BY <1>1 DEF Inv, PickInv, AllDone
<1> QED BY <1>5, <1>6, <1>7, <1>9, <1>10 DEF Inv

LEMMA LeaveLoopStep ==
  ASSUME Inv, NEW w \in Workers, LeaveLoop(w)
  PROVE  Inv'
<1>1. /\ pc[w] = "test" /\ (hit \/ sims[w] >= cap) /\ pc' = [pc EXCEPT ![w] = "done"]
      /\ UNCHANGED <<search, list, games, wins, sims, at, cap, hit, round, pick>>
  BY DEF LeaveLoop
<1>2. \A v \in Workers : pc'[v] = IF v = w THEN "done" ELSE pc[v]
  BY <1>1 DEF Inv, TypeOK
<1>3. TypeOK'
  BY <1>1 DEF Inv, TypeOK, Workers, Moves, Phases
<1>4. ListInv'
  BY <1>1, <1>2 DEF Inv, ListInv, Workers, Moves
<1>5. BudgetInv'
  <2>1. hit \/ sims[w] = cap
    <3>1. sims[w] \in Nat /\ cap \in Nat /\ sims[w] <= cap
      BY Sizes DEF Inv, TypeOK, BudgetInv
    <3> QED BY <1>1, <3>1
  <2> QED BY <1>1, <1>2, <2>1 DEF Inv, BudgetInv, Workers
<1>6. Counted' = Counted
  BY <1>1, <1>2 DEF Counted, Workers
<1>7. VisitInv'
  BY <1>1, <1>6 DEF Inv, VisitInv, Tally, Workers, Moves
<1>8. PickInv'
  BY <1>1 DEF Inv, PickInv, AllDone
<1> QED BY <1>3, <1>4, <1>5, <1>7, <1>8 DEF Inv

LEMMA BackUpStep ==
  ASSUME Inv, NEW w \in Workers, BackUp(w)
  PROVE  Inv'
<1>1. /\ pc[w] = "sim" /\ games' = [games EXCEPT ![at[w]] = @ + 1]
      /\ pc' = [pc EXCEPT ![w] = "count"] /\ at' = [at EXCEPT ![w] = <<>>]
      /\ UNCHANGED <<search, list, sims, cap, hit, round, pick>>
  BY DEF BackUp
<1>2. PICK won \in {0, 1} : wins' = [wins EXCEPT ![at[w]] = @ + won]
  BY DEF BackUp
<1>3. at[w] \in Moves /\ at[w] \in ToSet(list)
  <2>1. at[w] \in ToSet(list) /\ list \in Seq(Moves)
    BY <1>1 DEF Inv, ListInv, TypeOK
  <2>2. DOMAIN list = 1 .. Len(list) /\ \A i \in 1 .. Len(list) : list[i] \in Moves
    BY <2>1, LenProperties
  <2> QED BY <2>1, <2>2 DEF ToSet
<1>4. \A m \in Moves : /\ games[m] \in Nat /\ wins[m] \in Nat
                       /\ games'[m] = IF m = at[w] THEN games[m] + 1 ELSE games[m]
                       /\ wins'[m] = IF m = at[w] THEN wins[m] + won ELSE wins[m]
  BY <1>1, <1>2 DEF Inv, TypeOK
<1>5. \A v \in Workers : /\ pc'[v] = IF v = w THEN "count" ELSE pc[v]
                         /\ v # w => at'[v] = at[v]
  BY <1>1 DEF Inv, TypeOK
<1>6. TypeOK'
  <2>1. games' \in [Moves -> Nat] /\ wins' \in [Moves -> Nat]
    <3>1. DOMAIN games' = Moves /\ DOMAIN wins' = Moves
      BY <1>1, <1>2 DEF Inv, TypeOK
    <3>2. \A m \in Moves : games'[m] \in Nat /\ wins'[m] \in Nat
      BY <1>4
    <3>3. /\ games' = [m \in Moves |-> games'[m]] /\ wins' = [m \in Moves |-> wins'[m]]
      BY <1>1, <1>2, <3>1 DEF Inv, TypeOK
    <3> QED BY <3>2, <3>3
  <2> QED BY <1>1, <2>1 DEF Inv, TypeOK, Workers, Moves, Phases
<1>7. ListInv'
  BY <1>1, <1>3, <1>4, <1>5 DEF Inv, ListInv, Workers, Moves
<1>8. BudgetInv'
  BY <1>1, <1>5 DEF Inv, BudgetInv, Workers
<1>9. VisitInv'
  <2>1. Tally(games', Moves) = Tally(games, Moves) + 1
    BY <1>3, <1>4, Sizes, TallyBump DEF Inv
  <2>2. Tally(Counted', Workers) = Tally(Counted, Workers) + 1
    <3>1. \A v \in Workers : Counted[v] \in Nat
      BY Sizes DEF Inv
    <3>2. \A v \in Workers : Counted'[v] = IF v = w THEN Counted[v] + 1 ELSE Counted[v]
      BY <1>1, <1>5 DEF Counted, Workers, Inv, TypeOK
    <3> HIDE DEF Counted, Workers
    <3> QED BY <3>1, <3>2, Sizes, TallyBump DEF Inv
  <2>3. Tally(games, Moves)' = Tally(games', Moves) /\ Tally(Counted, Workers)' = Tally(Counted', Workers)
    BY <1>1 DEF Tally, Moves, Workers
  <2>4. \A m \in Moves : wins'[m] <= games'[m]
    BY <1>4 DEF Inv, VisitInv
  <2>5. round = 1 => Tally(games', Moves) = Tally(Counted', Workers)
    BY <2>1, <2>2 DEF Inv, VisitInv
  <2>6. round = 2 => Tally(games', Moves) <= Cardinality(Workers) * search.nodes + Tally(Counted', Workers)
    <3> DEFINE x == Cardinality(Workers) * search.nodes
               y == Tally(games, Moves)
               z == Tally(Counted, Workers)
    <3>1. round = 2 => y <= x + z
      BY DEF Inv, VisitInv
    <3>2. y \in Nat /\ z \in Nat /\ x \in Nat
      BY Sizes DEF Inv
    <3> HIDE DEF x, y, z
    <3>3. y <= x + z => y + 1 <= x + (z + 1)
      BY <3>2
    <3> QED BY <2>1, <2>2, <3>1, <3>3 DEF x, y, z
  <2> QED BY <1>1, <2>3, <2>4, <2>5, <2>6 DEF VisitInv, Moves, Workers
<1>10. PickInv'
  BY <1>1 DEF Inv, PickInv, AllDone
<1> QED BY <1>6, <1>7, <1>8, <1>9, <1>10 DEF Inv

LEMMA CountStep ==
  ASSUME Inv, NEW w \in Workers, Count(w)
  PROVE  Inv'
<1>1. /\ pc[w] = "count" /\ sims' = [sims EXCEPT ![w] = sims[w] + 1]
      /\ hit' = (hit \/ (MayStop(sims[w] + 1) /\ Decided((cap - (sims[w] + 1)) * Cardinality(Workers))))
      /\ pc' = [pc EXCEPT ![w] = "test"]
      /\ UNCHANGED <<search, list, games, wins, at, cap, round, pick>>
  BY DEF Count
<1>2. hit' \in BOOLEAN /\ (hit => hit')
  <2>1. \A d : (hit \/ d) \in BOOLEAN /\ (hit => (hit \/ d))
    OBVIOUS
  <2> QED BY <1>1, <2>1
<1>3. \A v \in Workers : /\ pc'[v] = IF v = w THEN "test" ELSE pc[v]
                         /\ sims[v] \in Nat
                         /\ sims'[v] = IF v = w THEN sims[v] + 1 ELSE sims[v]
  BY <1>1 DEF Inv, TypeOK
<1>4. TypeOK'
  <2>1. sims' \in [Workers -> Nat]
    BY <1>1 DEF Inv, TypeOK
  <2> QED BY <1>1, <1>2, <2>1 DEF Inv, TypeOK, Workers, Moves, Phases
<1>5. ListInv'
  BY <1>1, <1>3 DEF Inv, ListInv, Workers, Moves
<1>6. BudgetInv'
  <2> SUFFICES ASSUME NEW v \in Workers
               PROVE  /\ sims'[v] <= cap /\ (pc'[v] \in {"sim", "count"} => sims'[v] < cap)
                      /\ pc'[v] = "done" => hit' \/ sims'[v] = cap
    BY <1>1 DEF BudgetInv, Workers
  <2>1. cap \in Nat /\ (pc[v] = "count" => sims[v] < cap)
    BY Sizes DEF Inv, BudgetInv
  <2>2. CASE v = w
    BY <1>1, <1>3, <2>1, <2>2
  <2>3. CASE v # w
    BY <1>2, <1>3, <2>3 DEF Inv, BudgetInv
  <2> QED BY <2>2, <2>3
<1>7. Counted' = Counted
  <2>1. \A v \in Workers : sims'[v] + (IF pc'[v] = "count" THEN 1 ELSE 0)
                           = sims[v] + (IF pc[v] = "count" THEN 1 ELSE 0)
    BY <1>1, <1>3
  <2> QED BY <1>1, <2>1 DEF Counted, Workers
<1>8. VisitInv'
  BY <1>1, <1>7 DEF Inv, VisitInv, Tally, Workers, Moves
<1>9. PickInv'
  BY <1>1 DEF Inv, PickInv, AllDone
<1> QED BY <1>4, <1>5, <1>6, <1>8, <1>9 DEF Inv

LEMMA ExtendStep ==
  ASSUME Inv, Extend
  PROVE  Inv'
<1>1. /\ AllDone /\ round = 1 /\ search.unst > 0 /\ Unstable /\ round' = 2 /\ hit' = FALSE
      /\ cap' = search.unst /\ sims' = [w \in Workers |-> 0] /\ pc' = [w \in Workers |-> "test"]
      /\ UNCHANGED <<search, list, games, wins, at, pick>>
  BY DEF Extend
<1>2. pick = <<>>
  <2>1. search.unst \in Nat
    BY Sizes DEF Inv
  <2> QED BY <1>1, <2>1 DEF Inv, PickInv
<1>3. TypeOK'
  <2>1. sims' \in [Workers -> Nat] /\ pc' \in [Workers -> Phases]
    BY <1>1 DEF Phases
  <2>2. cap' = IF round' = 1 THEN search.nodes ELSE search.unst
    BY <1>1
  <2>3. hit' \in BOOLEAN /\ round' \in {1, 2}
    BY <1>1
  <2> QED BY <1>1, <2>1, <2>2, <2>3 DEF Inv, TypeOK, Workers, Moves
<1>4. ListInv'
  BY <1>1 DEF Inv, ListInv, Workers, Moves
<1>5. BudgetInv'
  BY <1>1, Sizes DEF Inv, BudgetInv, Workers
<1>6. VisitInv'
  <2>1. Tally(Counted, Workers) <= Cardinality(Workers) * search.nodes
    <3>1. \A w \in Workers : Counted[w] \in 0 .. search.nodes
      <4> TAKE w \in Workers
      <4>1. sims[w] \in Nat /\ sims[w] <= cap /\ cap = search.nodes
        BY <1>1 DEF Inv, TypeOK, BudgetInv
      <4>2. Counted[w] = sims[w]
        BY <1>1, <4>1 DEF Counted, AllDone
      <4> QED BY <4>1, <4>2, Sizes DEF Inv
    <3> HIDE DEF Counted, Workers
    <3> QED BY <3>1, Sizes, TallyBound DEF Inv
  <2>2. Tally(Counted, Workers)' \in Nat
    <3>1. \A w \in Workers : Counted'[w] = 0
      BY <1>1 DEF Counted, Workers
    <3>2. Tally(Counted', Workers) \in Nat
      <4> HIDE DEF Workers
      <4> QED BY <3>1, Sizes, TallyType DEF Inv
    <3>3. Workers' = Workers
      BY <1>1 DEF Workers
    <3> QED BY <3>2, <3>3 DEF Tally
  <2>3. Tally(games, Moves) = Tally(Counted, Workers) /\ Tally(games, Moves)' = Tally(games, Moves)
    BY <1>1 DEF Inv, VisitInv, Tally, Moves
  <2>4. (Cardinality(Workers) * search.nodes)' = Cardinality(Workers) * search.nodes
    BY <1>1 DEF Workers
  <2> DEFINE x == Cardinality(Workers) * search.nodes
             y == Tally(Counted, Workers)'
  <2>5. x \in Nat /\ y \in Nat /\ Tally(games, Moves) \in Nat
    BY <2>2, Sizes DEF Inv
  <2>6. Tally(games, Moves) <= x
    BY <2>1, <2>3
  <2> PICK a, b, c : a = x /\ b = y /\ c = Tally(games, Moves)
    OBVIOUS
  <2> HIDE DEF x, y
  <2>7. c <= a + b
    BY <2>5, <2>6
  <2>8. (Tally(games, Moves) <= Cardinality(Workers) * search.nodes + Tally(Counted, Workers))'
    BY <2>3, <2>4, <2>7 DEF x, y
  <2>9. \A m \in Moves : wins[m] <= games[m]
    BY DEF Inv, VisitInv
  <2> QED BY <1>1, <2>8, <2>9 DEF VisitInv, Moves
<1>7. PickInv'
  BY <1>1, <1>2 DEF PickInv
<1> QED BY <1>3, <1>4, <1>5, <1>6, <1>7 DEF Inv

LEMMA SelectStep ==
  ASSUME Inv, Select
  PROVE  Inv' /\ AllDone
<1>1. /\ AllDone /\ (round = 2 \/ search.unst = 0 \/ ~Unstable)
      /\ UNCHANGED <<search, list, games, wins, sims, pc, at, cap, hit, round>>
  BY DEF Select
<1>2. TypeOK' /\ ListInv'
  BY <1>1 DEF Inv, TypeOK, ListInv, Workers, Moves
<1>3. BudgetInv'
  BY <1>1 DEF Inv, BudgetInv, Workers
<1>4. VisitInv'
  BY <1>1 DEF Inv, VisitInv, Counted, Tally, Workers, Moves
<1>5. Unstable' = Unstable
  <2>1. UNCHANGED <<search, list, games, wins>>
    BY <1>1
  <2> QED BY <2>1 DEF Unstable, FoldLeft, MapThenFoldSet, BestRate, Runner, BetterRate
<1>6. PickInv'
  BY <1>1, <1>5 DEF PickInv, AllDone, Workers
<1> QED BY <1>1, <1>2, <1>3, <1>4, <1>6 DEF Inv

LEMMA InitInv ==
  ASSUME Init
  PROVE  Inv
<1>1. /\ search \in Searches /\ list = <<>>
      /\ games = [m \in Moves |-> 0] /\ wins = [m \in Moves |-> 0]
      /\ sims = [w \in Workers |-> 0] /\ pc = [w \in Workers |-> "test"]
      /\ at = [w \in Workers |-> <<>>]
      /\ cap = search.nodes /\ hit = FALSE /\ round = 1 /\ pick = <<>>
  BY DEF Init
<1>2. TypeOK
  <2>1. sims \in [Workers -> Nat] /\ pc \in [Workers -> Phases] /\ DOMAIN at = Workers
    BY <1>1 DEF Phases
  <2>2. games \in [Moves -> Nat] /\ wins \in [Moves -> Nat] /\ list \in Seq(Moves)
    BY <1>1
  <2>3. hit \in BOOLEAN /\ round \in {1, 2} /\ cap = IF round = 1 THEN search.nodes ELSE search.unst
    BY <1>1
  <2> QED BY <1>1, <2>1, <2>2, <2>3 DEF TypeOK
<1>3. ListInv /\ PickInv
  BY <1>1 DEF ListInv, PickInv
<1>4. BudgetInv
  BY <1>1, <1>2, Sizes DEF BudgetInv
<1>5. VisitInv
  <2>1. Tally(games, Moves) = Cardinality(Moves) * 0
    BY <1>1, <1>2, Sizes, TallyConstant
  <2>2. Tally(Counted, Workers) = Cardinality(Workers) * 0
    <3>1. \A w \in Workers : Counted[w] = 0
      BY <1>1 DEF Counted
    <3> HIDE DEF Counted
    <3> QED BY <1>2, <3>1, Sizes, TallyConstant
  <2>3. Cardinality(Moves) * 0 = 0 /\ Cardinality(Workers) * 0 = 0
    <3>1. Cardinality(Moves) \in Nat /\ Cardinality(Workers) \in Nat
      BY <1>2, Sizes, FS_CardinalityType
    <3> QED BY <3>1
  <2> QED BY <1>1, <2>1, <2>2, <2>3 DEF VisitInv
<1> QED BY <1>2, <1>3, <1>4, <1>5 DEF Inv

(* The inductive invariant: types, the list's children, the budgets, the   *)
(* counts and that nothing moves after the selection.                      *)
THEOREM Invariance == Spec => []Inv
<1>1. Init => Inv
  BY InitInv
<1>2. Inv /\ [Next]_vars => Inv'
  <2> SUFFICES ASSUME Inv, [Next]_vars PROVE Inv'
    OBVIOUS
  <2>1. CASE Next
    BY <2>1, StartSimStep, LeaveLoopStep, BackUpStep, CountStep, ExtendStep, SelectStep DEF Next
  <2>2. CASE UNCHANGED vars
    <3>1. UNCHANGED <<search, list, games, wins, sims, pc, at, cap, hit, round, pick>>
      BY <2>2 DEF vars
    <3>2. TypeOK' /\ ListInv' /\ BudgetInv'
      BY <3>1 DEF Inv, TypeOK, ListInv, BudgetInv, Workers, Moves
    <3>3. VisitInv'
      BY <3>1 DEF Inv, VisitInv, Counted, Tally, Workers, Moves
    <3>4. Unstable' = Unstable
      BY <3>1 DEF Unstable, FoldLeft, MapThenFoldSet, BestRate, Runner, BetterRate
    <3>5. PickInv'
      BY <3>1, <3>4 DEF Inv, PickInv, AllDone, Workers
    <3> QED BY <3>2, <3>3, <3>5 DEF Inv
  <2> QED BY <2>1, <2>2
<1> QED BY <1>1, <1>2, PTL DEF Spec

(* Whatever the workers' interleaving and whatever stopped them, every     *)
(* finished simulation is in the counts exactly once, the budgets of the   *)
(* two rounds bound the visits, and a search that nothing stopped spends   *)
(* its budget to the last simulation.                                      *)
THEOREM VisitsAreSimulationsAlways == Spec => []VisitsAreSimulations
<1>1. ASSUME Inv PROVE VisitsAreSimulations
  <2> DEFINE k == Cardinality(Workers)
             y == Tally(games, Moves)
             z == Tally(Counted, Workers)
  <2>1. k \in Nat /\ y \in Nat /\ z \in Nat /\ search.nodes \in Nat /\ search.unst \in Nat
    BY <1>1, Sizes DEF Inv
  <2>2. round = 1 => y = z
    BY <1>1 DEF Inv, VisitInv
  <2>3. z <= k * cap
    <3>1. \A w \in Workers : Counted[w] \in 0 .. cap
      <4> TAKE w \in Workers
      <4>1. /\ sims[w] \in Nat /\ sims[w] <= cap /\ cap \in Nat
            /\ pc[w] = "count" => sims[w] < cap
        BY <1>1, Sizes DEF Inv, TypeOK, BudgetInv
      <4>2. sims[w] + (IF pc[w] = "count" THEN 1 ELSE 0) \in 0 .. cap
        BY <4>1
      <4> QED BY <4>2 DEF Counted
    <3> HIDE DEF Counted, Workers
    <3> QED BY <1>1, <3>1, Sizes, TallyBound DEF Inv
  <2>4. k * (search.nodes + search.unst) = k * search.nodes + k * search.unst
        /\ k * search.nodes \in Nat /\ k * search.unst \in Nat
    BY <2>1
  <2>5. y <= k * (search.nodes + search.unst)
    <3>1. CASE round = 1
      BY <1>1, <2>1, <2>2, <2>3, <2>4, <3>1 DEF Inv, TypeOK
    <3>2. CASE round = 2
      <4>1. z <= k * search.unst
        BY <1>1, <2>3, <3>2 DEF Inv, TypeOK
      <4>2. y <= k * search.nodes + z
        BY <1>1, <3>2 DEF Inv, VisitInv
      <4> HIDE DEF y, z, k
      <4> QED BY <2>1, <2>4, <4>1, <4>2
    <3> QED BY <1>1, <3>1, <3>2 DEF Inv, TypeOK
  <2>6. ASSUME pick # <<>>, ~hit, round = 1 PROVE y = k * search.nodes
    <3>1. \A w \in Workers : Counted[w] = search.nodes
      <4> TAKE w \in Workers
      <4>1. pc[w] = "done" /\ sims[w] = search.nodes
        BY <1>1, <2>6 DEF Inv, PickInv, AllDone, BudgetInv, TypeOK
      <4> QED BY <2>1, <4>1 DEF Counted
    <3>2. z = k * search.nodes
      <4> HIDE DEF Counted, Workers
      <4> QED BY <1>1, <3>1, Sizes, TallyConstant DEF Inv
    <3> QED BY <2>2, <2>6, <3>2
  <2>7. \A m \in Moves : wins[m] <= games[m]
    BY <1>1 DEF Inv, VisitInv
  <2> QED BY <2>2, <2>5, <2>6, <2>7 DEF VisitsAreSimulations
<1>2. Inv => VisitsAreSimulations
  BY <1>1
<1> QED BY <1>2, Invariance, PTL

-----------------------------------------------------------------------------
(* The order of the winrates.                                              *)

LEMMA ProductOrder ==
  ASSUME NEW p \in Nat, NEW q \in Nat, NEW x \in Nat, p <= q
  PROVE  p * x <= q * x
<1>1. PICK d \in Nat : q = p + d
  <2>1. q - p \in Nat /\ q = p + (q - p)
    OBVIOUS
  <2> QED BY <2>1
<1>2. (p + d) * x = p * x + d * x /\ p * x \in Nat /\ d * x \in Nat
  OBVIOUS
<1> QED BY <1>1, <1>2

LEMMA ProductCancel ==
  ASSUME NEW p \in Nat, NEW q \in Nat, NEW y \in Nat \ {0}, p * y <= q * y
  PROVE  p <= q
<1> SUFFICES ASSUME ~(p <= q) PROVE FALSE
  OBVIOUS
<1>1. (q + 1) * y <= p * y
  <2>1. q + 1 \in Nat /\ q + 1 <= p /\ y \in Nat
    OBVIOUS
  <2> QED BY <2>1, ProductOrder
<1>2. (q + 1) * y = q * y + y /\ q * y \in Nat /\ p * y \in Nat
  OBVIOUS
<1> QED BY <1>1, <1>2

(* a/x >= b/y and b/y >= c/z give a/x >= c/z.                              *)
LEMMA RateTransitive ==
  ASSUME NEW a \in Nat, NEW b \in Nat, NEW c \in Nat,
         NEW x \in Nat \ {0}, NEW y \in Nat \ {0}, NEW z \in Nat \ {0},
         b * x <= a * y, c * y <= b * z
  PROVE  c * x <= a * z
<1>1. (b * x) * z <= (a * y) * z /\ (c * y) * x <= (b * z) * x
  <2>1. b * x \in Nat /\ a * y \in Nat /\ c * y \in Nat /\ b * z \in Nat /\ x \in Nat /\ z \in Nat
    OBVIOUS
  <2> QED BY <2>1, ProductOrder
<1>2. (b * x) * z = (b * z) * x /\ (a * y) * z = (a * z) * y /\ (c * y) * x = (c * x) * y
  OBVIOUS
<1>3. (c * x) * y \in Nat /\ (b * z) * x \in Nat /\ (a * z) * y \in Nat
  OBVIOUS
<1>4. (c * x) * y <= (a * z) * y
  BY <1>1, <1>2, <1>3
<1>5. c * x \in Nat /\ a * z \in Nat
  OBVIOUS
<1> QED BY <1>4, <1>5, ProductCancel

(* The counters of a search.                                               *)
Counters(g, w) == g \in [Moves -> Nat] /\ w \in [Moves -> Nat]
Visited(g) == {m \in Moves : g[m] > 0}

LEMMA RateOrder ==
  ASSUME NEW g, NEW w, Counters(g, w), NEW l \in Visited(g), NEW m \in Visited(g), NEW n \in Visited(g)
  PROVE  /\ BetterRate(g, w, l, m) => AtLeastRate(g, w, l, m)
         /\ ~BetterRate(g, w, l, m) => AtLeastRate(g, w, m, l)
         /\ AtLeastRate(g, w, m, m)
         /\ AtLeastRate(g, w, l, m) /\ AtLeastRate(g, w, m, n) => AtLeastRate(g, w, l, n)
         /\ w[m] = 0 => AtLeastRate(g, w, l, m)
<1>1. /\ g[l] \in Nat \ {0} /\ g[m] \in Nat \ {0} /\ g[n] \in Nat \ {0}
      /\ w[l] \in Nat /\ w[m] \in Nat /\ w[n] \in Nat
  BY DEF Counters, Visited
<1> PICK a, b, c, x, y, z : a = w[l] /\ b = w[m] /\ c = w[n] /\ x = g[l] /\ y = g[m] /\ z = g[n]
  OBVIOUS
<1>2. /\ a \in Nat /\ b \in Nat /\ c \in Nat
      /\ x \in Nat \ {0} /\ y \in Nat \ {0} /\ z \in Nat \ {0}
  BY <1>1
<1>3. a * y \in Nat /\ b * x \in Nat /\ c * y \in Nat /\ b * z \in Nat /\ c * x \in Nat /\ a * z \in Nat
  BY <1>2
<1>4. /\ BetterRate(g, w, l, m) <=> a * y > b * x
      /\ AtLeastRate(g, w, l, m) <=> ~(b * x > a * y)
      /\ AtLeastRate(g, w, m, l) <=> ~(a * y > b * x)
      /\ AtLeastRate(g, w, m, n) <=> ~(c * y > b * z)
      /\ AtLeastRate(g, w, l, n) <=> ~(c * x > a * z)
      /\ AtLeastRate(g, w, m, m) <=> ~(b * y > b * y)
  BY <1>1 DEF BetterRate, AtLeastRate
<1>5. b * x <= a * y /\ c * y <= b * z => c * x <= a * z
  BY <1>2, RateTransitive
<1>6. b = 0 => b * x = 0
  BY <1>2
<1>7. ~(b * y > b * y)
  <2>1. b * y \in Nat
    BY <1>2
  <2> QED BY <2>1
<1>8. (AtLeastRate(g, w, l, m) <=> b * x <= a * y) /\ (AtLeastRate(g, w, m, n) <=> c * y <= b * z)
      /\ (AtLeastRate(g, w, l, n) <=> c * x <= a * z)
  BY <1>3, <1>4
<1>9. b = 0 => AtLeastRate(g, w, l, m)
  BY <1>3, <1>6, <1>8
<1> QED BY <1>3, <1>4, <1>5, <1>7, <1>8, <1>9

-----------------------------------------------------------------------------
(* The scans of the child list.                                            *)

RateStep(g, w, m, best) ==
    IF /\ g[m] > 0
       /\ IF best = None THEN w[m] > 0 ELSE BetterRate(g, w, m, best)
    THEN m ELSE best

RateScan(g, w) ==
    CHOOSE f : f = [k \in 0 .. Len(list) |-> IF k = 0 THEN None ELSE RateStep(g, w, list[k], f[k - 1])]

VisitStep(g, w, m, best) ==
    IF /\ g[m] > 0
       /\ \/ best = None
          \/ g[m] > g[best]
          \/ g[m] = g[best] /\ BetterRate(g, w, m, best)
    THEN m ELSE best

VisitScan(g, w) ==
    CHOOSE f : f = [k \in 0 .. Len(list) |-> IF k = 0 THEN None ELSE VisitStep(g, w, list[k], f[k - 1])]

LEMMA ScanResults ==
  ASSUME NEW g, NEW w
  PROVE  HighestRate(g, w) = RateScan(g, w)[Len(list)] /\ MostVisited(g, w) = VisitScan(g, w)[Len(list)]
<1>1. HighestRate(g, w) = RateScan(g, w)[Len(list)]
  BY DEF HighestRate, RateScan, RateStep
<1>2. MostVisited(g, w) = VisitScan(g, w)[Len(list)]
  BY DEF MostVisited, VisitScan, VisitStep
<1> QED BY <1>1, <1>2

(* The scans go through the list one by one.                               *)
LEMMA RateScanSteps ==
  ASSUME TypeOK, NEW g, NEW w
  PROVE  /\ RateScan(g, w)[0] = None
         /\ \A k \in 1 .. Len(list) : RateScan(g, w)[k] = RateStep(g, w, list[k], RateScan(g, w)[k - 1])
<1> DEFINE n == Len(list)
           A == Moves \cup {None}
           step == [k \in 1 .. n |-> [b \in A |-> RateStep(g, w, list[k], b)]]
<1>1. n \in Nat /\ \A k \in 1 .. n : list[k] \in Moves
  BY LenProperties DEF TypeOK
<1>2. step \in [1 .. n -> [A -> A]]
  BY <1>1 DEF RateStep
<1>3. \A k \in 1 .. n, b \in A : step[k][b] = RateStep(g, w, list[k], b)
  OBVIOUS
<1> HIDE DEF n, A, step
<1>4. PICK f : Steps!Started(f, n, A, None) /\ Steps!Stepped(f, n, step)
  <2>1. None \in A
    BY DEF A
  <2> QED BY <1>1, <1>2, <2>1, Steps!Stepwise
<1>5. f = [k \in 0 .. n |-> IF k = 0 THEN None ELSE RateStep(g, w, list[k], f[k - 1])]
  <2>1. \A k \in 0 .. n : f[k] = IF k = 0 THEN None ELSE RateStep(g, w, list[k], f[k - 1])
    <3> TAKE k \in 0 .. n
    <3>1. CASE k = 0
      BY <1>4, <3>1 DEF Steps!Started
    <3>2. CASE k # 0
      <4>1. k \in 1 .. n /\ k - 1 \in 0 .. n
        BY <1>1, <3>2
      <4>2. f[k - 1] \in A /\ f[k] = step[k][f[k - 1]]
        BY <1>4, <4>1 DEF Steps!Started, Steps!Stepped
      <4> QED BY <1>3, <3>2, <4>1, <4>2
    <3> QED BY <3>1, <3>2
  <2>2. f = [k \in 0 .. n |-> f[k]]
    BY <1>4 DEF Steps!Started
  <2> QED BY <2>1, <2>2
<1>6. RateScan(g, w) = [k \in 0 .. n |-> IF k = 0 THEN None
                                        ELSE RateStep(g, w, list[k], RateScan(g, w)[k - 1])]
  BY <1>5 DEF RateScan, n
<1>7. 0 \in 0 .. n /\ \A k \in 1 .. n : k \in 0 .. n /\ k # 0
  BY <1>1
<1> PICK s : s = RateScan(g, w)
  OBVIOUS
<1>8. s = [k \in 0 .. n |-> IF k = 0 THEN None ELSE RateStep(g, w, list[k], s[k - 1])]
  BY <1>6
<1>9. s[0] = None /\ \A k \in 1 .. n : s[k] = RateStep(g, w, list[k], s[k - 1])
  BY <1>7, <1>8
<1> QED BY <1>9 DEF n

LEMMA VisitScanSteps ==
  ASSUME TypeOK, NEW g, NEW w
  PROVE  /\ VisitScan(g, w)[0] = None
         /\ \A k \in 1 .. Len(list) : VisitScan(g, w)[k] = VisitStep(g, w, list[k], VisitScan(g, w)[k - 1])
<1> DEFINE n == Len(list)
           A == Moves \cup {None}
           step == [k \in 1 .. n |-> [b \in A |-> VisitStep(g, w, list[k], b)]]
<1>1. n \in Nat /\ \A k \in 1 .. n : list[k] \in Moves
  BY LenProperties DEF TypeOK
<1>2. step \in [1 .. n -> [A -> A]]
  BY <1>1 DEF VisitStep
<1>3. \A k \in 1 .. n, b \in A : step[k][b] = VisitStep(g, w, list[k], b)
  OBVIOUS
<1> HIDE DEF n, A, step
<1>4. PICK f : Steps!Started(f, n, A, None) /\ Steps!Stepped(f, n, step)
  <2>1. None \in A
    BY DEF A
  <2> QED BY <1>1, <1>2, <2>1, Steps!Stepwise
<1>5. f = [k \in 0 .. n |-> IF k = 0 THEN None ELSE VisitStep(g, w, list[k], f[k - 1])]
  <2>1. \A k \in 0 .. n : f[k] = IF k = 0 THEN None ELSE VisitStep(g, w, list[k], f[k - 1])
    <3> TAKE k \in 0 .. n
    <3>1. CASE k = 0
      BY <1>4, <3>1 DEF Steps!Started
    <3>2. CASE k # 0
      <4>1. k \in 1 .. n /\ k - 1 \in 0 .. n
        BY <1>1, <3>2
      <4>2. f[k - 1] \in A /\ f[k] = step[k][f[k - 1]]
        BY <1>4, <4>1 DEF Steps!Started, Steps!Stepped
      <4> QED BY <1>3, <3>2, <4>1, <4>2
    <3> QED BY <3>1, <3>2
  <2>2. f = [k \in 0 .. n |-> f[k]]
    BY <1>4 DEF Steps!Started
  <2> QED BY <2>1, <2>2
<1>6. VisitScan(g, w) = [k \in 0 .. n |-> IF k = 0 THEN None
                                        ELSE VisitStep(g, w, list[k], VisitScan(g, w)[k - 1])]
  BY <1>5 DEF VisitScan, n
<1>7. 0 \in 0 .. n /\ \A k \in 1 .. n : k \in 0 .. n /\ k # 0
  BY <1>1
<1> PICK s : s = VisitScan(g, w)
  OBVIOUS
<1>8. s = [k \in 0 .. n |-> IF k = 0 THEN None ELSE VisitStep(g, w, list[k], s[k - 1])]
  BY <1>6
<1>9. s[0] = None /\ \A k \in 1 .. n : s[k] = VisitStep(g, w, list[k], s[k - 1])
  BY <1>7, <1>8
<1> QED BY <1>9 DEF n

(* What the scans have found after k children.                             *)
BestRateSoFar(g, w, k, b) ==
    \/ b = None /\ \A i \in 1 .. k : g[list[i]] > 0 => w[list[i]] = 0
    \/ /\ b \in Visited(g)
       /\ \A i \in 1 .. k : g[list[i]] > 0 => AtLeastRate(g, w, b, list[i])

NoBetter(g, w, n, m) == g[n] < g[m] \/ (g[n] = g[m] /\ AtLeastRate(g, w, m, n))

MostVisitedSoFar(g, w, k, b) ==
    \/ b = None /\ \A i \in 1 .. k : g[list[i]] = 0
    \/ b \in Visited(g) /\ \A i \in 1 .. k : g[list[i]] > 0 => NoBetter(g, w, list[i], b)

LEMMA RateScanFinds ==
  ASSUME TypeOK, NEW g, NEW w, Counters(g, w)
  PROVE  BestRateSoFar(g, w, Len(list), HighestRate(g, w))
<1> DEFINE n == Len(list)
           s == RateScan(g, w)
           G == {k \in 0 .. n : BestRateSoFar(g, w, k, s[k])}
<1>1. n \in Nat /\ \A k \in 1 .. n : list[k] \in Moves
  BY LenProperties DEF TypeOK
<1>2. None \notin Moves
  BY Sizes
<1>3. s[0] = None /\ \A k \in 1 .. n : s[k] = RateStep(g, w, list[k], s[k - 1])
  BY RateScanSteps
<1> HIDE DEF s
<1>4. 0 \in G
  BY <1>1, <1>3 DEF BestRateSoFar
<1>5. ASSUME NEW k \in 1 .. n, k - 1 \in G PROVE k \in G
  <2> PICK b, m : b = s[k - 1] /\ m = list[k]
    OBVIOUS
  <2>1. k \in Nat /\ m \in Moves /\ BestRateSoFar(g, w, k - 1, b) /\ s[k] = RateStep(g, w, m, b)
    BY <1>1, <1>3, <1>5
  <2>2. \A i \in 1 .. k : i \in 1 .. k - 1 \/ list[i] = m
    <3> TAKE i \in 1 .. k
    <3>1. CASE i = k
      BY <3>1
    <3>2. CASE i # k
      BY <2>1, <3>2
    <3> QED BY <3>1, <3>2
  <2>3. \A i \in 1 .. k - 1 : list[i] \in Moves
    BY <1>1
  <2>4. g[m] \in Nat /\ w[m] \in Nat /\ \A x \in Moves : g[x] \in Nat /\ w[x] \in Nat
    BY <2>1 DEF Counters
  <2>5. BestRateSoFar(g, w, k, s[k])
    <3>1. CASE ~(g[m] > 0)
      <4>1. s[k] = b
        BY <2>1, <3>1 DEF RateStep
      <4> QED BY <2>1, <2>2, <3>1, <4>1 DEF BestRateSoFar
    <3>2. CASE g[m] > 0 /\ b = None
      <4>1. \A i \in 1 .. k - 1 : g[list[i]] > 0 => w[list[i]] = 0
        BY <1>2, <2>1, <3>2 DEF BestRateSoFar, Visited
      <4>2. CASE w[m] > 0
        <5>1. s[k] = m /\ m \in Visited(g)
          BY <2>1, <3>2, <4>2 DEF RateStep, Visited
        <5>2. \A i \in 1 .. k : g[list[i]] > 0 => AtLeastRate(g, w, m, list[i])
          <6> SUFFICES ASSUME NEW i \in 1 .. k, g[list[i]] > 0 PROVE AtLeastRate(g, w, m, list[i])
            OBVIOUS
          <6>1. CASE list[i] = m
            BY <5>1, <6>1, RateOrder
          <6>2. CASE list[i] # m
            <7>1. i \in 1 .. k - 1
              BY <2>2, <6>2
            <7>2. list[i] \in Visited(g) /\ w[list[i]] = 0
              BY <2>3, <4>1, <7>1 DEF Visited
            <7> QED BY <5>1, <7>2, RateOrder
          <6> QED BY <6>1, <6>2
        <5> QED BY <5>1, <5>2 DEF BestRateSoFar
      <4>3. CASE ~(w[m] > 0)
        <5>1. s[k] = None /\ w[m] = 0
          BY <2>1, <2>4, <3>2, <4>3 DEF RateStep
        <5> QED BY <2>2, <4>1, <5>1 DEF BestRateSoFar
      <4> QED BY <4>2, <4>3
    <3>3. CASE g[m] > 0 /\ b # None
      <4>1. /\ b \in Visited(g) /\ m \in Visited(g)
            /\ \A i \in 1 .. k - 1 : g[list[i]] > 0 => AtLeastRate(g, w, b, list[i])
        BY <2>1, <3>3 DEF BestRateSoFar, Visited
      <4>2. \A i \in 1 .. k - 1 : g[list[i]] > 0 => list[i] \in Visited(g)
        BY <2>3 DEF Visited
      <4>3. CASE BetterRate(g, w, m, b)
        <5>1. s[k] = m
          BY <2>1, <3>3, <4>3 DEF RateStep
        <5>2. AtLeastRate(g, w, m, b) /\ AtLeastRate(g, w, m, m)
          BY <4>1, <4>3, RateOrder
        <5>3. \A i \in 1 .. k - 1 : g[list[i]] > 0 => AtLeastRate(g, w, m, list[i])
          BY <4>1, <4>2, <5>2, RateOrder
        <5> QED BY <2>2, <4>1, <5>1, <5>2, <5>3 DEF BestRateSoFar
      <4>4. CASE ~BetterRate(g, w, m, b)
        <5>1. s[k] = b
          BY <2>1, <3>3, <4>4 DEF RateStep
        <5>2. AtLeastRate(g, w, b, m)
          BY <4>1, <4>4, RateOrder
        <5> QED BY <2>2, <4>1, <5>1, <5>2 DEF BestRateSoFar
      <4> QED BY <4>3, <4>4
    <3> QED BY <3>1, <3>2, <3>3
  <2>6. k \in 0 .. n
    BY <1>1
  <2> QED BY <2>5, <2>6
<1>6. n \in G
  <2> SUFFICES ASSUME n \notin G PROVE FALSE
    OBVIOUS
  <2>1. PICK k \in 0 .. n : k \notin G /\ \A i \in 0 .. k - 1 : i \in G
    <3>1. \E k \in 0 .. n : k \notin G
      BY <1>1
    <3> HIDE DEF G, n
    <3> QED BY <1>1, <3>1, Steps!FirstGap
  <2>2. k \in 1 .. n /\ k - 1 \in 0 .. k - 1
    BY <1>1, <1>4, <2>1
  <2> HIDE DEF G, n
  <2> QED BY <1>5, <2>1, <2>2
<1> QED BY <1>6, ScanResults DEF s

LEMMA NoBetterOrder ==
  ASSUME NEW g, NEW w, Counters(g, w), NEW l \in Visited(g), NEW m \in Visited(g), NEW n \in Visited(g)
  PROVE  /\ NoBetter(g, w, m, m)
         /\ NoBetter(g, w, l, m) /\ NoBetter(g, w, m, n) => NoBetter(g, w, l, n)
         /\ g[m] > g[l] \/ (g[m] = g[l] /\ BetterRate(g, w, m, l)) => NoBetter(g, w, l, m)
         /\ ~(g[m] > g[l] \/ (g[m] = g[l] /\ BetterRate(g, w, m, l))) => NoBetter(g, w, m, l)
<1>1. g[l] \in Nat /\ g[m] \in Nat /\ g[n] \in Nat
  BY DEF Counters, Visited
<1>2. AtLeastRate(g, w, m, m)
      /\ (AtLeastRate(g, w, n, m) /\ AtLeastRate(g, w, m, l) => AtLeastRate(g, w, n, l))
      /\ (BetterRate(g, w, m, l) => AtLeastRate(g, w, m, l))
      /\ (~BetterRate(g, w, m, l) => AtLeastRate(g, w, l, m))
  BY RateOrder
<1> QED BY <1>1, <1>2 DEF NoBetter

LEMMA VisitScanFinds ==
  ASSUME TypeOK, NEW g, NEW w, Counters(g, w)
  PROVE  MostVisitedSoFar(g, w, Len(list), MostVisited(g, w))
<1> DEFINE n == Len(list)
           s == VisitScan(g, w)
           G == {k \in 0 .. n : MostVisitedSoFar(g, w, k, s[k])}
<1>1. n \in Nat /\ \A k \in 1 .. n : list[k] \in Moves
  BY LenProperties DEF TypeOK
<1>2. None \notin Moves
  BY Sizes
<1>3. s[0] = None /\ \A k \in 1 .. n : s[k] = VisitStep(g, w, list[k], s[k - 1])
  BY VisitScanSteps
<1> HIDE DEF s
<1>4. 0 \in G
  BY <1>1, <1>3 DEF MostVisitedSoFar
<1>5. ASSUME NEW k \in 1 .. n, k - 1 \in G PROVE k \in G
  <2> PICK b, m : b = s[k - 1] /\ m = list[k]
    OBVIOUS
  <2>1. k \in Nat /\ m \in Moves /\ MostVisitedSoFar(g, w, k - 1, b) /\ s[k] = VisitStep(g, w, m, b)
    BY <1>1, <1>3, <1>5
  <2>2. \A i \in 1 .. k : i \in 1 .. k - 1 \/ list[i] = m
    <3> TAKE i \in 1 .. k
    <3>1. CASE i = k
      BY <3>1
    <3>2. CASE i # k
      BY <2>1, <3>2
    <3> QED BY <3>1, <3>2
  <2>3. \A i \in 1 .. k - 1 : list[i] \in Moves
    BY <1>1
  <2>4. \A x \in Moves : g[x] \in Nat
    BY DEF Counters
  <2>5. MostVisitedSoFar(g, w, k, s[k])
    <3>1. CASE ~(g[m] > 0)
      <4>1. s[k] = b /\ g[m] = 0
        BY <2>1, <2>4, <3>1 DEF VisitStep
      <4> QED BY <2>1, <2>2, <4>1 DEF MostVisitedSoFar
    <3>2. CASE g[m] > 0 /\ b = None
      <4>1. \A i \in 1 .. k - 1 : g[list[i]] = 0
        BY <1>2, <2>1, <3>2 DEF MostVisitedSoFar, Visited
      <4>2. s[k] = m /\ m \in Visited(g)
        BY <2>1, <3>2 DEF VisitStep, Visited
      <4>3. NoBetter(g, w, m, m)
        BY <4>2, NoBetterOrder
      <4> QED BY <2>2, <4>1, <4>2, <4>3 DEF MostVisitedSoFar
    <3>3. CASE g[m] > 0 /\ b # None
      <4>1. /\ b \in Visited(g) /\ m \in Visited(g)
            /\ \A i \in 1 .. k - 1 : g[list[i]] > 0 => NoBetter(g, w, list[i], b)
        BY <2>1, <3>3 DEF MostVisitedSoFar, Visited
      <4>2. \A i \in 1 .. k - 1 : g[list[i]] > 0 => list[i] \in Visited(g)
        BY <2>3 DEF Visited
      <4>3. CASE g[m] > g[b] \/ (g[m] = g[b] /\ BetterRate(g, w, m, b))
        <5>1. s[k] = m
          BY <2>1, <3>3, <4>3 DEF VisitStep
        <5>2. NoBetter(g, w, b, m) /\ NoBetter(g, w, m, m)
          BY <4>1, <4>3, NoBetterOrder
        <5>3. \A i \in 1 .. k - 1 : g[list[i]] > 0 => NoBetter(g, w, list[i], m)
          BY <4>1, <4>2, <5>2, NoBetterOrder
        <5> QED BY <2>2, <4>1, <5>1, <5>2, <5>3 DEF MostVisitedSoFar
      <4>4. CASE ~(g[m] > g[b] \/ (g[m] = g[b] /\ BetterRate(g, w, m, b)))
        <5>1. s[k] = b
          BY <2>1, <3>3, <4>4 DEF VisitStep
        <5>2. NoBetter(g, w, m, b)
          BY <4>1, <4>4, NoBetterOrder
        <5> QED BY <2>2, <4>1, <5>1, <5>2 DEF MostVisitedSoFar
      <4> QED BY <4>3, <4>4
    <3> QED BY <3>1, <3>2, <3>3
  <2>6. k \in 0 .. n
    BY <1>1
  <2> QED BY <2>5, <2>6
<1>6. n \in G
  <2> SUFFICES ASSUME n \notin G PROVE FALSE
    OBVIOUS
  <2>1. PICK k \in 0 .. n : k \notin G /\ \A i \in 0 .. k - 1 : i \in G
    <3>1. \E k \in 0 .. n : k \notin G
      BY <1>1
    <3> HIDE DEF G, n
    <3> QED BY <1>1, <3>1, Steps!FirstGap
  <2>2. k \in 1 .. n /\ k - 1 \in 0 .. k - 1
    BY <1>1, <1>4, <2>1
  <2> HIDE DEF G, n
  <2> QED BY <1>5, <2>1, <2>2
<1> QED BY <1>6, ScanResults DEF s

-----------------------------------------------------------------------------
(* The selection.                                                          *)

(* What was selected is the selection of the final counts.                 *)
Selected == pick # <<>> => pick = <<Selection(games, wins)>>

LEMMA SelectedStep ==
  ASSUME Inv, Selected, [Next]_vars
  PROVE  Selected'
<1>1. ASSUME UNCHANGED <<search, list, games, wins>>
      PROVE  Selection(games, wins)' = Selection(games, wins)
  BY <1>1 DEF Selection, MostVisited, HighestRate, BetterRate
<1>2. CASE UNCHANGED vars
  BY <1>1, <1>2 DEF vars, Selected
<1>3. CASE Select
  BY <1>1, <1>3 DEF Select, Selected
<1>4. CASE Extend
  <2>1. pick = <<>>
    BY <1>4, Sizes DEF Extend, Inv, PickInv
  <2> QED BY <1>4, <2>1 DEF Extend, Selected
<1>5. ASSUME NEW w \in Workers, StartSim(w) \/ LeaveLoop(w) \/ BackUp(w) \/ Count(w) PROVE Selected'
  <2>1. pc[w] # "done" /\ UNCHANGED pick
    BY <1>5 DEF StartSim, LeaveLoop, BackUp, Count
  <2>2. pick = <<>>
    BY <2>1 DEF Inv, PickInv, AllDone
  <2> QED BY <2>1, <2>2 DEF Selected
<1> QED BY <1>2, <1>3, <1>4, <1>5 DEF Next

(* Whatever order the workers put the children in the list, whatever ties  *)
(* there are: the selected move is a most visited one of best winrate, or  *)
(* one of the highest winrate, as the policy says, and the pass only where *)
(* the pass is the favourite or no child has a win.                        *)
THEOREM SelectionIsBestAlways == Spec => []SelectionIsBest
<1>1. ASSUME Inv, Selected PROVE SelectionIsBest
  <2> SUFFICES ASSUME pick # <<>> PROVE SelectionIsBest
    BY DEF SelectionIsBest
  <2> DEFINE p == pick[1]
             v == Visited(games)
             most == {m \in v : \A n \in v : NoBetter(games, wins, n, m)}
             r == MostVisited(games, wins)
             h == HighestRate(games, wins)
  <2>1. TypeOK /\ Counters(games, wins) /\ None \notin Moves
    BY <1>1, Sizes DEF Inv, TypeOK, Counters
  <2>2. p = Selection(games, wins)
    BY <1>1 DEF Selected
  <2>3. \A m \in v : m \in Moves /\ \E i \in 1 .. Len(list) : list[i] = m
    <3> TAKE m \in v
    <3>1. m \in Moves /\ m \in ToSet(list)
      BY <1>1 DEF Inv, ListInv, Visited
    <3>2. DOMAIN list = 1 .. Len(list)
      BY <2>1, LenProperties DEF TypeOK
    <3> QED BY <3>1, <3>2 DEF ToSet
  <2>4. \A m \in v : games[m] > 0 /\ games[m] # 0
    BY <2>1 DEF Visited, Counters
  <2>5. (r = None /\ v = {}) \/ r \in most
    <3>1. MostVisitedSoFar(games, wins, Len(list), r)
      BY <2>1, VisitScanFinds
    <3> HIDE DEF r, v
    <3>2. CASE r = None /\ \A i \in 1 .. Len(list) : games[list[i]] = 0
      <4>1. v = {}
        BY <2>3, <2>4, <3>2
      <4> QED BY <3>2, <4>1
    <3>3. CASE r \in v /\ \A i \in 1 .. Len(list) : games[list[i]] > 0 => NoBetter(games, wins, list[i], r)
      BY <2>3, <2>4, <3>3
    <3> QED BY <3>1, <3>2, <3>3 DEF MostVisitedSoFar, v
  <2>6. \/ h = None /\ \A n \in v : wins[n] = 0
        \/ h \in v /\ \A n \in v : AtLeastRate(games, wins, h, n)
    <3>1. BestRateSoFar(games, wins, Len(list), h)
      BY <2>1, RateScanFinds
    <3> HIDE DEF h, v
    <3>2. CASE h = None /\ \A i \in 1 .. Len(list) : games[list[i]] > 0 => wins[list[i]] = 0
      BY <2>3, <2>4, <3>2
    <3>3. CASE h \in v /\ \A i \in 1 .. Len(list) : games[list[i]] > 0 => AtLeastRate(games, wins, h, list[i])
      BY <2>3, <2>4, <3>3
    <3> QED BY <3>1, <3>2, <3>3 DEF BestRateSoFar, v
  <2>7. h \in v => h # None
    BY <2>1 DEF Visited
  <2>8. p = IF search.robust /\ r \notin {None, Pass} THEN r ELSE IF h # None THEN h ELSE Pass
    BY <2>2 DEF Selection
  <2> HIDE DEF p, v, most, r, h
  <2>9. \/ search.robust /\ p \in most \ {Pass}
        \/ /\ search.robust => v = {} \/ Pass \in most
           /\ \/ p \in v /\ \A n \in v : AtLeastRate(games, wins, p, n)
              \/ p = Pass /\ \A n \in v : wins[n] = 0
    <3>1. most \subseteq v /\ None \notin v
      BY <2>1 DEF most, v, Visited
    <3>2. CASE search.robust /\ r \notin {None, Pass}
      BY <2>5, <2>8, <3>2
    <3>3. CASE ~(search.robust /\ r \notin {None, Pass})
      <4>1. search.robust => v = {} \/ Pass \in most
        BY <2>5, <3>3, <3>1
      <4>2. \/ p \in v /\ \A n \in v : AtLeastRate(games, wins, p, n)
            \/ p = Pass /\ \A n \in v : wins[n] = 0
        BY <2>6, <2>7, <2>8, <3>3
      <4> QED BY <4>1, <4>2
    <3> QED BY <3>2, <3>3
  <2> QED BY <2>9 DEF SelectionIsBest, p, v, most, Visited, NoBetter
<1>2. Init => Selected
  BY DEF Init, Selected
<1>3. Inv /\ Selected /\ [Next]_vars => Selected'
  BY SelectedStep
<1>4. Inv /\ Selected => SelectionIsBest
  BY <1>1
<1> QED BY <1>2, <1>3, <1>4, Invariance, PTL DEF Spec

-----------------------------------------------------------------------------
(* The early stop.                                                         *)

PairStep(g, m, p) == Runner(g, p[1], p[2], m)

PairScan(g) ==
    CHOOSE f : f = [k \in 0 .. Len(list) |-> IF k = 0 THEN <<None, None>> ELSE PairStep(g, list[k], f[k - 1])]

LEMMA PairScanSteps ==
  ASSUME TypeOK, NEW g
  PROVE  /\ TopTwo(g) = PairScan(g)[Len(list)]
         /\ PairScan(g)[0] = <<None, None>>
         /\ \A k \in 1 .. Len(list) : PairScan(g)[k] = PairStep(g, list[k], PairScan(g)[k - 1])
<1> DEFINE n == Len(list)
           A == (Moves \cup {None}) \X (Moves \cup {None})
           step == [k \in 1 .. n |-> [p \in A |-> PairStep(g, list[k], p)]]
<1>1. n \in Nat /\ \A k \in 1 .. n : list[k] \in Moves
  BY LenProperties DEF TypeOK
<1>2. step \in [1 .. n -> [A -> A]]
  <2>1. \A k \in 1 .. n, p \in A : PairStep(g, list[k], p) \in A
    BY <1>1 DEF PairStep, Runner
  <2> HIDE DEF A, n
  <2> QED BY <2>1
<1>3. \A k \in 1 .. n, p \in A : step[k][p] = PairStep(g, list[k], p)
  OBVIOUS
<1>4. <<None, None>> \in A
  OBVIOUS
<1> HIDE DEF n, A, step
<1>5. PICK f : Steps!Started(f, n, A, <<None, None>>) /\ Steps!Stepped(f, n, step)
  BY <1>1, <1>2, <1>4, Steps!Stepwise
<1>6. f = [k \in 0 .. n |-> IF k = 0 THEN <<None, None>> ELSE PairStep(g, list[k], f[k - 1])]
  <2>1. \A k \in 0 .. n : f[k] = IF k = 0 THEN <<None, None>> ELSE PairStep(g, list[k], f[k - 1])
    <3> TAKE k \in 0 .. n
    <3>1. CASE k = 0
      BY <1>5, <3>1 DEF Steps!Started
    <3>2. CASE k # 0
      <4>1. k \in 1 .. n /\ k - 1 \in 0 .. n
        BY <1>1, <3>2
      <4>2. f[k - 1] \in A /\ f[k] = step[k][f[k - 1]]
        BY <1>5, <4>1 DEF Steps!Started, Steps!Stepped
      <4> QED BY <1>3, <3>2, <4>1, <4>2
    <3> QED BY <3>1, <3>2
  <2>2. f = [k \in 0 .. n |-> f[k]]
    BY <1>5 DEF Steps!Started
  <2> QED BY <2>1, <2>2
<1>7. PairScan(g) = [k \in 0 .. n |-> IF k = 0 THEN <<None, None>>
                                      ELSE PairStep(g, list[k], PairScan(g)[k - 1])]
  BY <1>6 DEF PairScan, n
<1>8. 0 \in 0 .. n /\ \A k \in 1 .. n : k \in 0 .. n /\ k # 0
  BY <1>1
<1> PICK s : s = PairScan(g)
  OBVIOUS
<1>9. s = [k \in 0 .. n |-> IF k = 0 THEN <<None, None>> ELSE PairStep(g, list[k], s[k - 1])]
  BY <1>7
<1>10. s[0] = <<None, None>> /\ \A k \in 1 .. n : s[k] = PairStep(g, list[k], s[k - 1])
  BY <1>8, <1>9
<1>11. TopTwo(g) = PairScan(g)[Len(list)]
  BY DEF TopTwo, PairScan, PairStep
<1> QED BY <1>10, <1>11 DEF n

(* The two after k children: the first is among them, and no other has     *)
(* more visits than the second.                                            *)
TopTwoSoFar(g, k, p) ==
    /\ p[1] = None => k = 0 /\ p[2] = None
    /\ p[1] # None => p[1] \in Moves /\ \E i \in 1 .. k : list[i] = p[1]
    /\ p[2] # None => p[2] \in Moves /\ g[p[2]] <= g[p[1]] /\ k >= 2
    /\ \A i \in 1 .. k : list[i] = p[1] \/ (p[2] # None /\ g[list[i]] <= g[p[2]])

LEMMA TopTwoFinds ==
  ASSUME TypeOK, NEW g \in [Moves -> Nat]
  PROVE  TopTwoSoFar(g, Len(list), TopTwo(g))
<1> DEFINE n == Len(list)
           s == PairScan(g)
           G == {k \in 0 .. n : TopTwoSoFar(g, k, s[k])}
<1>1. n \in Nat /\ \A k \in 1 .. n : list[k] \in Moves
  BY LenProperties DEF TypeOK
<1>2. None \notin Moves
  BY Sizes
<1>3. s[0] = <<None, None>> /\ \A k \in 1 .. n : s[k] = PairStep(g, list[k], s[k - 1])
  BY PairScanSteps
<1> HIDE DEF s
<1>4. 0 \in G
  BY <1>1, <1>3 DEF TopTwoSoFar
<1>5. ASSUME NEW k \in 1 .. n, k - 1 \in G PROVE k \in G
  <2> PICK b, c, m : b = s[k - 1][1] /\ c = s[k - 1][2] /\ m = list[k]
    OBVIOUS
  <2>1. k \in Nat /\ k >= 1 /\ m \in Moves /\ s[k] = Runner(g, b, c, m)
    BY <1>1, <1>3 DEF PairStep
  <2>2. /\ b = None => k - 1 = 0 /\ c = None
        /\ b # None => b \in Moves /\ \E i \in 1 .. k - 1 : list[i] = b
        /\ c # None => c \in Moves /\ g[c] <= g[b] /\ k - 1 >= 2
        /\ \A i \in 1 .. k - 1 : list[i] = b \/ (c # None /\ g[list[i]] <= g[c])
    BY <1>5 DEF TopTwoSoFar
  <2>3. \A i \in 1 .. k : i \in 1 .. k - 1 \/ list[i] = m
    <3> TAKE i \in 1 .. k
    <3>1. CASE i = k
      BY <3>1
    <3>2. CASE i # k
      BY <2>1, <3>2
    <3> QED BY <3>1, <3>2
  <2>4. /\ \A i \in 1 .. k - 1 : i \in 1 .. k /\ list[i] \in Moves
        /\ \E i \in 1 .. k : list[i] = m
    BY <1>1
  <2>5. \A x \in Moves : g[x] \in Nat
    OBVIOUS
  <2>6. TopTwoSoFar(g, k, s[k])
    <3>1. CASE b = None
      <4>1. s[k] = <<m, None>> /\ k = 1
        BY <2>1, <2>2, <3>1 DEF Runner
      <4>2. \A i \in 1 .. k : list[i] = m
        BY <4>1
      <4> QED BY <1>2, <2>1, <2>4, <4>1, <4>2 DEF TopTwoSoFar
    <3>2. CASE b # None /\ g[m] > g[b]
      <4>1. s[k][1] = m /\ s[k][2] = b
        BY <2>1, <3>2 DEF Runner
      <4>2. k >= 2 /\ g[b] <= g[m] /\ b \in Moves /\ m # None
        BY <1>2, <2>1, <2>2, <2>5, <3>2
      <4>3. \A i \in 1 .. k - 1 : g[list[i]] <= g[b]
        <5> TAKE i \in 1 .. k - 1
        <5>1. CASE list[i] = b
          BY <2>5, <4>2, <5>1
        <5>2. CASE list[i] # b
          BY <2>2, <2>4, <2>5, <4>2, <5>2
        <5> QED BY <5>1, <5>2
      <4> QED BY <2>1, <2>3, <2>4, <3>2, <4>1, <4>2, <4>3 DEF TopTwoSoFar
    <3>3. CASE b # None /\ ~(g[m] > g[b]) /\ (c = None \/ g[m] > g[c])
      <4>1. s[k][1] = b /\ s[k][2] = m
        BY <2>1, <3>3 DEF Runner
      <4>2. k >= 2 /\ g[m] <= g[b] /\ m # None
        BY <1>2, <2>1, <2>2, <2>5, <3>3
      <4>3. \A i \in 1 .. k - 1 : list[i] = b \/ g[list[i]] <= g[m]
        <5> TAKE i \in 1 .. k - 1
        <5>1. CASE list[i] # b
          <6>1. c # None /\ g[list[i]] <= g[c]
            BY <2>2, <5>1
          <6>2. c \in Moves /\ g[m] > g[c]
            BY <2>2, <3>3, <6>1
          <6> QED BY <2>1, <2>4, <2>5, <6>1, <6>2
        <5> QED BY <5>1
      <4>4. g[m] <= g[m]
        BY <2>1, <2>5
      <4> QED BY <2>1, <2>2, <2>3, <2>4, <3>3, <4>1, <4>2, <4>3, <4>4 DEF TopTwoSoFar
    <3>4. CASE b # None /\ ~(g[m] > g[b]) /\ ~(c = None \/ g[m] > g[c])
      <4>1. s[k][1] = b /\ s[k][2] = c
        BY <2>1, <3>4 DEF Runner
      <4>2. k >= 2 /\ g[m] <= g[c] /\ c # None
        BY <2>1, <2>2, <2>5, <3>4
      <4> QED BY <2>1, <2>2, <2>3, <2>4, <3>4, <4>1, <4>2 DEF TopTwoSoFar
    <3> QED BY <3>1, <3>2, <3>3, <3>4
  <2>7. k \in 0 .. n
    BY <1>1
  <2> QED BY <2>6, <2>7
<1>6. n \in G
  <2> SUFFICES ASSUME n \notin G PROVE FALSE
    OBVIOUS
  <2>1. PICK k \in 0 .. n : k \notin G /\ \A i \in 0 .. k - 1 : i \in G
    <3>1. \E k \in 0 .. n : k \notin G
      BY <1>1
    <3> HIDE DEF G, n
    <3> QED BY <1>1, <3>1, Steps!FirstGap
  <2>2. k \in 1 .. n /\ k - 1 \in 0 .. k - 1
    BY <1>1, <1>4, <2>1
  <2> HIDE DEF G, n
  <2> QED BY <1>5, <2>1, <2>2
<1>7. TopTwo(g) = s[n]
  BY PairScanSteps DEF s
<1> HIDE DEF n
<1> QED BY <1>6, <1>7 DEF n

(* The most visited child is one of the list.                              *)
LEMMA MostVisitedIsListed ==
  ASSUME TypeOK, NEW g, NEW w, MostVisited(g, w) # None
  PROVE  \E i \in 1 .. Len(list) : list[i] = MostVisited(g, w)
<1> DEFINE n == Len(list)
           s == VisitScan(g, w)
           G == {k \in 0 .. n : s[k] = None \/ \E i \in 1 .. k : list[i] = s[k]}
<1>1. n \in Nat
  BY LenProperties DEF TypeOK
<1>2. s[0] = None /\ \A k \in 1 .. n : s[k] = VisitStep(g, w, list[k], s[k - 1])
  BY VisitScanSteps
<1> HIDE DEF s
<1>3. 0 \in G
  BY <1>1, <1>2
<1>4. ASSUME NEW k \in 1 .. n, k - 1 \in G PROVE k \in G
  <2>1. s[k] \in {list[k], s[k - 1]}
    BY <1>2 DEF VisitStep
  <2>2. k \in 1 .. k /\ k \in 0 .. n /\ \A i \in 1 .. k - 1 : i \in 1 .. k
    BY <1>1
  <2> QED BY <1>4, <2>1, <2>2
<1>5. n \in G
  <2> SUFFICES ASSUME n \notin G PROVE FALSE
    OBVIOUS
  <2>1. PICK k \in 0 .. n : k \notin G /\ \A i \in 0 .. k - 1 : i \in G
    <3>1. \E k \in 0 .. n : k \notin G
      BY <1>1
    <3> HIDE DEF G, n
    <3> QED BY <1>1, <3>1, Steps!FirstGap
  <2>2. k \in 1 .. n /\ k - 1 \in 0 .. k - 1
    BY <1>1, <1>3, <2>1
  <2> HIDE DEF G, n
  <2> QED BY <1>4, <2>1, <2>2
<1> QED BY <1>5, ScanResults DEF s

(* A child with strictly more visits than all others is the most visited.  *)
LEMMA LeaderIsMostVisited ==
  ASSUME TypeOK, NEW g, NEW w, Counters(g, w), NEW j \in 1 .. Len(list), NEW best, list[j] = best, g[best] > 0,
         \A i \in 1 .. Len(list) : list[i] # best => g[list[i]] < g[best]
  PROVE  MostVisited(g, w) = best
<1> DEFINE r == MostVisited(g, w)
<1>1. \A i \in 1 .. Len(list) : list[i] \in Moves /\ g[list[i]] \in Nat
  <2>1. \A i \in 1 .. Len(list) : list[i] \in Moves
    BY LenProperties DEF TypeOK
  <2> QED BY <2>1 DEF Counters
<1>2. MostVisitedSoFar(g, w, Len(list), r)
  BY VisitScanFinds
<1>3. r # None => \E i \in 1 .. Len(list) : list[i] = r
  BY MostVisitedIsListed
<1> HIDE DEF r
<1>4. r # None /\ NoBetter(g, w, best, r)
  <2>1. g[best] # 0
    BY <1>1
  <2>2. None \notin Visited(g)
    BY Sizes DEF Visited
  <2> QED BY <1>2, <2>1, <2>2 DEF MostVisitedSoFar
<1>5. PICK i \in 1 .. Len(list) : list[i] = r
  BY <1>3, <1>4
<1>6. ~(g[r] < g[best])
  BY <1>1, <1>4, <1>5 DEF NoBetter
<1>7. r = best
  BY <1>5, <1>6
<1> QED BY <1>7 DEF r

(* In a serial search a pass is the only child there is.                   *)
SoloPass == Cardinality(Workers) = 1 /\ Pass \in ToSet(list) => Len(list) = 1

LEMMA SoloPassStep ==
  ASSUME Inv, SoloPass, [Next]_vars
  PROVE  SoloPass'
<1>1. list \in Seq(Moves) /\ Len(list) \in Nat
  BY DEF Inv, TypeOK
<1>2. CASE UNCHANGED <<search, list>>
  BY <1>2 DEF SoloPass, Workers
<1>3. ASSUME NEW w \in Workers, StartSim(w), list' # list PROVE SoloPass'
  <2>1. PICK m \in Moves : MayVisit(m) /\ m \notin ToSet(list) /\ list' = <<m>> \o list
    BY <1>3 DEF StartSim
  <2>2. search' = search
    BY <1>3 DEF StartSim
  <2>3. CASE m = Pass
    <3>1. list = <<>>
      BY <2>1, <2>3 DEF MayVisit
    <3> QED BY <2>1, <3>1 DEF SoloPass
  <2>4. CASE m # Pass
    <3>1. Cardinality(Workers) = 1 => Pass \notin ToSet(list)
      BY <2>1, <2>4 DEF MayVisit
    <3>2. \A x \in ToSet(list') : x = m \/ x \in ToSet(list)
      BY <1>1, <2>1 DEF ToSet
    <3> QED BY <2>2, <2>4, <3>1, <3>2 DEF SoloPass, Workers
  <2> QED BY <2>3, <2>4
<1> QED BY <1>2, <1>3 DEF Next, LeaveLoop, BackUp, Count, Extend, Select, StartSim, vars

(* Who is behind the second most visited child is as far behind the first. *)
LEMMA FarBehind ==
  ASSUME NEW x \in Nat, NEW y \in Nat, NEW z \in Nat, NEW n \in Nat, x <= z, y > z + n
  PROVE  x < y /\ x + n < y
OBVIOUS

(* Where the lead is larger than what remains, no outcome of what remains  *)
(* changes the robust move.                                                *)
LEMMA DecidedIsFinal ==
  ASSUME Inv, SoloPass, search.robust, Cardinality(Workers) = 1, NEW n \in Nat, Decided(n),
         NEW more \in [Moves -> 0 .. n], NEW won \in [Moves -> Nat]
  PROVE  Selection([m \in Moves |-> games[m] + more[m]], [m \in Moves |-> wins[m] + won[m]])
             = Selection(games, wins)
<1> DEFINE g == [m \in Moves |-> games[m] + more[m]]
           w == [m \in Moves |-> wins[m] + won[m]]
           p == TopTwo(games)
<1>1. /\ TypeOK /\ games \in [Moves -> Nat] /\ wins \in [Moves -> Nat] /\ None \notin Moves
      /\ Len(list) \in Nat /\ \A i \in 1 .. Len(list) : list[i] \in Moves
  BY Sizes, LenProperties DEF Inv, TypeOK
<1>2. g \in [Moves -> Nat] /\ \A m \in Moves : g[m] \in Nat /\ games[m] <= g[m] /\ g[m] <= games[m] + n
  BY <1>1
<1>3. Counters(games, wins) /\ Counters(g, w)
  BY <1>1, <1>2 DEF Counters
<1>4. TopTwoSoFar(games, Len(list), p)
  BY <1>1, TopTwoFinds
<1>5. p[2] # None /\ games[p[1]] > games[p[2]] + n
  BY DEF Decided
<1> HIDE DEF p, g, w
<1> PICK b, c : b = p[1] /\ c = p[2]
  OBVIOUS
<1>6. /\ c # None /\ games[b] > games[c] + n /\ b # None /\ b \in Moves /\ c \in Moves /\ Len(list) >= 2
      /\ \A i \in 1 .. Len(list) : list[i] = b \/ games[list[i]] <= games[c]
  BY <1>4, <1>5 DEF TopTwoSoFar
<1>7. PICK j \in 1 .. Len(list) : list[j] = b
  BY <1>4, <1>6 DEF TopTwoSoFar
<1>8. games[b] > 0 /\ g[b] > 0
  <2>1. games[b] \in Nat /\ games[c] \in Nat /\ g[b] \in Nat /\ games[b] <= g[b]
    BY <1>1, <1>2, <1>6
  <2> QED BY <1>6, <2>1
<1>9. \A i \in 1 .. Len(list) : list[i] # b => games[list[i]] < games[b] /\ g[list[i]] < g[b]
  <2> SUFFICES ASSUME NEW i \in 1 .. Len(list), list[i] # b
               PROVE  games[list[i]] < games[b] /\ g[list[i]] < g[b]
    OBVIOUS
  <2> PICK m, x, y, z : m = list[i] /\ x = games[m] /\ y = games[b] /\ z = games[c]
    OBVIOUS
  <2>1. m \in Moves /\ x <= z /\ y > z + n
    BY <1>1, <1>6
  <2>2. x \in Nat /\ y \in Nat /\ z \in Nat
    BY <1>1, <1>6, <2>1
  <2>3. x < y /\ x + n < y
    BY <2>1, <2>2, FarBehind
  <2>4. g[m] \in Nat /\ g[m] <= x + n /\ g[b] \in Nat /\ y <= g[b]
    BY <1>2, <1>6, <2>1
  <2>5. g[m] < g[b]
    BY <2>2, <2>3, <2>4
  <2> QED BY <2>3, <2>5
<1>10. MostVisited(games, wins) = b
  BY <1>1, <1>3, <1>7, <1>8, <1>9, LeaderIsMostVisited
<1>11. MostVisited(g, w) = b
  BY <1>1, <1>3, <1>7, <1>8, <1>9, LeaderIsMostVisited
<1>12. b # Pass
  <2>1. Pass \notin ToSet(list)
    BY <1>6 DEF SoloPass
  <2> QED BY <1>1, <1>7, <2>1 DEF ToSet
<1> QED BY <1>6, <1>10, <1>11, <1>12 DEF Selection, g, w

LEMMA SelectionKept ==
  ASSUME UNCHANGED <<search, list, games, wins>>, NEW g, NEW w
  PROVE  Selection(g, w)' = Selection(g, w) /\ Selection(games, wins)' = Selection(games, wins)
<1>1. Selection(g, w)' = Selection(g, w)
  BY DEF Selection, MostVisited, HighestRate, BetterRate
<1>2. Selection(games, wins)' = Selection(games, wins)
  BY DEF Selection, MostVisited, HighestRate, BetterRate
<1> QED BY <1>1, <1>2

LEMMA FlipsLater ==
  ASSUME UNCHANGED <<search, list, games, wins>>, NEW left \in Nat, Remaining' = left,
         \A more, won \in [Moves -> 0 .. left] :
             Selection([m \in Moves |-> games[m] + more[m]], [m \in Moves |-> wins[m] + won[m]])
                 = Selection(games, wins)
  PROVE  CannotFlip'
<1>1. Moves' = Moves
  BY DEF Moves
<1>2. Selection(games, wins)' = Selection(games, wins)
  BY SelectionKept
<1>3. ASSUME NEW g, NEW w PROVE Selection(g, w)' = Selection(g, w)
  BY SelectionKept
<1>4. ASSUME NEW o \in Outcomes' PROVE Selection(o.games, o.wins) = Selection(games, wins)
  <2>0. PICK s \in Splits' : o = [games |-> [m \in Moves' |-> games'[m] + s.more[m]],
                                  wins |-> [m \in Moves' |-> wins'[m] + s.won[m]]]
    BY DEF Outcomes
  <2>1. /\ o.games = [m \in Moves |-> games[m] + s.more[m]]
        /\ o.wins = [m \in Moves |-> wins[m] + s.won[m]]
    BY <1>1, <2>0
  <2>2. s.more \in [Moves -> 0 .. left] /\ s.won \in [Moves -> 0 .. left]
    BY <1>1 DEF Splits
  <2> QED BY <2>1, <2>2
<1>5. ASSUME NEW o \in Outcomes' PROVE Selection(o.games, o.wins)' = Selection(games, wins)'
  BY <1>2, <1>3, <1>4
<1> QED BY <1>5 DEF CannotFlip

(* "further simulation cannot alter the move": in a serial search with the *)
(* robust policy, for any moves, any budget and any interval of the test,  *)
(* an early stop never changes the move.                                   *)
THEOREM StopIsLossFreeAlways == Spec => StopIsLossFree
<1>1. Init => SoloPass
  BY DEF Init, SoloPass, ToSet
<1>2. ASSUME Inv, SoloPass, [Next]_vars, ~hit, hit', search.robust, Cardinality(Workers) = 1
      PROVE  CannotFlip'
  <2>1. PICK w \in Workers : Count(w)
    BY <1>2 DEF Next, StartSim, LeaveLoop, BackUp, Extend, Select, vars
  <2>2. Workers = {w}
    <3>1. IsFiniteSet(Workers)
      BY <1>2, Sizes DEF Inv
    <3> HIDE DEF Workers
    <3> QED BY <1>2, <2>1, <3>1, FS_Singleton
  <2> DEFINE n == sims[w] + 1
             left == cap - n
  <2>3. /\ UNCHANGED <<search, list, games, wins, at, cap, round, pick>>
        /\ pc' = [pc EXCEPT ![w] = "test"] /\ sims' = [sims EXCEPT ![w] = n]
        /\ Decided(left * Cardinality(Workers))
    BY <1>2, <2>1 DEF Count
  <2>4. sims \in [Workers -> Nat] /\ pc \in [Workers -> Phases] /\ cap \in Nat /\ sims[w] < cap
    BY <1>2, <2>1, Sizes DEF Inv, TypeOK, BudgetInv, Count
  <2>5. left \in Nat /\ Decided(left)
    BY <1>2, <2>3, <2>4
  <2>6. Counted' = [x \in Workers |-> n]
    BY <2>2, <2>3, <2>4 DEF Counted, Workers
  <2>7. Tally(Counted', Workers) = n
    <3>1. IsFiniteSet(Workers) /\ n \in Nat
      BY <1>2, <2>4, Sizes DEF Inv
    <3>2. Tally(Counted', Workers) = Cardinality(Workers) * n
      <4> HIDE DEF n, Workers
      <4> QED BY <2>6, <3>1, TallyConstant
    <3> QED BY <1>2, <3>1, <3>2
  <2>8. Remaining' = left
    <3>1. Workers' = Workers
      BY <2>3 DEF Workers
    <3>2. Remaining' = Cardinality(Workers) * cap - Tally(Counted', Workers)
      BY <2>3, <3>1 DEF Remaining, Tally
    <3> QED BY <1>2, <2>4, <2>7, <3>2
  <2> HIDE DEF n, left
  <2>9. ASSUME NEW more \in [Moves -> 0 .. left], NEW won \in [Moves -> 0 .. left]
        PROVE  Selection([m \in Moves |-> games[m] + more[m]], [m \in Moves |-> wins[m] + won[m]])
                   = Selection(games, wins)
    <3>1. won \in [Moves -> Nat]
      BY <2>5
    <3> QED BY <1>2, <2>5, <3>1, DecidedIsFinal
  <2> QED BY <2>3, <2>5, <2>8, <2>9, FlipsLater
<1>3. Inv /\ SoloPass /\ [Next]_vars => SoloPass'
  BY SoloPassStep
<1>4. ASSUME Inv, SoloPass, [Next]_vars
      PROVE  [~hit /\ hit' /\ search.robust /\ Cardinality(Workers) = 1 => CannotFlip']_vars
  BY <1>2, <1>4
<1> QED BY <1>1, <1>3, <1>4, Invariance, PTL DEF Spec, StopIsLossFree
=============================================================================
