---------------------------- MODULE RootDecision ----------------------------
(***************************************************************************)
(* How one Monte Carlo search decides its move (engine/montecarlo.c): the  *)
(* visits and wins of the root's children, the workers' budgets, the early *)
(* stop (GNUGO_MC_EARLYSTOP=1.0), the UNST extension and the final         *)
(* selection.  One worker is the serial search of uct_genmove, several are *)
(* uct_genmove_tree_parallel.  Which child a simulation visits and who     *)
(* wins it is a free choice: the claims in the code are about every        *)
(* outcome.  The LCB policy, a margin other than 1.0, the pools' limits,   *)
(* the serial stop at a simulation that adds no node and the abort of a    *)
(* ponder search are left out; the two counters of a child are             *)
(* read together and winrates compared exactly, by cross-multiplication.   *)
(***************************************************************************)
EXTENDS Naturals, FiniteSets, FiniteSetsExt, SequencesExt

CONSTANTS
    AllWorkers,
    Pass,
    Searches,       \* the searches there may be, a record each:
                    \*   workers  a nonempty subset of AllWorkers
                    \*   moves    the moves at the root, Pass possibly among them
                    \*   robust   mc_robust(): most visits, else highest winrate
                    \*   nodes    simulations per worker
                    \*   unst     simulations per worker in the UNST round
    CheckEvery      \* 256

ASSUME RootAssumption ==
    /\ IsFiniteSet(AllWorkers)
    /\ \A s \in Searches :
          /\ s.workers \subseteq AllWorkers /\ s.workers # {} /\ IsFiniteSet(s.moves)
          /\ <<>> \notin s.moves      \* which stands for no move
          /\ s.robust \in BOOLEAN /\ s.nodes \in Nat /\ s.unst \in Nat
    /\ CheckEvery \in Nat \ {0}

VARIABLES
    search,         \* the options of this search
    list,           \* the root's child list, newest first
    games, wins,    \* of every child
    sims, pc,       \* per worker
    at,             \* the child its simulation went through
    cap,            \* a->sim_cap
    hit,            \* mc_earlystop_hit
    round,          \* 1, or 2 in the UNST extension
    pick            \* *move, <<>> until selected

vars == <<search, list, games, wins, sims, pc, at, cap, hit, round, pick>>

Workers == search.workers
Moves == search.moves

Init ==
    /\ search \in Searches
    /\ list = <<>>
    /\ games = [m \in Moves |-> 0] /\ wins = [m \in Moves |-> 0]
    /\ sims = [w \in Workers |-> 0] /\ pc = [w \in Workers |-> "test"] /\ at = [w \in Workers |-> <<>>]
    /\ cap = search.nodes /\ hit = FALSE /\ round = 1 /\ pick = <<>>

(* wr(m) > wr(o) and wr(m) >= wr(o), a child without visits having wr 0.   *)
BetterRate(g, w, m, o) == w[m] * (IF g[o] = 0 THEN 1 ELSE g[o]) > w[o] * (IF g[m] = 0 THEN 1 ELSE g[m])
AtLeastRate(g, w, m, o) == ~BetterRate(g, w, o, m)

-----------------------------------------------------------------------------
(* The two scans of the child list.  Each keeps the most visited child and *)
(* the runner-up met so far; <<>> stands for none (-1 visits).             *)
None == <<>>

Runner(g, best, second, m) ==
    IF best = None \/ g[m] > g[best] THEN <<m, best>>
    ELSE IF second = None \/ g[m] > g[second] THEN <<best, m>> ELSE <<best, second>>

TopTwo(g) ==
    LET after[k \in 0 .. Len(list)] ==
            IF k = 0 THEN <<None, None>>
            ELSE Runner(g, after[k - 1][1], after[k - 1][2], list[k])
    IN after[Len(list)]

(* MUTANT: a lead equal to the remaining simulations is enough.            *)
Decided_AtTie(remaining) ==
    LET best == TopTwo(games)[1]  second == TopTwo(games)[2] IN
    /\ second # None
    /\ games[best] >= games[second] + remaining
    /\ AtLeastRate(games, wins, best, second)

(* mc_earlystop_decided with margin 1.0.                                   *)
Decided(remaining) ==
    LET best == TopTwo(games)[1]  second == TopTwo(games)[2] IN
    /\ second # None
    /\ games[best] > games[second] + remaining
    /\ AtLeastRate(games, wins, best, second)

(* mc_search_unstable: another child of weight is better by 0.02, or the   *)
(* runner-up has more than 0.85 of the visits.                             *)
BestRate(acc, m) ==
    LET top == Runner(games, acc.best, acc.second, m) IN
    [best |-> top[1], second |-> top[2],
     rate |-> IF /\ acc.rate = None \/ BetterRate(games, wins, m, acc.rate)
                 /\ games[m] > games[top[1]] \div 4
                 /\ games[m] > 0
              THEN m ELSE acc.rate]

Unstable ==
    LET scan == FoldLeft(BestRate, [best |-> None, second |-> None, rate |-> None], list)
        best == scan.best  second == scan.second  rate == scan.rate
    IN /\ best # None /\ second # None /\ games[best] > 0
       /\ \/ rate # None /\ 50 * wins[rate] * games[best] > games[rate] * (50 * wins[best] + games[best])
          \/ 100 * games[second] > 85 * games[best]

(* The final selection over the children with visits, in list order: the   *)
(* first child to beat all before it, a win at least; or the most visited  *)
(* one with the winrate as tie-break, unless that is a pass.               *)
HighestRate(g, w) ==
    LET after[k \in 0 .. Len(list)] ==
            IF k = 0 THEN None
            ELSE LET best == after[k - 1]  m == list[k] IN
                 IF /\ g[m] > 0
                    /\ IF best = None THEN w[m] > 0 ELSE BetterRate(g, w, m, best)
                 THEN m ELSE best
    IN after[Len(list)]

(* MUTANT: no tie-break by winrate.                                        *)
MostVisited_FirstOfEqual(g, w) ==
    FoldLeft(LAMBDA best, m : IF g[m] > 0 /\ (best = None \/ g[m] > g[best]) THEN m ELSE best, None, list)

MostVisited(g, w) ==
    LET after[k \in 0 .. Len(list)] ==
            IF k = 0 THEN None
            ELSE LET best == after[k - 1]  m == list[k] IN
                 IF /\ g[m] > 0
                    /\ \/ best = None
                       \/ g[m] > g[best]
                       \/ g[m] = g[best] /\ BetterRate(g, w, m, best)
                 THEN m ELSE best
    IN after[Len(list)]

Selection(g, w) ==
    IF search.robust /\ MostVisited(g, w) \notin {None, Pass} THEN MostVisited(g, w)
    ELSE IF HighestRate(g, w) # None THEN HighestRate(g, w) ELSE Pass

-----------------------------------------------------------------------------
(* The worker loop.                                                        *)

(* A pass becomes a child only where no child is seen; with one worker     *)
(* that means every point was refused, and no other child will come.       *)
MayVisit(m) ==
    \/ m \in ToSet(list)
    \/ m = Pass /\ list = <<>>
    \/ m # Pass /\ (Pass \in ToSet(list) => Cardinality(Workers) > 1)

(* A simulation goes down through a child; a new one heads the list.       *)
StartSim(w) ==
    /\ pc[w] = "test" /\ ~hit /\ sims[w] < cap
    /\ \E m \in Moves :
          /\ MayVisit(m)
          /\ list' = IF m \in ToSet(list) THEN list ELSE <<m>> \o list
          /\ at' = [at EXCEPT ![w] = m]
    /\ pc' = [pc EXCEPT ![w] = "sim"]
    /\ UNCHANGED <<search, games, wins, sims, cap, hit, round, pick>>

(* MUTANT: the loop stops one simulation short.                            *)
LeaveLoop_OneShort(w) ==
    /\ pc[w] = "test" /\ (hit \/ sims[w] + 1 >= cap)
    /\ pc' = [pc EXCEPT ![w] = "done"]
    /\ UNCHANGED <<search, list, games, wins, sims, at, cap, hit, round, pick>>

LeaveLoop(w) ==
    /\ pc[w] = "test" /\ (hit \/ sims[w] >= cap)
    /\ pc' = [pc EXCEPT ![w] = "done"]
    /\ UNCHANGED <<search, list, games, wins, sims, at, cap, hit, round, pick>>

(* The result is backed up.                                                *)
BackUp(w) ==
    /\ pc[w] = "sim"
    /\ games' = [games EXCEPT ![at[w]] = @ + 1]
    /\ \E won \in {0, 1} : wins' = [wins EXCEPT ![at[w]] = @ + won]
    /\ at' = [at EXCEPT ![w] = <<>>]
    /\ pc' = [pc EXCEPT ![w] = "count"]
    /\ UNCHANGED <<search, list, sims, cap, hit, round, pick>>

(* Only the parallel workers look for an early stop in the UNST round.     *)
MayStop(n) == n % CheckEvery = 0 /\ (round = 1 \/ Cardinality(Workers) > 1)

(* Count it; every CheckEvery simulations see whether the move is decided, *)
(* taking the other workers to be exactly as far.                          *)
Count(w) ==
    LET n == sims[w] + 1 IN
    /\ pc[w] = "count"
    /\ sims' = [sims EXCEPT ![w] = n]
    /\ hit' = (hit \/ (MayStop(n) /\ Decided((cap - n) * Cardinality(Workers))))
    /\ pc' = [pc EXCEPT ![w] = "test"]
    /\ UNCHANGED <<search, list, games, wins, at, cap, round, pick>>

AllDone == \A w \in Workers : pc[w] = "done"

(* One more round for an unstable decision.                                *)
Extend ==
    /\ AllDone /\ round = 1 /\ search.unst > 0 /\ Unstable
    /\ round' = 2
    /\ hit' = FALSE
    /\ cap' = search.unst
    /\ sims' = [w \in Workers |-> 0]
    /\ pc' = [w \in Workers |-> "test"]
    /\ UNCHANGED <<search, list, games, wins, at, pick>>

Select ==
    /\ AllDone /\ pick = <<>>
    /\ round = 2 \/ search.unst = 0 \/ ~Unstable
    /\ pick' = <<Selection(games, wins)>>
    /\ UNCHANGED <<search, list, games, wins, sims, pc, at, cap, hit, round>>

Next ==
    \/ \E w \in Workers : StartSim(w) \/ LeaveLoop(w) \/ BackUp(w) \/ Count(w)
    \/ Extend \/ Select

Spec == Init /\ [][Next]_vars

-----------------------------------------------------------------------------
(* The sum of the numbers that f gives to the members of S.                *)
Tally(f, S) == Cardinality(UNION {{x} \X (1 .. f[x]) : x \in S})

(* What a worker has in the counts in this round.                          *)
Counted == [w \in Workers |-> sims[w] + (IF pc[w] = "count" THEN 1 ELSE 0)]

(* Simulations of this round not yet in the counts, if nobody stopped.     *)
Remaining == Cardinality(Workers) * cap - Tally(Counted, Workers)

(* The counts that the remaining simulations could have led to.            *)
Splits ==
    {s \in [more : [Moves -> 0 .. Remaining], won : [Moves -> 0 .. Remaining]] :
        /\ Tally(s.more, Moves) = Remaining
        /\ \A m \in Moves : s.won[m] <= s.more[m]}

Outcomes ==
    {[games |-> [m \in Moves |-> games[m] + s.more[m]], wins |-> [m \in Moves |-> wins[m] + s.won[m]]] :
        s \in Splits}

CannotFlip == \A o \in Outcomes : Selection(o.games, o.wins) = Selection(games, wins)

(* "further simulation cannot alter the move": an early stop of a serial   *)
(* search with the robust selection never changes the move.  Several       *)
(* workers are never equally far when one estimates what remains, and the  *)
(* default selection by winrate can still turn to a third child: for those *)
(* the claim does not hold.                                                *)
StopIsLossFree ==
    [][~hit /\ hit' /\ search.robust /\ Cardinality(Workers) = 1 => CannotFlip']_vars

(* The selected move against its definition: no visited child is strictly  *)
(* better.  The robust policy gives a most visited child, unless that is   *)
(* the pass; otherwise PASS needs that no child has a win to show.         *)
SelectionIsBest ==
    pick # <<>> =>
        LET p == pick[1]
            visited == {m \in Moves : games[m] > 0}
            most == {m \in visited : \A n \in visited :
                        games[n] < games[m] \/ (games[n] = games[m] /\ AtLeastRate(games, wins, m, n))}
        IN \/ search.robust /\ p \in most \ {Pass}
           \/ /\ search.robust => visited = {} \/ Pass \in most
              /\ \/ p \in visited /\ \A n \in visited : AtLeastRate(games, wins, p, n)
                 \/ p = Pass /\ \A n \in visited : wins[n] = 0

(* Every finished simulation is in the counts exactly once, the lost ones  *)
(* included, and the search never exceeds its two budgets.                 *)
VisitsAreSimulations ==
    LET visits == Tally(games, Moves)
    IN /\ round = 1 => visits = Tally(Counted, Workers)
       /\ \A m \in Moves : wins[m] <= games[m]
       /\ visits <= Cardinality(Workers) * (search.nodes + search.unst)
       /\ pick # <<>> /\ ~hit /\ round = 1 => visits = Cardinality(Workers) * search.nodes
=============================================================================
