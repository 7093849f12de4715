----------------------------- MODULE TreeReuse -----------------------------
(***************************************************************************)
(* Tree reuse between Monte Carlo searches (engine/montecarlo.c): a search *)
(* stores its tree in a cache, and the next one starts from the part of it *)
(* that belongs to the current position.  Around it, the GTP commands that *)
(* change what "the current position" is.                                  *)
(*                                                                         *)
(* A tree is a function from paths (the moves from its root) to nodes.  A  *)
(* node keeps its untested moves and, in place of its counters, the        *)
(* situations its simulations were played in.  The order of a child list   *)
(* is left open: a cut keeps any breadth-first part of a tree.  Captures,  *)
(* refused moves and the komi under which a win counted are left out.      *)
(***************************************************************************)
EXTENDS Naturals, FiniteSets, Sequences, FiniteSetsExt, SequencesExt

CONSTANTS
    Boards,         \* the board sizes, each as the set of its points
    Pass,
    SimCap,         \* nodes: simulations of a search
    CacheCap,       \* MC_REUSE_CACHE_NODES
    Reserve,        \* 64: what a graft leaves of a pool
    MaxDepth,       \* UCT_MAX_SEARCH_DEPTH
    MaxHist         \* bound on the moves of a game

ASSUME ReuseAssumption ==
    /\ \A B \in Boards : IsFiniteSet(B) /\ Pass \notin B
    /\ {SimCap, CacheCap, MaxDepth} \subseteq Nat \ {0}
    /\ {Reserve, MaxHist} \subseteq Nat

VARIABLES
    board,          \* board_size
    hist,           \* move_history_color / move_history_pos
    cache,          \* mc_reuse_cache
    mode,           \* "idle", or the kind of search that runs
    color, allowed, \* of the search
    tree,           \* its tree
    pool, arcs,     \* num_arcs and num_used_arcs
    sims

gameVars == <<board, hist>>
searchVars == <<mode, color, allowed, tree, pool, arcs, sims>>
vars == <<gameVars, cache, searchVars>>

Colors == {"black", "white"}
Other(c) == IF c = "black" THEN "white" ELSE "black"
Points == UNION Boards
Kinds == {"genmove", "analyse"}   \* analyse: reg_genmove, restricted_genmove, ponder

-----------------------------------------------------------------------------
(* Positions.                                                              *)

(* The player to move after k moves that alternate from c.                 *)
Mover(c, k) == IF k % 2 = 0 THEN c ELSE Other(c)

(* The stones put by a game, and by a path that alternates from c.  This   *)
(* is all that a board hash stands for.                                    *)
StonesOf(h) == {<<h[k].color, h[k].move>> : k \in {j \in DOMAIN h : h[j].move # Pass}}
StonesAlong(c, p) == {<<Mover(c, k - 1), p[k]>> : k \in {j \in DOMAIN p : p[j] # Pass}}

EmptyIn(stones) == board \ {s[2] : s \in stones}

StonesAt(p) == StonesOf(hist) \cup StonesAlong(color, p)

(* What a simulation that passes a node is a simulation of.                *)
Situation(p) ==
    [board |-> board, stones |-> StonesAt(p), mover |-> Mover(color, Len(p))]

-----------------------------------------------------------------------------
(* Copying trees.                                                          *)
(* The breadth-first parts of t that have n nodes, or all of t.            *)
Cuts(t, n) ==
    IF Cardinality(DOMAIN t) <= n THEN {DOMAIN t}
    ELSE {K \in kSubset(n, DOMAIN t) :
             /\ <<>> \in K /\ \A q \in K \ {<<>>} : Front(q) \in K
             /\ \A q \in K, d \in DOMAIN t \ K : Len(q) <= Len(d)}

(* MUTANT: the bit of a dropped move stays cleared.                        *)
CopyOf_LosesMoves(t, K) == [p \in K |-> t[p]]

(* A copy of the part K: a move whose child is dropped is untested again.  *)
CopyOf(t, K) ==
    [p \in K |-> [t[p] EXCEPT !.untested =
                      @ \cup {m \in board : Append(p, m) \in DOMAIN t \ K}]]

Subtree(t, p) ==
    [q \in {SubSeq(r, Len(p) + 1, Len(r)) : r \in {r \in DOMAIN t : IsPrefix(p, r)}} |-> t[p \o q]]

-----------------------------------------------------------------------------
Init ==
    /\ board \in Boards /\ hist = <<>>
    /\ cache = [have |-> FALSE]
    /\ mode = "idle" /\ color = "black" /\ allowed = {} /\ tree = <<>>
    /\ pool = 0 /\ arcs = 0 /\ sims = 0

-----------------------------------------------------------------------------
(* The start of a search.                                                  *)

(* The real moves since the cached search.                                 *)
Played == [k \in 1 .. Len(hist) - cache.at |-> hist[cache.at + k].move]

(* MUTANT: the hash is not compared.                                       *)
Matches_NoHash(c) ==
    /\ cache.have
    /\ Len(hist) - cache.at \in 0 .. 2
    /\ \A k \in 1 .. Len(hist) - cache.at : hist[cache.at + k].color = Mover(cache.color, k - 1)
    /\ c = Mover(cache.color, Len(hist) - cache.at)
    /\ Played \in DOMAIN cache.tree

(* The cached tree has a node for the current position: up to two moves    *)
(* later, in alternation, on the path they took, with the same hash.       *)
Matches(c) ==
    /\ cache.have
    /\ Len(hist) - cache.at \in 0 .. 2
    /\ \A k \in 1 .. Len(hist) - cache.at : hist[cache.at + k].color = Mover(cache.color, k - 1)
    /\ c = Mover(cache.color, Len(hist) - cache.at)
    /\ Played \in DOMAIN cache.tree
    /\ cache.stones \cup StonesAlong(cache.color, Played) = StonesOf(hist)

Cached == IF cache.have THEN Cardinality(DOMAIN cache.tree) ELSE 0

(* MUTANT: the pool has no headroom for the graft.                         *)
PoolFor_NoHeadroom == SimCap

PoolFor == SimCap + Cached

(* How many nodes a graft may add: the cached ones, what the reserve       *)
(* leaves of the pool, and what the copy queue holds (qcap - 1).           *)
GraftCap == Min({Cached - 1, PoolFor \div 2} \cup {IF PoolFor > Reserve THEN PoolFor - Reserve - 1 ELSE 0})

(* A pair is allocated before the copy finds its queue full.               *)
QueueIsFull(K) == K # DOMAIN Subtree(cache.tree, Played) /\ PoolFor \div 2 < Min({Cached - 1, PoolFor - Reserve - 1})

FreshRoot(points) == [untested |-> points \cap EmptyIn(StonesOf(hist)), under |-> {}]

(* The copied part under the new root, whose untested moves are its own    *)
(* fresh ones and the dropped ones, less those that came with a child.     *)
Grafted(points, K) ==
    LET src == Subtree(cache.tree, Played)
        copy == CopyOf(src, K)
        dropped == {m \in board : <<m>> \in DOMAIN src \ K}
        root == [untested |-> (FreshRoot(points).untested \cup dropped) \ {m \in Points : <<m>> \in K},
                 under |-> src[<<>>].under]
    IN [copy EXCEPT ![<<>>] = root]

Begin(kind, c, points) ==
    /\ mode = "idle"
    /\ mode' = kind /\ color' = c /\ allowed' = points
    /\ pool' = PoolFor /\ sims' = 0
    /\ IF Matches(c)
       THEN \E K \in Cuts(Subtree(cache.tree, Played), GraftCap + 1) :
               /\ tree' = Grafted(points, K)
               /\ arcs' = Cardinality(K) - 1 + (IF QueueIsFull(K) THEN 1 ELSE 0)
       ELSE /\ tree' = [p \in {<<>>} |-> FreshRoot(points)]
            /\ arcs' = 0
    /\ UNCHANGED <<gameVars, cache>>

-----------------------------------------------------------------------------
(* The search.                                                             *)

(* A pass is tried where nothing else is left and no child exists.         *)
NextMoves(p) ==
    IF tree[p].untested # {} THEN tree[p].untested
    ELSE IF \E q \in DOMAIN tree : Len(q) = Len(p) + 1 /\ IsPrefix(p, q) THEN {} ELSE {Pass}

Visited(t, p) ==
    [q \in DOMAIN t |-> IF IsPrefix(q, p) THEN [t[q] EXCEPT !.under = @ \cup {Situation(q)}] ELSE t[q]]

(* A simulation goes down to a node and adds a child, with the untested    *)
(* moves of its own position (uct_init_node without allowed moves).        *)
Expand(p, m) ==
    LET q == Append(p, m)
        child == [untested |-> EmptyIn(StonesAt(q)), under |-> {}]
        parent == [tree EXCEPT ![p].untested = @ \ {m}]
        grown == [r \in DOMAIN tree \cup {q} |-> IF r = q THEN child ELSE parent[r]]
    IN /\ Len(p) < MaxDepth /\ m \in NextMoves(p)
       /\ tree' = Visited(grown, q)
       /\ arcs' = arcs + 1

(* Or it ends in a node at the greatest depth, which is scored again.      *)
Rescore(p) ==
    /\ Len(p) = MaxDepth
    /\ tree' = Visited(tree, p)
    /\ UNCHANGED arcs

(* One more simulation of either search.  The serial loop also ends when   *)
(* ten arcs are left and when a simulation added none: as Finish may come  *)
(* at any time, every such end is among those of the model.                *)
Simulate ==
    /\ mode # "idle" /\ sims < SimCap
    /\ \E p \in DOMAIN tree : Rescore(p) \/ \E m \in NextMoves(p) : Expand(p, m)
    /\ sims' = sims + 1
    /\ UNCHANGED <<gameVars, cache, mode, color, allowed, pool>>

(* mc_reuse_store: nothing of a search without a simulation.               *)
Store ==
    IF tree[<<>>].under = {} THEN cache' = [have |-> FALSE]
    ELSE \E K \in Cuts(tree, CacheCap) :
            cache' = [have |-> TRUE, tree |-> CopyOf(tree, K), color |-> color,
                      at |-> Len(hist), stones |-> StonesOf(hist)]

(* The search ends, at its budget or stopped before; genmove.c may play    *)
(* another move than the tree's favourite.                                 *)
Finish ==
    /\ mode # "idle"
    /\ Store
    /\ mode' = "idle" /\ color' = "black" /\ allowed' = {} /\ tree' = <<>>
    /\ pool' = 0 /\ arcs' = 0 /\ sims' = 0
    /\ IF mode = "genmove"
       THEN \E m \in EmptyIn(StonesOf(hist)) \cup {Pass} :
               hist' = Append(hist, [color |-> color, move |-> m])
       ELSE UNCHANGED hist
    /\ UNCHANGED board

-----------------------------------------------------------------------------
(* The GTP commands.  A genmove searches only where it has a choice; when  *)
(* it does not search, it is one more way to Play.  Pondering always does. *)
HasChoice(points) == Cardinality(points \cap EmptyIn(StonesOf(hist))) > 1

Genmove(c) == Len(hist) < MaxHist /\ HasChoice(board) /\ Begin("genmove", c, board)
Analyse(c) == Begin("analyse", c, board)
RestrictedGenmove(c, points) == HasChoice(points) /\ Begin("analyse", c, points)

Play(c) ==
    /\ mode = "idle" /\ Len(hist) < MaxHist
    /\ \E m \in EmptyIn(StonesOf(hist)) \cup {Pass} :
          hist' = Append(hist, [color |-> c, move |-> m])
    /\ UNCHANGED <<board, cache, searchVars>>

Undo ==
    /\ mode = "idle" /\ hist # <<>>
    /\ hist' = Front(hist)
    /\ UNCHANGED <<board, cache, searchVars>>

ClearBoard ==
    /\ mode = "idle"
    /\ hist' = <<>>
    /\ UNCHANGED <<board, cache, searchVars>>

Boardsize(B) ==
    /\ mode = "idle"
    /\ board' = B /\ hist' = <<>>
    /\ UNCHANGED <<cache, searchVars>>

Next ==
    \/ \E c \in Colors : Genmove(c) \/ Analyse(c) \/ Play(c)
    \/ \E c \in Colors, points \in SUBSET board \ {{}, board} : RestrictedGenmove(c, points)
    \/ Simulate \/ Finish
    \/ Undo \/ ClearBoard
    \/ \E B \in Boards : Boardsize(B)

Spec == Init /\ [][Next]_vars

-----------------------------------------------------------------------------
Nodes == [untested : SUBSET Points,
          under : SUBSET [board : Boards, stones : SUBSET (Colors \X Points), mover : Colors]]

IsTree(t) ==
    /\ \A p \in DOMAIN t : p = <<>> \/ Front(p) \in DOMAIN t
    /\ \A p \in DOMAIN t : Len(p) <= MaxDepth /\ t[p] \in Nodes

TypeOK ==
    /\ board \in Boards
    /\ hist \in Seq([color : Colors, move : Points \cup {Pass}]) /\ Len(hist) <= MaxHist
    /\ mode \in {"idle"} \cup Kinds /\ color \in Colors /\ allowed \subseteq board
    /\ IsTree(tree) /\ (mode = "idle" <=> DOMAIN tree = {})
    /\ {pool, arcs} \subseteq Nat /\ sims \in 0 .. SimCap
    /\ cache.have =>
          /\ IsTree(cache.tree) /\ Cardinality(DOMAIN cache.tree) \in 1 .. CacheCap
          /\ cache.color \in Colors /\ cache.at \in 0 .. MaxHist

Tried(p) == {m \in Points \cup {Pass} : Append(p, m) \in DOMAIN tree}

(* "the graft must leave every dropped move as merely not tried yet": at   *)
(* every node of a search, however often its tree was stored, cut and      *)
(* grafted, a move that may be considered is untested or has a child, and  *)
(* no move is both (it would be given a second child).                     *)
NoMoveIsLost ==
    \A p \in DOMAIN tree :
        /\ EmptyIn(StonesAt(p)) \cap (IF p = <<>> THEN allowed ELSE board)
              \subseteq tree[p].untested \cup Tried(p)
        /\ tree[p].untested \cap Tried(p) = {}

(* "The hash check makes staleness structurally impossible": every         *)
(* simulation counted in a node was one of the node's own position, with   *)
(* the same player to move, on the same board.                             *)
StatisticsAreOfThePosition ==
    \A p \in DOMAIN tree : \A u \in tree[p].under :
        u = Situation(p)

(* "the fresh simulation budget stays untouched": what the graft used of   *)
(* the pool leaves an arc for every simulation of the budget.              *)
BudgetFits == mode # "idle" => arcs + (SimCap - sims) <= pool
=============================================================================
