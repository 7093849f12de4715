------------------------------ MODULE UctTree ------------------------------
(***************************************************************************)
(* The shared tree of the tree-parallel Monte Carlo search                 *)
(* (engine/montecarlo.c): worker threads descend one tree, expand it under *)
(* sharded locks, allocate nodes and arcs from two pools by fetch-and-add, *)
(* and back results up.  Child lists are linked lists that readers scan    *)
(* without a lock.  One action per step that another thread can see.       *)
(*                                                                         *)
(* Left out: the playout, the scores, RAVE tables and the formulas that    *)
(* rank children (which child is chosen is a free choice), and the flags   *)
(* that end a search early (module Ponder): a worker may find one set      *)
(* whenever it tests its loop condition.                                   *)
(***************************************************************************)
EXTENDS Integers, Sequences, FiniteSets

CONSTANTS
    Threads,        \* worker threads
    Points,         \* the empty points a move can be tried on
    Unplayable,     \* those where the move is refused (an eye, illegal)
    Pass,           \* PASS_MOVE
    NumNodes,       \* tree->num_nodes
    NumArcs,        \* tree->num_arcs
    Margin,         \* the slack of the loop condition (64)
    NumLocks,       \* UCT_NUM_LOCKS
    MaxDepth,       \* UCT_MAX_SEARCH_DEPTH; below 3, so that three passes
                    \* in a row end a simulation no earlier
    SimCap          \* a->sim_cap

ASSUME UctAssumption ==
    /\ NumNodes \in Nat \ {0}
    /\ NumArcs \in Nat \ {0}
    /\ Margin \in Nat
    /\ NumLocks \in Nat \ {0}
    /\ MaxDepth \in Nat \ {0}
    /\ SimCap \in Nat
    /\ Unplayable \subseteq Points
    /\ Pass \notin Points
    /\ Threads \cap Int = {}
    /\ IsFiniteSet(Threads)

NoArc == -1
NoNode == -1
Root == 0
Pool == 0 .. NumNodes - 1
Nodes == Pool \cup Threads        \* t names tree->overflow_node of t's view
Arcs == 0 .. NumArcs - 1
Moves == Points \cup {Pass}
Free == -1

VARIABLES
    used_nodes, used_arcs,        \* the shared allocation cursors
    games, virtual_loss, untested, child,   \* the fields of a node
    arc,                          \* the arc pool
    owner,                        \* history: the node whose list an arc was put in
    lock,                         \* the sharded locks
    pc, sims,                     \* a worker's place and its finished simulations
    path,                         \* the nodes of its descent, root first
    move, bits, node, slot        \* its locals: the move it expands, the
                                  \* untested bits it read, the node and the
                                  \* arc it has allocated

tree == <<used_nodes, used_arcs, games, virtual_loss, untested, child, arc, owner>>
locals == <<path, move, bits, node, slot>>
vars == <<tree, lock, pc, sims, locals>>

Last(s) == s[Len(s)]
At(t) == Last(path[t])
Depth(t) == Len(path[t]) - 1
LockOf(n) == n % NumLocks

(* A set of arcs that holds whatever a scan from n->child meets.           *)
Scanned(n, S) ==
    /\ child[n] \in S \cup {NoArc}
    /\ \A a \in S : arc[a].next \in S \cup {NoArc}

(* The arcs on n's list: the least such set.                               *)
OnList(n) == {a \in Arcs : \A S \in SUBSET Arcs : Scanned(n, S) => a \in S}

Init ==
    /\ used_nodes = 1 /\ used_arcs = 0      \* the root is node 0
    /\ games = [n \in Nodes |-> 0]
    /\ virtual_loss = [n \in Nodes |-> 0]
    /\ untested = [n \in Nodes |-> IF n = Root THEN Points ELSE {}]
    /\ child = [n \in Nodes |-> NoArc]
    /\ arc = [a \in Arcs |-> [move |-> Pass, node |-> Root, next |-> NoArc]]
    /\ owner = [a \in Arcs |-> NoNode]
    /\ lock = [l \in 0 .. NumLocks - 1 |-> Free]
    /\ pc = [t \in Threads |-> "test"]
    /\ sims = [t \in Threads |-> 0]
    /\ path = [t \in Threads |-> <<Root>>]
    /\ move = [t \in Threads |-> Pass]
    /\ bits = [t \in Threads |-> {}]
    /\ node = [t \in Threads |-> Root]
    /\ slot = [t \in Threads |-> NoArc]

Goto(t, label) == pc' = [pc EXCEPT ![t] = label]

-----------------------------------------------------------------------------
(* The worker's loop.                                                      *)

(* Start a simulation at the root while there is budget and room.          *)
StartSim(t) ==
    /\ pc[t] = "test"
    /\ sims[t] < SimCap
    /\ used_nodes < NumNodes - Margin
    /\ used_arcs < NumArcs - Margin
    /\ path' = [path EXCEPT ![t] = <<Root>>]
    /\ Goto(t, "select")
    /\ UNCHANGED <<tree, lock, sims, move, bits, node, slot>>

(* Leave the loop: out of budget or room, aborted, or the move is decided. *)
LeaveLoop(t) ==
    /\ pc[t] = "test"
    /\ Goto(t, "done")
    /\ UNCHANGED <<tree, lock, sims, locals>>

(* The locals of a call that is over are dead: give them their first value.*)
ForgetLocals(t) ==
    /\ move' = [move EXCEPT ![t] = Pass]
    /\ bits' = [bits EXCEPT ![t] = {}]
    /\ node' = [node EXCEPT ![t] = Root]
    /\ slot' = [slot EXCEPT ![t] = NoArc]

(* Step down to node n: virtual loss first, then the recursive call.       *)
Descend(t, n) ==
    /\ virtual_loss' = [virtual_loss EXCEPT ![n] = @ + 1]
    /\ path' = [path EXCEPT ![t] = Append(@, n)]
    /\ Goto(t, "select")
    /\ ForgetLocals(t)

(* A simulation is scored at the depth limit and at a node without visits. *)
IsLeaf(t) == Depth(t) >= MaxDepth \/ (games[At(t)] = 0 /\ At(t) # Root)

Score(t) ==
    /\ pc[t] = "select"
    /\ IsLeaf(t)
    /\ Goto(t, "backup")
    /\ UNCHANGED <<tree, lock, sims, locals>>

(* uct_play_move follows the arc to the best child.                        *)
SelectChild(t) ==
    /\ pc[t] = "select"
    /\ ~IsLeaf(t)
    /\ \E a \in OnList(At(t)) : Descend(t, arc[a].node)
    /\ UNCHANGED <<used_nodes, used_arcs, games, untested, child, arc, owner, lock, sims>>

(* uct_play_move picks a move whose untested bit it reads as set.          *)
SelectUntested(t) ==
    /\ pc[t] = "select"
    /\ ~IsLeaf(t)
    /\ \E m \in untested[At(t)] : move' = [move EXCEPT ![t] = m]
    /\ bits' = [bits EXCEPT ![t] = untested[At(t)]]
    /\ Goto(t, "clear")
    /\ UNCHANGED <<tree, lock, sims, path, node, slot>>

(* Nothing to try, and the scan of the list met no arc of positive value:  *)
(* there was none then (arcs may have come since), or the exploration term *)
(* was log(games) = 0.  Pass.                                              *)
SelectPass(t) ==
    /\ pc[t] = "select"
    /\ ~IsLeaf(t)
    /\ untested[At(t)] = {}
    /\ move' = [move EXCEPT ![t] = Pass]
    /\ Goto(t, "find")
    /\ UNCHANGED <<tree, lock, sims, path, bits, node, slot>>

(* MUTANT: the bit of a move that is refused is left set.                  *)
ClearUntested_KeepsRefused(t) ==
    /\ pc[t] = "clear"
    /\ IF move[t] \in Unplayable
       THEN Goto(t, "select") /\ ForgetLocals(t) /\ UNCHANGED untested
       ELSE /\ Goto(t, "find")
            /\ untested' = [untested EXCEPT ![At(t)] = bits[t] \ {move[t]}]
            /\ bits' = [bits EXCEPT ![t] = {}]
            /\ UNCHANGED <<move, node, slot>>
    /\ UNCHANGED <<used_nodes, used_arcs, games, virtual_loss, child, arc, owner, lock,
                   sims, path>>

(* untested &= ~bit, a plain load and store: a bit another thread cleared  *)
(* in between is set again.  Then the move is played, unless it is refused.*)
ClearUntested(t) ==
    /\ pc[t] = "clear"
    /\ untested' = [untested EXCEPT ![At(t)] = bits[t] \ {move[t]}]
    /\ IF move[t] \in Unplayable
       THEN Goto(t, "select") /\ ForgetLocals(t)
       ELSE /\ Goto(t, "find")
            /\ bits' = [bits EXCEPT ![t] = {}]
            /\ UNCHANGED <<move, node, slot>>
    /\ UNCHANGED <<used_nodes, used_arcs, games, virtual_loss, child, arc, owner, lock,
                   sims, path>>

-----------------------------------------------------------------------------
(* uct_find_node.                                                          *)

(* MUTANT: the parent's lock is not taken.                                 *)
FindChild_NoLock(t) ==
    /\ pc[t] = "find"
    /\ LET same == {a \in OnList(At(t)) : arc[a].move = move[t]}
       IN \/ \E a \in same : Descend(t, arc[a].node)
          \/ same = {} /\ Goto(t, "init") /\ UNCHANGED <<virtual_loss, locals>>
    /\ UNCHANGED <<used_nodes, used_arcs, games, untested, child, arc, owner, lock, sims>>

(* MUTANT: the list is not searched for an arc another thread has added.   *)
FindChild_NoScan(t) ==
    /\ pc[t] = "find"
    /\ lock[LockOf(At(t))] = Free
    /\ lock' = [lock EXCEPT ![LockOf(At(t))] = t]
    /\ Goto(t, "init")
    /\ UNCHANGED <<tree, sims, locals>>

(* Take the parent's lock and look for an arc of the same move, which      *)
(* another thread may have just added.                                     *)
FindChild(t) ==
    /\ pc[t] = "find"
    /\ lock[LockOf(At(t))] = Free
    /\ LET same == {a \in OnList(At(t)) : arc[a].move = move[t]}
       IN \/ /\ \E a \in same : Descend(t, arc[a].node)
             /\ UNCHANGED lock
          \/ /\ same = {}
             /\ lock' = [lock EXCEPT ![LockOf(At(t))] = t]
             /\ Goto(t, "init")
             /\ UNCHANGED <<virtual_loss, locals>>
    /\ UNCHANGED <<used_nodes, used_arcs, games, untested, child, arc, owner, sims>>

(* MUTANT: a new node takes over its parent's untested bits.               *)
InitNode_InheritsUntested(t) ==
    LET new == IF used_nodes < NumNodes THEN used_nodes ELSE t IN
    /\ pc[t] = "init"
    /\ used_nodes' = used_nodes + 1
    /\ node' = [node EXCEPT ![t] = new]
    /\ games' = [games EXCEPT ![new] = 0]
    /\ virtual_loss' = [virtual_loss EXCEPT ![new] = 0]
    /\ child' = [child EXCEPT ![new] = NoArc]
    /\ untested' = [untested EXCEPT ![new] = untested[At(t)]]
    /\ Goto(t, "arc")
    /\ UNCHANGED <<used_arcs, arc, owner, lock, sims, path, move, bits, slot>>

(* uct_init_node: the next node of the pool, or the private overflow node. *)
InitNode(t) ==
    LET new == IF used_nodes < NumNodes THEN used_nodes ELSE t IN
    /\ pc[t] = "init"
    /\ used_nodes' = used_nodes + 1
    /\ node' = [node EXCEPT ![t] = new]
    /\ games' = [games EXCEPT ![new] = 0]
    /\ virtual_loss' = [virtual_loss EXCEPT ![new] = 0]
    /\ child' = [child EXCEPT ![new] = NoArc]
    /\ untested' = [untested EXCEPT ![new] = Points]
    /\ Goto(t, "arc")
    /\ UNCHANGED <<used_arcs, arc, owner, lock, sims, path, move, bits, slot>>

Unlock(t) == lock' = [lock EXCEPT ![LockOf(At(t))] = Free]

(* Allocate the arc and fill it in; without an arc, or with the overflow   *)
(* node, return the node unlinked.                                         *)
InitArc(t) ==
    /\ pc[t] = "arc"
    /\ used_arcs' = used_arcs + 1
    /\ IF used_arcs >= NumArcs \/ node[t] = t
       THEN /\ Unlock(t)
            /\ Descend(t, node[t])
            /\ UNCHANGED arc
       ELSE /\ arc' = [arc EXCEPT ![used_arcs] =
                          [move |-> move[t], node |-> node[t], next |-> child[At(t)]]]
            /\ slot' = [slot EXCEPT ![t] = used_arcs]
            /\ Goto(t, "link")
            /\ UNCHANGED <<lock, virtual_loss, path, move, bits, node>>
    /\ UNCHANGED <<used_nodes, games, untested, child, owner, sims>>

(* MUTANT: a list that is not empty is extended behind its first arc.      *)
LinkArc_BehindFirst(t) ==
    /\ pc[t] = "link"
    /\ IF child[At(t)] = NoArc
       THEN child' = [child EXCEPT ![At(t)] = slot[t]] /\ UNCHANGED arc
       ELSE /\ arc' = [arc EXCEPT ![slot[t]].next = arc[child[At(t)]].next,
                                  ![child[At(t)]].next = slot[t]]
            /\ UNCHANGED child
    /\ owner' = [owner EXCEPT ![slot[t]] = At(t)]
    /\ Unlock(t)
    /\ Descend(t, node[t])
    /\ UNCHANGED <<used_nodes, used_arcs, games, untested, sims>>

(* Publish the arc at the head of the parent's list and unlock.            *)
LinkArc(t) ==
    /\ pc[t] = "link"
    /\ child' = [child EXCEPT ![At(t)] = slot[t]]
    /\ owner' = [owner EXCEPT ![slot[t]] = At(t)]
    /\ Unlock(t)
    /\ Descend(t, node[t])
    /\ UNCHANGED <<used_nodes, used_arcs, games, untested, arc, sims>>

-----------------------------------------------------------------------------
(* MUTANT: the virtual loss is not taken back.                             *)
Backup_KeepsVirtualLoss(t) ==
    /\ pc[t] = "backup"
    /\ games' = [games EXCEPT ![At(t)] = @ + 1]
    /\ IF Depth(t) > 0
       THEN /\ path' = [path EXCEPT ![t] = SubSeq(@, 1, Len(@) - 1)]
            /\ UNCHANGED <<pc, sims>>
       ELSE /\ sims' = [sims EXCEPT ![t] = @ + 1]
            /\ Goto(t, "test")
            /\ UNCHANGED path
    /\ UNCHANGED <<used_nodes, used_arcs, virtual_loss, untested, child, arc, owner, lock,
                   move, bits, node, slot>>

(* MUTANT: the visit is counted below the root only.                       *)
Backup_SkipsRoot(t) ==
    /\ pc[t] = "backup"
    /\ IF Depth(t) > 0
       THEN /\ games' = [games EXCEPT ![At(t)] = @ + 1]
            /\ virtual_loss' = [virtual_loss EXCEPT ![At(t)] = @ - 1]
            /\ path' = [path EXCEPT ![t] = SubSeq(@, 1, Len(@) - 1)]
            /\ UNCHANGED <<pc, sims>>
       ELSE /\ sims' = [sims EXCEPT ![t] = @ + 1]
            /\ Goto(t, "test")
            /\ UNCHANGED <<games, virtual_loss, path>>
    /\ UNCHANGED <<used_nodes, used_arcs, untested, child, arc, owner, lock,
                   move, bits, node, slot>>

(* Unwind the recursion by one node: count the visit, and in the caller    *)
(* take the virtual loss back.                                             *)
Backup(t) ==
    /\ pc[t] = "backup"
    /\ games' = [games EXCEPT ![At(t)] = @ + 1]
    /\ IF Depth(t) > 0
       THEN /\ virtual_loss' = [virtual_loss EXCEPT ![At(t)] = @ - 1]
            /\ path' = [path EXCEPT ![t] = SubSeq(@, 1, Len(@) - 1)]
            /\ UNCHANGED <<pc, sims>>
       ELSE /\ sims' = [sims EXCEPT ![t] = @ + 1]
            /\ Goto(t, "test")
            /\ UNCHANGED <<virtual_loss, path>>
    /\ UNCHANGED <<used_nodes, used_arcs, untested, child, arc, owner, lock,
                   move, bits, node, slot>>

Worker(t) ==
    \/ StartSim(t) \/ LeaveLoop(t) \/ Score(t)
    \/ SelectChild(t) \/ SelectUntested(t) \/ SelectPass(t) \/ ClearUntested(t)
    \/ FindChild(t) \/ InitNode(t) \/ InitArc(t) \/ LinkArc(t)
    \/ Backup(t)

AllDone == \A t \in Threads : pc[t] = "done"

(* The join: the search ends, the tree stands still.                       *)
Done == AllDone /\ UNCHANGED vars

Next == (\E t \in Threads : Worker(t)) \/ Done

(* Every worker thread is scheduled.                                       *)
Spec == Init /\ [][Next]_vars
FairSpec == Spec /\ \A t \in Threads : WF_vars(Worker(t))

-----------------------------------------------------------------------------
Labels == {"test", "select", "clear", "find", "init", "arc", "link", "backup", "done"}

TypeOK ==
    /\ used_nodes \in Nat /\ used_arcs \in Nat
    /\ games \in [Nodes -> Nat] /\ virtual_loss \in [Nodes -> Int]
    /\ untested \in [Nodes -> SUBSET Points]
    /\ child \in [Nodes -> Arcs \cup {NoArc}]
    /\ arc \in [Arcs -> [move : Moves, node : Nodes, next : Arcs \cup {NoArc}]]
    /\ owner \in [Arcs -> Nodes \cup {NoNode}]
    /\ lock \in [0 .. NumLocks - 1 -> Threads \cup {Free}]
    /\ pc \in [Threads -> Labels] /\ sims \in [Threads -> Nat]
    /\ path \in [Threads -> Seq(Nodes) \ {<<>>}]
    /\ move \in [Threads -> Moves] /\ bits \in [Threads -> SUBSET Points]
    /\ node \in [Threads -> Nodes] /\ slot \in [Threads -> Arcs \cup {NoArc}]

Published == {a \in Arcs : owner[a] # NoNode}
Children(n) == {a \in Published : owner[a] = n}

(* "two threads doing that on the same parent self-cycle its child list    *)
(* and every later scan of it spins forever": every list runs down the     *)
(* arc pool, so every scan ends, and no published arc ever drops out of it.*)
(* The overflow node is outside nodes[]: its lock, its AMAF row and its    *)
(* children would be another node's.  No thread ever expands below it.     *)
ListsAreSound ==
    /\ \A a \in Published : arc[a].next < a
    /\ \A n \in Nodes : OnList(n) = Children(n)
    /\ \A t \in Threads :
        /\ \A i \in 1 .. Len(path[t]) - 1 : path[t][i] \in Pool
        /\ pc[t] \notin {"test", "select", "backup", "done"} => At(t) \in Pool

(* The places that n has on the workers' paths, below their roots.         *)
InFlight(n) ==
    {p \in Threads \X (2 .. MaxDepth + 1) : p[2] <= Len(path[p[1]]) /\ path[p[1]][p[2]] = n}

(* The virtual loss of a node is the number of simulations below it.       *)
VirtualLossIsInFlight ==
    \A n \in Nodes : virtual_loss[n] = Cardinality(InFlight(n))

(* The visits of the children of n are visits of n, counted or still being *)
(* backed up: an early stop or a reuse of the tree may rely on the counts. *)
SumGames(S) == Cardinality(UNION {{a} \X (1 .. games[arc[a].node]) : a \in S})

BackingUp(n) == {t \in Threads : pc[t] = "backup" /\ At(t) = n}

VisitsAreConserved ==
    \A n \in Pool : SumGames(Children(n)) <= games[n] + Cardinality(BackingUp(n))

(* A move is being expanded by a thread that has not linked it yet.        *)
InProgress(n, m) ==
    \E t \in Threads : /\ pc[t] \in {"clear", "find", "init", "arc", "link"}
                       /\ At(t) = n /\ move[t] = m

(* "no arc AND a cleared bit means the search can neither select nor       *)
(* re-try it" (mc_reuse_copy_out): while the pools last, a playable move   *)
(* of an expanded node is untested, being expanded, or has its arc.        *)
NoMoveIsLost ==
    used_arcs <= NumArcs /\ used_nodes <= NumNodes =>
        \A n \in {Root} \cup {arc[a].node : a \in Published} :
            \A m \in Points \ Unplayable :
                \/ m \in untested[n]
                \/ InProgress(n, m)
                \/ \E a \in Children(n) : arc[a].move = m

(* "Prepend-only => already-published arcs are immutable": what a reader   *)
(* met on a list it will meet again, unchanged.                            *)
ArcsAreImmutable ==
    [][\A a \in Published : arc'[a] = arc[a] /\ owner'[a] = owner[a]]_vars

(* The shared structure behaves as one pure tree (GameTree).               *)
Tree == INSTANCE GameTree WITH
    Nodes <- Pool,
    edges <- {[from |-> owner[a], move |-> arc[a].move, to |-> arc[a].node] : a \in Published},
    games <- [n \in Pool |-> games[n]]
TreeSpec == Tree!Spec

(* Every worker leaves its loop: no scan or lock keeps one forever.        *)
SearchEnds == <>AllDone
=============================================================================
