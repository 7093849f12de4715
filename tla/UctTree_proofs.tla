--------------------------- MODULE UctTree_proofs ---------------------------
(***************************************************************************)
(* Proofs about UctTree, for any number of workers, points, nodes, arcs    *)
(* and locks.  What the runs check of the lists, the virtual losses, the   *)
(* visits and the moves is not inductive: it says nothing of the node and  *)
(* the arc that a worker has allocated and not linked yet, nor of the lock *)
(* that keeps a second worker off the parent.  The invariant below does.   *)
(***************************************************************************)
EXTENDS UctTree, FiniteSetTheorems, SequenceTheorems, TLAPS

(* The nodes of the tree: the root and what a published arc leads to.      *)
Linked == {Root} \cup {arc[a].node : a \in Published}

Expanding(t) == pc[t] \in {"clear", "find", "init", "arc", "link"}
Locking(t) == pc[t] \in {"init", "arc", "link"}
Building(t) == pc[t] \in {"arc", "link"}

(* The node that a worker builds, or else the one it stands at.            *)
Held(t) == IF Building(t) THEN node[t] ELSE At(t)

(* The arc pool: an arc is published when it is allocated and lies on the  *)
(* list of the node it leaves; lists and paths run one way through both    *)
(* pools, and no two arcs lead to the same node.                           *)
ArcInv ==
    /\ \A a \in Arcs : arc[a].node \in Pool /\ arc[a].next \in Published \cup {NoArc}
    /\ \A a \in Published :
          /\ a < used_arcs
          /\ owner[a] \in Pool /\ owner[a] < arc[a].node /\ arc[a].node < used_nodes
          /\ arc[a].next < a
          /\ arc[a].next \in Children(owner[a]) \cup {NoArc}
    /\ \A a, b \in Published : arc[a].node = arc[b].node => a = b
    /\ \A n \in Nodes : child[n] \in Children(n) \cup {NoArc}

(* Every scan of n's list meets all of n's arcs.                           *)
ChainInv ==
    \A n \in Nodes : \A S \in SUBSET Arcs : Scanned(n, S) => Children(n) \subseteq S

(* A path starts at the root and follows published arcs; only its last     *)
(* node may be outside the tree, and then it has no visits yet.            *)
PathSound(t) ==
    /\ path[t][1] = Root
    /\ Len(path[t]) <= MaxDepth + 1
    /\ Expanding(t) => Len(path[t]) <= MaxDepth /\ At(t) \in Linked
    /\ pc[t] \in {"test", "done"} => Len(path[t]) = 1
    /\ \A i \in 1 .. Len(path[t]) - 1 :
          /\ path[t][i] \in Linked
          /\ path[t][i + 1] \in Linked =>
                \E a \in Published : owner[a] = path[t][i] /\ arc[a].node = path[t][i + 1]
    /\ At(t) \in Linked \/ At(t) = t \/ (At(t) \in Pool /\ At(t) < used_nodes)
    /\ pc[t] = "select" /\ At(t) \notin Linked => games[At(t)] = 0

PathInv == \A t \in Threads : PathSound(t)

(* Nodes not handed out yet have no visits; a node that is being built is  *)
(* new, below its parent in the pool, and its builder's alone.             *)
BuildSound(t) ==
    /\ node[t] = t \/ (node[t] \in Pool /\ At(t) < node[t] /\ node[t] < used_nodes)
    /\ node[t] \notin Linked
    /\ games[node[t]] = 0 /\ untested[node[t]] = Points
    /\ node[t] = t => used_nodes > NumNodes /\ pc[t] # "link"

NodeInv ==
    /\ 1 <= used_nodes
    /\ \A n \in Pool : used_nodes <= n => games[n] = 0
    /\ \A t \in Threads : Building(t) => BuildSound(t)
    /\ \A t, u \in Threads : t # u /\ Held(t) = Held(u) => Held(t) \in Linked

(* The parent's lock is held from the search of its list to the new arc,   *)
(* so that list has no arc of the move and the new arc stays its next head.*)
LockSound(t) ==
    /\ lock[LockOf(At(t))] = t
    /\ \A a \in Children(At(t)) : arc[a].move # move[t]

SlotSound(t) ==
    /\ slot[t] \in Arcs /\ slot[t] < used_arcs /\ slot[t] \notin Published
    /\ arc[slot[t]] = [move |-> move[t], node |-> node[t], next |-> child[At(t)]]
    /\ child[At(t)] < slot[t]

LockInv ==
    /\ \A t \in Threads : Locking(t) => LockSound(t)
    /\ \A t \in Threads : pc[t] = "link" => SlotSound(t)
    /\ \A t, u \in Threads :
          t # u /\ pc[t] = "link" /\ pc[u] = "link" => slot[t] # slot[u]

Inv == TypeOK /\ ArcInv /\ ChainInv /\ PathInv /\ NodeInv /\ LockInv

-----------------------------------------------------------------------------
(* Type correctness.                                                       *)

(* Stepping down appends one node to the path of one worker.               *)
LEMMA DescendPath ==
  ASSUME TypeOK, NEW t \in Threads, NEW n \in Nodes, Descend(t, n)
  PROVE  /\ path' \in [Threads -> Seq(Nodes) \ {<<>>}]
         /\ Len(path'[t]) = Len(path[t]) + 1
         /\ path'[t][Len(path[t]) + 1] = n
         /\ \A i \in 1 .. Len(path[t]) : path'[t][i] = path[t][i]
         /\ \A u \in Threads : u # t => path'[u] = path[u]
<1>1. path[t] \in Seq(Nodes) /\ path[t] # <<>>
  BY DEF TypeOK
<1>2. path' = [path EXCEPT ![t] = Append(path[t], n)]
  BY DEF Descend
<1>3. /\ Append(path[t], n) \in Seq(Nodes)
      /\ Append(path[t], n) # <<>>
      /\ Len(Append(path[t], n)) = Len(path[t]) + 1
      /\ \A i \in 1 .. Len(path[t]) : Append(path[t], n)[i] = path[t][i]
      /\ Append(path[t], n)[Len(path[t]) + 1] = n
  BY <1>1, AppendProperties
<1> QED BY <1>2, <1>3 DEF TypeOK

(* Returning takes the last node off the path of one worker.               *)
LEMMA ReturnPath ==
  ASSUME TypeOK, NEW t \in Threads, Depth(t) > 0,
         path' = [path EXCEPT ![t] = SubSeq(@, 1, Len(@) - 1)]
  PROVE  /\ path' \in [Threads -> Seq(Nodes) \ {<<>>}]
         /\ Len(path'[t]) = Len(path[t]) - 1
         /\ \A i \in 1 .. Len(path[t]) - 1 : path'[t][i] = path[t][i]
         /\ \A u \in Threads : u # t => path'[u] = path[u]
<1> DEFINE s == path[t]
<1>1. s \in Seq(Nodes) /\ Len(s) \in Nat /\ s \in [1 .. Len(s) -> Nodes] /\ Len(s) > 1
  BY LenProperties DEF TypeOK, Depth
<1>2. /\ SubSeq(s, 1, Len(s) - 1) \in Seq(Nodes)
      /\ Len(SubSeq(s, 1, Len(s) - 1)) = Len(s) - 1
      /\ \A i \in 1 .. Len(s) - 1 : SubSeq(s, 1, Len(s) - 1)[i] = s[i]
  <2>1. \A i \in 1 .. Len(s) - 1 : s[i] \in Nodes
    BY <1>1
  <2> HIDE DEF s
  <2> QED BY <1>1, <2>1, SubSeqProperties
<1>3. SubSeq(s, 1, Len(s) - 1) # <<>>
  <2>1. Len(SubSeq(s, 1, Len(s) - 1)) # 0
    <3> HIDE DEF s
    <3> QED BY <1>1, <1>2
  <2>2. Len(<<>>) = 0
    BY EmptySeq
  <2> QED BY <2>1, <2>2
<1> QED BY <1>2, <1>3 DEF TypeOK

(* The nodes on a path are nodes, and its length is a positive number.     *)
LEMMA PathType ==
  ASSUME TypeOK, NEW t \in Threads
  PROVE  /\ Len(path[t]) \in Nat \ {0}
         /\ \A i \in 1 .. Len(path[t]) : path[t][i] \in Nodes
         /\ At(t) = path[t][Len(path[t])]
         /\ At(t) \in Nodes
<1>1. path[t] \in Seq(Nodes) /\ path[t] # <<>>
  BY DEF TypeOK
<1>2. Len(path[t]) \in Nat \ {0} /\ path[t] \in [1 .. Len(path[t]) -> Nodes]
  BY <1>1, EmptySeq, LenProperties
<1> QED BY <1>2 DEF At, Last

(* Forgetting the locals keeps their types.                                *)
LEMMA ForgetType ==
  ASSUME TypeOK, NEW t \in Threads, ForgetLocals(t)
  PROVE  /\ move' \in [Threads -> Moves] /\ bits' \in [Threads -> SUBSET Points]
         /\ node' \in [Threads -> Nodes] /\ slot' \in [Threads -> Arcs \cup {NoArc}]
<1>1. Root \in Nodes
  BY UctAssumption DEF Root, Pool, Nodes
<1>2. move' \in [Threads -> Moves]
  BY DEF ForgetLocals, TypeOK, Moves
<1>3. bits' \in [Threads -> SUBSET Points]
  BY DEF ForgetLocals, TypeOK
<1>4. node' \in [Threads -> Nodes]
  BY <1>1 DEF ForgetLocals, TypeOK
<1>5. slot' \in [Threads -> Arcs \cup {NoArc}]
  BY DEF ForgetLocals, TypeOK
<1> QED BY <1>2, <1>3, <1>4, <1>5

(* No step of a worker breaks a type.                                      *)
LEMMA TypeStep ==
  ASSUME TypeOK, [Next]_vars
  PROVE  TypeOK'
<1> USE UctAssumption
<1>1. ASSUME NEW t \in Threads, StartSim(t)
      PROVE  TypeOK'
  <2>1. Root \in Nodes /\ <<Root>> \in Seq(Nodes) /\ <<Root>> # <<>>
    BY DEF Root, Pool, Nodes
  <2> QED BY <1>1, <2>1 DEF TypeOK, StartSim, Goto, tree, Labels
<1>12. ASSUME NEW t \in Threads, LeaveLoop(t) \/ Score(t) PROVE TypeOK'
  BY <1>12 DEF TypeOK, LeaveLoop, Score, Goto, tree, locals, Labels
<1>2. ASSUME NEW t \in Threads, NEW n \in Nodes, Descend(t, n)
      PROVE  /\ virtual_loss' \in [Nodes -> Int]
             /\ pc' \in [Threads -> Labels]
             /\ path' \in [Threads -> Seq(Nodes) \ {<<>>}]
             /\ move' \in [Threads -> Moves] /\ bits' \in [Threads -> SUBSET Points]
             /\ node' \in [Threads -> Nodes] /\ slot' \in [Threads -> Arcs \cup {NoArc}]
  <2>1. path' \in [Threads -> Seq(Nodes) \ {<<>>}]
    BY <1>2, DescendPath
  <2>2. ForgetLocals(t)
    BY <1>2 DEF Descend
  <2>3. /\ virtual_loss' = [virtual_loss EXCEPT ![n] = @ + 1]
        /\ pc' = [pc EXCEPT ![t] = "select"]
    BY <1>2 DEF Descend, Goto
  <2>4. virtual_loss' \in [Nodes -> Int]
    BY <2>3 DEF TypeOK
  <2>5. pc' \in [Threads -> Labels]
    BY <2>3 DEF TypeOK, Labels
  <2> QED BY <2>1, <2>2, <2>4, <2>5, ForgetType
<1>3. ASSUME NEW t \in Threads, SelectChild(t) PROVE TypeOK'
  <2>1. PICK a \in OnList(At(t)) : Descend(t, arc[a].node)
    BY <1>3 DEF SelectChild
  <2>2. arc[a].node \in Nodes
    BY <2>1 DEF OnList, TypeOK
  <2> QED BY <1>2, <1>3, <2>1, <2>2 DEF TypeOK, SelectChild
<1>4. ASSUME NEW t \in Threads, SelectUntested(t) PROVE TypeOK'
  <2>1. untested[At(t)] \in SUBSET Points
    BY PathType DEF TypeOK
  <2>2. /\ move' \in [Threads -> Moves]
        /\ bits' \in [Threads -> SUBSET Points]
    BY <1>4, <2>1 DEF TypeOK, SelectUntested, Moves
  <2> QED BY <1>4, <2>2 DEF TypeOK, SelectUntested, Goto, tree, Labels
<1>13. ASSUME NEW t \in Threads, SelectPass(t) PROVE TypeOK'
  BY <1>13 DEF TypeOK, SelectPass, Goto, tree, Labels, Moves
<1>5. ASSUME NEW t \in Threads, ClearUntested(t) PROVE TypeOK'
  <2>1. untested' \in [Nodes -> SUBSET Points]
    BY <1>5 DEF TypeOK, ClearUntested
  <2>2. /\ move' \in [Threads -> Moves] /\ bits' \in [Threads -> SUBSET Points]
        /\ node' \in [Threads -> Nodes] /\ slot' \in [Threads -> Arcs \cup {NoArc}]
    <3>1. CASE move[t] \in Unplayable
      BY <1>5, <3>1, ForgetType DEF ClearUntested
    <3>2. CASE move[t] \notin Unplayable
      BY <1>5, <3>2 DEF ClearUntested, TypeOK
    <3> QED BY <3>1, <3>2
  <2>3. pc' \in [Threads -> Labels]
    <3>1. pc' = [pc EXCEPT ![t] = "select"] \/ pc' = [pc EXCEPT ![t] = "find"]
      BY <1>5 DEF ClearUntested, Goto
    <3> QED BY <3>1 DEF TypeOK, Labels
  <2> QED BY <1>5, <2>1, <2>2, <2>3 DEF TypeOK, ClearUntested
<1>6. ASSUME NEW t \in Threads, FindChild(t) PROVE TypeOK'
  <2>1. CASE \E a \in OnList(At(t)) : Descend(t, arc[a].node) /\ UNCHANGED lock
    <3>1. PICK a \in OnList(At(t)) : Descend(t, arc[a].node)
      BY <2>1
    <3>2. arc[a].node \in Nodes
      BY <3>1 DEF OnList, TypeOK
    <3> QED BY <1>2, <1>6, <2>1, <3>1, <3>2 DEF TypeOK, FindChild
  <2>2. CASE /\ lock' = [lock EXCEPT ![LockOf(At(t))] = t]
             /\ Goto(t, "init")
             /\ UNCHANGED <<virtual_loss, locals>>
    BY <1>6, <2>2 DEF TypeOK, FindChild, Goto, locals, Labels
  <2> QED BY <1>6, <2>1, <2>2 DEF FindChild
<1>7. ASSUME NEW t \in Threads, InitNode(t) PROVE TypeOK'
  <2> DEFINE new == IF used_nodes < NumNodes THEN used_nodes ELSE t
  <2>1. new \in Nodes
    BY DEF TypeOK, Nodes, Pool
  <2> HIDE DEF new
  <2>2. /\ node' = [node EXCEPT ![t] = new]
        /\ games' = [games EXCEPT ![new] = 0]
        /\ virtual_loss' = [virtual_loss EXCEPT ![new] = 0]
        /\ child' = [child EXCEPT ![new] = NoArc]
        /\ untested' = [untested EXCEPT ![new] = Points]
    BY <1>7 DEF InitNode, new
  <2>3. /\ used_nodes' = used_nodes + 1 /\ pc' = [pc EXCEPT ![t] = "arc"]
        /\ UNCHANGED <<used_arcs, arc, owner, lock, sims, path, move, bits, slot>>
    BY <1>7 DEF InitNode, Goto
  <2>4. /\ games' \in [Nodes -> Nat] /\ virtual_loss' \in [Nodes -> Int]
        /\ untested' \in [Nodes -> SUBSET Points] /\ child' \in [Nodes -> Arcs \cup {NoArc}]
    BY <2>1, <2>2 DEF TypeOK
  <2>5. node' \in [Threads -> Nodes] /\ pc' \in [Threads -> Labels]
    BY <2>1, <2>2, <2>3 DEF TypeOK, Labels
  <2>6. used_nodes' \in Nat
    BY <2>3 DEF TypeOK
  <2> HIDE UctAssumption
  <2> QED BY <2>3, <2>4, <2>5, <2>6 DEF TypeOK
<1>8. ASSUME NEW t \in Threads, InitArc(t) PROVE TypeOK'
  <2>0. used_arcs' \in Nat /\ UNCHANGED <<used_nodes, games, untested, child, owner, sims>>
    BY <1>8 DEF InitArc, TypeOK
  <2>1. CASE used_arcs >= NumArcs \/ node[t] = t
    <3>1. Unlock(t) /\ Descend(t, node[t]) /\ UNCHANGED arc
      BY <1>8, <2>1 DEF InitArc
    <3>2. node[t] \in Nodes
      BY DEF TypeOK
    <3>3. lock' \in [0 .. NumLocks - 1 -> Threads \cup {Free}]
      BY <3>1 DEF Unlock, TypeOK
    <3> QED BY <1>2, <2>0, <3>1, <3>2, <3>3 DEF TypeOK
  <2>2. CASE ~(used_arcs >= NumArcs \/ node[t] = t)
    <3>1. /\ arc' = [arc EXCEPT ![used_arcs] =
                        [move |-> move[t], node |-> node[t], next |-> child[At(t)]]]
          /\ slot' = [slot EXCEPT ![t] = used_arcs]
          /\ Goto(t, "link")
          /\ UNCHANGED <<lock, virtual_loss, path, move, bits, node>>
      BY <1>8, <2>2 DEF InitArc
    <3>2. used_arcs \in Arcs
      BY <2>2 DEF TypeOK, Arcs
    <3>3. [move |-> move[t], node |-> node[t], next |-> child[At(t)]]
             \in [move : Moves, node : Nodes, next : Arcs \cup {NoArc}]
      BY PathType DEF TypeOK
    <3>4. arc' \in [Arcs -> [move : Moves, node : Nodes, next : Arcs \cup {NoArc}]]
      BY <3>1, <3>3 DEF TypeOK
    <3> QED BY <2>0, <3>1, <3>2, <3>4 DEF TypeOK, Goto, Labels
  <2> QED BY <2>1, <2>2
<1>9. ASSUME NEW t \in Threads, LinkArc(t) PROVE TypeOK'
  <2>1. node[t] \in Nodes /\ At(t) \in Nodes
    BY PathType DEF TypeOK
  <2>2. Descend(t, node[t])
    BY <1>9 DEF LinkArc
  <2>3. /\ lock' \in [0 .. NumLocks - 1 -> Threads \cup {Free}]
        /\ child' \in [Nodes -> Arcs \cup {NoArc}]
        /\ owner' \in [Arcs -> Nodes \cup {NoNode}]
    BY <1>9, <2>1 DEF LinkArc, Unlock, TypeOK
  <2> QED BY <1>2, <1>9, <2>1, <2>2, <2>3 DEF TypeOK, LinkArc
<1>10. ASSUME NEW t \in Threads, Backup(t) PROVE TypeOK'
  <2>1. At(t) \in Nodes
    BY PathType
  <2>2. games' \in [Nodes -> Nat]
    BY <1>10, <2>1 DEF Backup, TypeOK
  <2>3. CASE Depth(t) > 0
    <3>1. path' \in [Threads -> Seq(Nodes) \ {<<>>}]
      BY <1>10, <2>3, ReturnPath DEF Backup
    <3>2. virtual_loss' \in [Nodes -> Int]
      BY <1>10, <2>1, <2>3 DEF Backup, TypeOK
    <3> QED BY <1>10, <2>2, <2>3, <3>1, <3>2 DEF Backup, TypeOK
  <2>4. CASE ~(Depth(t) > 0)
    <3>1. sims' = [sims EXCEPT ![t] = @ + 1]
      BY <1>10, <2>4 DEF Backup
    <3>2. sims' \in [Threads -> Nat]
      BY <3>1 DEF TypeOK
    <3> QED BY <1>10, <2>2, <2>4, <3>2 DEF Backup, TypeOK, Goto, Labels
  <2> QED BY <2>3, <2>4
<1>11. CASE UNCHANGED vars
  BY <1>11 DEF vars, tree, locals, TypeOK
<1> QED BY <1>1, <1>3, <1>4, <1>5, <1>6, <1>7, <1>8, <1>9, <1>10, <1>11, <1>12, <1>13
        DEF Next, Worker, Done

(* The values at the start of a search have their types.                   *)
LEMMA TypeInit == Init => TypeOK
<1> SUFFICES ASSUME Init PROVE TypeOK
  OBVIOUS
<1> USE UctAssumption DEF Init
<1>1. Root \in Pool /\ Root \in Nodes
  BY DEF Root, Pool, Nodes
<1>2. <<Root>> \in Seq(Nodes) /\ <<Root>> # <<>>
  BY <1>1
<1> QED BY <1>1, <1>2 DEF TypeOK, Labels, Moves, Free, NoNode, NoArc

(* Every variable keeps its type; in particular a path never empties.      *)
THEOREM Typing == Spec => []TypeOK
<1>1. TypeOK /\ [Next]_vars => TypeOK'
  BY TypeStep
<1> QED BY <1>1, TypeInit, PTL DEF Spec

-----------------------------------------------------------------------------
(* What the invariant says of the tree.                                    *)

(* The nodes of the tree come from the pool and have been handed out.      *)
LEMMA LinkedFacts ==
  ASSUME TypeOK, ArcInv, NodeInv
  PROVE  /\ Linked \subseteq Pool
         /\ Linked \subseteq Nodes
         /\ \A n \in Linked : n < used_nodes
         /\ Root \in Linked
         /\ Threads \cap Pool = {}
BY UctAssumption DEF TypeOK, ArcInv, NodeInv, Linked, Published, Pool, Nodes, Root

(* A scan of n's list meets the arcs that were published for n, no others. *)
LEMMA ListIsChildren ==
  ASSUME TypeOK, ArcInv, ChainInv, NEW n \in Nodes
  PROVE  OnList(n) = Children(n)
<1>1. Children(n) \in SUBSET Arcs
  BY DEF Children, Published
<1>2. Scanned(n, Children(n))
  BY DEF Scanned, ArcInv, Children
<1>3. OnList(n) \subseteq Children(n)
  BY <1>1, <1>2 DEF OnList
<1>4. Children(n) \subseteq OnList(n)
  BY <1>1 DEF OnList, ChainInv
<1> QED BY <1>3, <1>4

(* A step that leaves pools and lists alone keeps what is said of them.    *)
LEMMA SameShape ==
  ASSUME ArcInv, ChainInv, UNCHANGED <<used_nodes, used_arcs, child, arc, owner>>
  PROVE  /\ ArcInv' /\ ChainInv'
         /\ Published' = Published /\ Linked' = Linked
         /\ \A n : Children(n)' = Children(n)
<1>1. Published' = Published
  BY DEF Published
<1>2. Linked' = Linked
  BY <1>1 DEF Linked
<1>3. \A n : Children(n)' = Children(n)
  BY <1>1 DEF Children
<1>4. ArcInv'
  BY <1>1, <1>3 DEF ArcInv
<1>5. \A n, S : Scanned(n, S)' <=> Scanned(n, S)
  BY DEF Scanned
<1>6. ChainInv'
  BY <1>3, <1>5 DEF ChainInv
<1> QED BY <1>1, <1>2, <1>3, <1>4, <1>6

-----------------------------------------------------------------------------
(* The steps preserve the invariant.                                       *)

(* A worker that does not move keeps a sound path while the tree only      *)
(* grows elsewhere.                                                        *)
LEMMA OtherPath ==
  ASSUME TypeOK, NEW u \in Threads, PathSound(u),
         path'[u] = path[u], pc'[u] = pc[u], used_nodes \in Nat, used_nodes' \in Nat,
         used_nodes <= used_nodes',
         Linked \subseteq Linked', At(u) \in Linked' => At(u) \in Linked,
         Published \subseteq Published',
         \A a \in Published : arc'[a] = arc[a] /\ owner'[a] = owner[a],
         At(u) \notin Linked => games'[At(u)] = games[At(u)] \/ pc[u] # "select"
  PROVE  PathSound(u)'
<1>1. At(u)' = At(u) /\ (Expanding(u)' <=> Expanding(u))
  BY DEF At, Last, Expanding
<1>2. \A i \in 1 .. Len(path[u]) - 1 :
         path[u][i + 1] \in Linked' => path[u][i + 1] \in Linked
  <2> TAKE i \in 1 .. Len(path[u]) - 1
  <2>1. CASE i = Len(path[u]) - 1
    BY <2>1, PathType
  <2>2. CASE i # Len(path[u]) - 1
    <3>1. i + 1 \in 1 .. Len(path[u]) - 1
      BY <2>2, PathType
    <3> QED BY <3>1 DEF PathSound
  <2> QED BY <2>1, <2>2
<1>3. \A i \in 1 .. Len(path[u]) - 1 :
         /\ path[u][i] \in Linked'
         /\ path[u][i + 1] \in Linked' =>
               \E a \in Published' : owner'[a] = path[u][i] /\ arc'[a].node = path[u][i + 1]
  <2> TAKE i \in 1 .. Len(path[u]) - 1
  <2>1. path[u][i] \in Linked'
    BY DEF PathSound
  <2>2. ASSUME path[u][i + 1] \in Linked'
        PROVE  \E a \in Published' : owner'[a] = path[u][i] /\ arc'[a].node = path[u][i + 1]
    <3>1. PICK a \in Published : owner[a] = path[u][i] /\ arc[a].node = path[u][i + 1]
      BY <1>2, <2>2 DEF PathSound
    <3> QED BY <3>1
  <2> QED BY <2>1, <2>2
<1>4. At(u) \in Linked' \/ At(u) = u \/ (At(u) \in Pool /\ At(u) < used_nodes')
  <2>1. CASE At(u) \in Pool /\ At(u) < used_nodes
    BY <2>1 DEF Pool
  <2> QED BY <2>1 DEF PathSound
<1> QED BY <1>1, <1>3, <1>4 DEF PathSound

(* Scoring a node, leaving the loop, choosing a move and clearing its bit. *)
LEMMA StandingStep ==
  ASSUME Inv, TypeOK', NEW t \in Threads,
         Score(t) \/ LeaveLoop(t) \/ SelectUntested(t) \/ SelectPass(t) \/ ClearUntested(t)
  PROVE  Inv'
<1> USE DEF Inv
<1>1. /\ UNCHANGED <<used_nodes, used_arcs, child, arc, owner, games, lock, path>>
      /\ \A u \in Threads : u # t =>
            /\ pc'[u] = pc[u] /\ move'[u] = move[u] /\ node'[u] = node[u] /\ slot'[u] = slot[u]
      /\ ~Locking(t) /\ ~Locking(t)'
  <2>1. CASE Score(t) \/ LeaveLoop(t)
    BY <2>1 DEF Score, LeaveLoop, Goto, tree, locals, TypeOK, Locking
  <2>2. CASE SelectUntested(t) \/ SelectPass(t)
    BY <2>2 DEF SelectUntested, SelectPass, Goto, tree, TypeOK, Locking
  <2>3. CASE ClearUntested(t) /\ move[t] \in Unplayable
    BY <2>3 DEF ClearUntested, ForgetLocals, Goto, TypeOK, Locking
  <2>4. CASE ClearUntested(t) /\ move[t] \notin Unplayable
    BY <2>4 DEF ClearUntested, Goto, TypeOK, Locking
  <2> QED BY <2>1, <2>2, <2>3, <2>4
<1>2. /\ ArcInv' /\ ChainInv' /\ Published' = Published /\ Linked' = Linked
      /\ \A n : Children(n)' = Children(n)
  BY <1>1, SameShape
<1>3. \A u \in Threads : At(u)' = At(u)
  BY <1>1 DEF At, Last
<1>4. PathInv'
  <2> SUFFICES ASSUME NEW u \in Threads PROVE PathSound(u)'
    BY DEF PathInv
  <2>1. CASE u # t
    <3>1. /\ PathSound(u) /\ path'[u] = path[u] /\ pc'[u] = pc[u]
          /\ used_nodes \in Nat /\ used_nodes' = used_nodes
          /\ arc' = arc /\ owner' = owner /\ games' = games
      BY <1>1, <2>1 DEF PathInv, TypeOK
    <3> QED BY <1>2, <3>1, OtherPath
  <2>2. CASE u = t
    <3>1. Expanding(t)' => (~IsLeaf(t) /\ pc[t] = "select") \/ Expanding(t)
      BY <1>1 DEF Score, LeaveLoop, SelectUntested, SelectPass, ClearUntested, Goto, Expanding, TypeOK
    <3> DEFINE went(from, to) == pc[t] = from /\ pc'[t] = to
    <3>7. \/ went("select", "backup") \/ went("test", "done")
          \/ went("select", "clear") \/ went("select", "find")
          \/ went("clear", "select") \/ went("clear", "find")
      <4>1. pc \in [Threads -> Labels]
        BY DEF TypeOK
      <4>2. CASE Score(t)
        BY <4>1, <4>2 DEF Score, Goto
      <4>3. CASE LeaveLoop(t)
        BY <4>1, <4>3 DEF LeaveLoop, Goto
      <4>4. CASE SelectUntested(t)
        BY <4>1, <4>4 DEF SelectUntested, Goto
      <4>5. CASE SelectPass(t)
        BY <4>1, <4>5 DEF SelectPass, Goto
      <4>6. CASE ClearUntested(t)
        BY <4>1, <4>6 DEF ClearUntested, Goto
      <4> QED BY <4>2, <4>3, <4>4, <4>5, <4>6
    <3>2. pc'[t] = "select" => Expanding(t)
      BY <3>7 DEF Expanding
    <3>3. pc'[t] \in {"test", "done"} => pc[t] = "test"
      BY <3>7
    <3>4. ~IsLeaf(t) /\ pc[t] = "select" => Len(path[t]) <= MaxDepth /\ At(t) \in Linked
      BY UctAssumption, PathType, LinkedFacts DEF IsLeaf, Depth, PathInv, PathSound
    <3>5. Expanding(t)' => Len(path[t]) <= MaxDepth /\ At(t) \in Linked
      BY <3>1, <3>4 DEF PathInv, PathSound
    <3>6. PathSound(t)
      BY DEF PathInv
    <3> QED BY <1>1, <1>2, <1>3, <2>2, <3>2, <3>3, <3>5, <3>6 DEF PathSound
  <2> QED BY <2>1, <2>2
<1>5. NodeInv'
  <2>1. \A u \in Threads : Building(u)' <=> Building(u)
    BY <1>1 DEF Building, Locking
  <2>2. \A u \in Threads : Building(u) => u # t
    BY <1>1 DEF Building, Locking
  <2>3. \A u \in Threads : Held(u)' = Held(u)
    BY <1>1, <1>3, <2>1, <2>2 DEF Held
  <2>4. ASSUME NEW u \in Threads, Building(u) PROVE BuildSound(u)'
    <3>1. u # t /\ BuildSound(u)
      BY <2>2, <2>4 DEF NodeInv
    <3>2. untested'[node[u]] = untested[node[u]]
      <4>1. At(t) # node[u] \/ ~Expanding(t)
        BY <3>1 DEF BuildSound, PathInv, PathSound
      <4>2. untested' = untested \/ (pc[t] = "clear" /\ untested' = [untested EXCEPT ![At(t)] = bits[t] \ {move[t]}])
        BY DEF Score, LeaveLoop, SelectUntested, SelectPass, ClearUntested, tree
      <4> QED BY <4>1, <4>2 DEF Expanding, TypeOK
    <3> QED BY <1>1, <1>2, <1>3, <3>1, <3>2 DEF BuildSound
  <2> QED BY <1>1, <1>2, <2>1, <2>3, <2>4 DEF NodeInv
<1>6. LockInv'
  <2>1. \A u \in Threads : (Locking(u)' => Locking(u) /\ u # t) /\ (pc'[u] = "link" => pc[u] = "link" /\ u # t)
    BY <1>1 DEF Locking
  <2>2. ASSUME NEW u \in Threads, Locking(u)' PROVE LockSound(u)'
    BY <1>1, <1>2, <1>3, <2>1, <2>2 DEF LockInv, LockSound, LockOf
  <2>3. ASSUME NEW u \in Threads, pc'[u] = "link" PROVE SlotSound(u)'
    BY <1>1, <1>2, <1>3, <2>1, <2>3 DEF LockInv, SlotSound
  <2> QED BY <1>1, <2>1, <2>2, <2>3 DEF LockInv
<1> QED BY <1>2, <1>4, <1>5, <1>6

(* Starting the next simulation: the path is back at the root already.     *)
LEMMA StartStep ==
  ASSUME Inv, TypeOK', NEW t \in Threads, StartSim(t)
  PROVE  Inv'
<1> USE DEF Inv
<1>1. /\ UNCHANGED <<used_nodes, used_arcs, child, arc, owner, games, untested, lock, move, node, slot>>
      /\ \A u \in Threads : u # t => pc'[u] = pc[u] /\ path'[u] = path[u]
      /\ pc[t] = "test" /\ pc'[t] = "select" /\ path'[t] = <<Root>>
  BY DEF StartSim, Goto, tree, TypeOK
<1>2. /\ ArcInv' /\ ChainInv' /\ Published' = Published /\ Linked' = Linked
      /\ \A n : Children(n)' = Children(n)
  BY <1>1, SameShape
<1>3. At(t) = Root /\ At(t)' = Root /\ Len(path[t]) = 1 /\ Len(path'[t]) = 1 /\ path'[t][1] = Root
  BY <1>1 DEF At, Last, PathInv, PathSound
<1>4. \A u \in Threads : At(u)' = At(u)
  BY <1>1, <1>3 DEF At, Last
<1>5. PathInv'
  <2> SUFFICES ASSUME NEW u \in Threads PROVE PathSound(u)'
    BY DEF PathInv
  <2>1. CASE u # t
    <3>1. /\ PathSound(u) /\ path'[u] = path[u] /\ pc'[u] = pc[u]
          /\ used_nodes \in Nat /\ used_nodes' = used_nodes
          /\ arc' = arc /\ owner' = owner /\ games' = games
      BY <1>1, <2>1 DEF PathInv, TypeOK
    <3> QED BY <1>2, <3>1, OtherPath
  <2>2. CASE u = t
    <3>1. ~Expanding(t)' /\ pc'[t] \notin {"test", "done"}
      BY <1>1 DEF Expanding
    <3>2. At(t)' \in Linked'
      BY <1>2, <1>3, LinkedFacts
    <3>3. Len(path'[t]) <= MaxDepth + 1 /\ 1 .. Len(path'[t]) - 1 = {}
      BY <1>3, UctAssumption
    <3>4. PathSound(t)'
      BY <1>3, <3>1, <3>2, <3>3 DEF PathSound
    <3> QED BY <2>2, <3>4
  <2> QED BY <2>1, <2>2
<1>6. \A u \in Threads : (Building(u)' <=> Building(u)) /\ (Building(u) => u # t)
  BY <1>1 DEF Building
<1>7. \A u \in Threads : Held(u)' = Held(u)
  BY <1>1, <1>4, <1>6 DEF Held
<1>8. \A u \in Threads : BuildSound(u) /\ u # t => BuildSound(u)'
  BY <1>1, <1>2, <1>4 DEF BuildSound
<1>9. NodeInv'
  BY <1>1, <1>2, <1>6, <1>7, <1>8 DEF NodeInv
<1>10. LockInv'
  <2>1. \A u \in Threads : (Locking(u)' => Locking(u)) /\ (pc'[u] = "link" => pc[u] = "link")
    BY <1>1 DEF Locking
  <2>2. ASSUME NEW u \in Threads, Locking(u)' PROVE LockSound(u)'
    BY <1>1, <1>2, <1>4, <2>1, <2>2 DEF LockInv, LockSound, LockOf
  <2>3. ASSUME NEW u \in Threads, pc'[u] = "link" PROVE SlotSound(u)'
    BY <1>1, <1>2, <1>4, <2>1, <2>3 DEF LockInv, SlotSound
  <2> QED BY <1>1, <2>1, <2>2, <2>3 DEF LockInv
<1> QED BY <1>2, <1>5, <1>9, <1>10

(* The path of a worker that steps down from a node of the tree, to a node *)
(* below it or to one that is not in the tree and has no visits.           *)
LEMMA DescendSound ==
  ASSUME TypeOK, NEW t \in Threads, NEW n \in Nodes, Descend(t, n), PathSound(t),
         At(t) \in Linked, Len(path[t]) <= MaxDepth,
         Linked \subseteq Linked', Published \subseteq Published',
         \A a \in Published : arc'[a] = arc[a] /\ owner'[a] = owner[a],
         n \in Linked' => \E a \in Published' : owner'[a] = At(t) /\ arc'[a].node = n,
         n \in Linked' \/ n = t \/ (n \in Pool /\ n < used_nodes'),
         n \notin Linked' => games'[n] = 0
  PROVE  /\ PathSound(t)'
         /\ At(t)' = n /\ Held(t)' = n /\ pc'[t] = "select"
         /\ \A u \in Threads : u # t => /\ path'[u] = path[u] /\ At(u)' = At(u)
                                        /\ pc'[u] = pc[u] /\ move'[u] = move[u]
                                        /\ node'[u] = node[u] /\ slot'[u] = slot[u]
                                        /\ bits'[u] = bits[u]
<1> DEFINE s == path[t]
           k == Len(path[t])
<1>1. /\ Len(path'[t]) = k + 1 /\ path'[t][k + 1] = n
      /\ \A i \in 1 .. k : path'[t][i] = s[i]
      /\ \A u \in Threads : u # t => path'[u] = path[u]
  BY DescendPath
<1>2. k \in Nat \ {0} /\ At(t) = s[k]
  BY PathType
<1>3. pc'[t] = "select" /\ \A u \in Threads : u # t => pc'[u] = pc[u]
  BY DEF Descend, Goto, TypeOK
<1>4. \A u \in Threads : u # t => /\ move'[u] = move[u] /\ node'[u] = node[u]
                                  /\ slot'[u] = slot[u] /\ bits'[u] = bits[u]
  BY DEF Descend, ForgetLocals, TypeOK
<1>5. At(t)' = n /\ \A u \in Threads : u # t => At(u)' = At(u)
  BY <1>1, <1>2 DEF At, Last
<1>6. Held(t)' = n
  BY <1>3, <1>5 DEF Held, Building
<1>7. \A i \in 1 .. k :
         /\ path'[t][i] \in Linked'
         /\ path'[t][i + 1] \in Linked' =>
               \E a \in Published' :
                   owner'[a] = path'[t][i] /\ arc'[a].node = path'[t][i + 1]
  <2> TAKE i \in 1 .. k
  <2>1. CASE i = k
    <3>1. path'[t][i] = At(t) /\ path'[t][i + 1] = n
      BY <1>1, <1>2, <2>1
    <3> QED BY <3>1
  <2>2. CASE i # k
    <3>1. i \in 1 .. k - 1 /\ i + 1 \in 1 .. k /\ (i + 1 \in 1 .. k - 1 \/ i + 1 = k)
      BY <1>2, <2>2
    <3>2. s[i] \in Linked /\ s[i + 1] \in Linked
      BY <1>2, <3>1 DEF PathSound
    <3>3. PICK a \in Published : owner[a] = s[i] /\ arc[a].node = s[i + 1]
      BY <3>1, <3>2 DEF PathSound
    <3>4. a \in Published' /\ owner'[a] = s[i] /\ arc'[a].node = s[i + 1]
      BY <3>3
    <3>5. path'[t][i] = s[i] /\ path'[t][i + 1] = s[i + 1]
      BY <1>1, <3>1
    <3> HIDE DEF s
    <3> QED BY <3>2, <3>4, <3>5
  <2> QED BY <2>1, <2>2
<1>8. path'[t][1] = Root
  BY <1>1, <1>2 DEF PathSound
<1>9. Len(path'[t]) <= MaxDepth + 1 /\ 1 .. Len(path'[t]) - 1 = 1 .. k
  BY <1>1, <1>2, UctAssumption
<1>10. PathSound(t)'
  <2>1. ~Expanding(t)' /\ pc'[t] \notin {"test", "done"}
    BY <1>3 DEF Expanding
  <2> HIDE DEF k, s
  <2> QED BY <1>5, <1>7, <1>8, <1>9, <2>1 DEF PathSound
<1> QED BY <1>1, <1>3, <1>4, <1>5, <1>6, <1>10

(* Following a published arc, found by the scan for the best child or by   *)
(* the one under the parent's lock.                                        *)
LEMMA FollowStep ==
  ASSUME Inv, TypeOK', NEW t \in Threads, NEW a \in OnList(At(t)), Descend(t, arc[a].node),
         (pc[t] = "select" /\ ~IsLeaf(t)) \/ pc[t] = "find",
         UNCHANGED <<used_nodes, used_arcs, games, untested, child, arc, owner, lock>>
  PROVE  Inv'
<1> USE DEF Inv
<1>1. /\ ArcInv' /\ ChainInv' /\ Published' = Published /\ Linked' = Linked
      /\ \A n : Children(n)' = Children(n)
  BY SameShape
<1>2. At(t) \in Nodes /\ a \in Published /\ owner[a] = At(t)
  BY PathType, ListIsChildren DEF Children
<1>3. arc[a].node \in Linked /\ arc[a].node \in Nodes
  BY <1>2, LinkedFacts DEF Linked
<1>4. Len(path[t]) <= MaxDepth /\ At(t) \in Linked
  BY UctAssumption, PathType, LinkedFacts DEF IsLeaf, Depth, PathInv, PathSound, Expanding
<1>5. /\ PathSound(t)'
      /\ At(t)' = arc[a].node /\ Held(t)' = arc[a].node /\ pc'[t] = "select"
      /\ \A u \in Threads : u # t => /\ path'[u] = path[u] /\ At(u)' = At(u)
                                     /\ pc'[u] = pc[u] /\ move'[u] = move[u]
                                     /\ node'[u] = node[u] /\ slot'[u] = slot[u]
  <2>1. PathSound(t)
    BY DEF PathInv
  <2> QED BY <1>1, <1>2, <1>3, <1>4, <2>1, DescendSound
<1>6. PathInv'
  <2> SUFFICES ASSUME NEW u \in Threads, u # t PROVE PathSound(u)'
    BY <1>5 DEF PathInv
  <2>1. /\ PathSound(u) /\ path'[u] = path[u] /\ pc'[u] = pc[u]
        /\ used_nodes \in Nat /\ used_nodes' = used_nodes
        /\ arc' = arc /\ owner' = owner /\ games' = games
    BY <1>5 DEF PathInv, TypeOK
  <2> QED BY <1>1, <2>1, OtherPath
<1>7. \A u \in Threads : Building(u)' => Building(u) /\ u # t
  BY <1>5 DEF Building
<1>8. \A u \in Threads : u # t => Held(u)' = Held(u)
  BY <1>5 DEF Held, Building
<1>9. ASSUME NEW u \in Threads, u # t, BuildSound(u) PROVE BuildSound(u)'
  BY <1>1, <1>5, <1>9 DEF BuildSound
<1>10. NodeInv'
  <2>1. \A u, v \in Threads : u # v /\ Held(u)' = Held(v)' => Held(u)' \in Linked'
    BY <1>1, <1>3, <1>5, <1>8 DEF NodeInv
  <2>2. \A u \in Threads : Building(u)' => BuildSound(u)'
    BY <1>7, <1>9 DEF NodeInv
  <2> QED BY <2>1, <2>2 DEF NodeInv
<1>11. LockInv'
  <2>1. \A u \in Threads : /\ Locking(u)' => Locking(u) /\ u # t
                           /\ pc'[u] = "link" => pc[u] = "link" /\ u # t
    BY <1>5 DEF Locking
  <2>2. ASSUME NEW u \in Threads, Locking(u)' PROVE LockSound(u)'
    BY <1>1, <1>5, <2>1, <2>2 DEF LockInv, LockSound, LockOf
  <2>3. ASSUME NEW u \in Threads, pc'[u] = "link" PROVE SlotSound(u)'
    BY <1>1, <1>5, <2>1, <2>3 DEF LockInv, SlotSound
  <2> QED BY <1>5, <2>1, <2>2, <2>3 DEF LockInv
<1> QED BY <1>1, <1>6, <1>10, <1>11

(* The lock of a pool node is one of the locks.                            *)
LEMMA LockRange ==
  ASSUME NEW n \in Pool
  PROVE  LockOf(n) \in 0 .. NumLocks - 1
BY UctAssumption DEF Pool, LockOf

(* Taking the parent's lock: nobody else holds it, so nobody else expands  *)
(* that parent, and its list has no arc of the move.                       *)
LEMMA LockStep ==
  ASSUME Inv, TypeOK', NEW t \in Threads,
         pc[t] = "find", lock[LockOf(At(t))] = Free,
         \A a \in OnList(At(t)) : arc[a].move # move[t],
         lock' = [lock EXCEPT ![LockOf(At(t))] = t], Goto(t, "init"),
         UNCHANGED <<tree, sims, locals>>
  PROVE  Inv'
<1> USE DEF Inv, tree, locals
<1>1. /\ \A u \in Threads : u # t => pc'[u] = pc[u]
      /\ pc'[t] = "init"
  BY DEF Goto, TypeOK
<1>2. /\ ArcInv' /\ ChainInv' /\ Published' = Published /\ Linked' = Linked
      /\ \A n : Children(n)' = Children(n)
  BY SameShape
<1>3. \A u \in Threads : At(u)' = At(u)
  BY DEF At, Last
<1>4. PathInv'
  <2> SUFFICES ASSUME NEW u \in Threads PROVE PathSound(u)'
    BY DEF PathInv
  <2>1. CASE u # t
    <3>1. /\ PathSound(u) /\ path'[u] = path[u] /\ pc'[u] = pc[u]
          /\ used_nodes \in Nat /\ used_nodes' = used_nodes
          /\ arc' = arc /\ owner' = owner /\ games' = games
      BY <1>1, <2>1 DEF PathInv, TypeOK
    <3> QED BY <1>2, <3>1, OtherPath
  <2>2. CASE u = t
    <3>1. PathSound(t) /\ Expanding(t)
      BY DEF PathInv, Expanding
    <3> QED BY <1>1, <1>2, <1>3, <2>2, <3>1 DEF PathSound
  <2> QED BY <2>1, <2>2
<1>5. NodeInv'
  <2>1. \A u \in Threads : Building(u)' <=> Building(u)
    BY <1>1 DEF Building
  <2>2. \A u \in Threads : Held(u)' = Held(u)
    BY <1>3, <2>1 DEF Held
  <2>3. \A u \in Threads : Building(u) => u # t
    BY DEF Building
  <2>4. ASSUME NEW u \in Threads, u # t, BuildSound(u) PROVE BuildSound(u)'
    BY <1>1, <1>2, <1>3, <2>4 DEF BuildSound
  <2> QED BY <1>2, <2>1, <2>2, <2>3, <2>4 DEF NodeInv
<1>6. LockInv'
  <2>1. \A u \in Threads : u # t =>
            (Locking(u)' <=> Locking(u)) /\ (pc'[u] = "link" <=> pc[u] = "link")
    BY <1>1 DEF Locking
  <2>2. At(t) \in Pool /\ LockOf(At(t)) \in 0 .. NumLocks - 1
    BY LinkedFacts, LockRange DEF PathInv, PathSound, Expanding
  <2>3. ASSUME NEW u \in Threads, u # t, Locking(u) PROVE LockSound(u)'
    <3>1. LockSound(u)
      BY <2>3 DEF LockInv
    <3>2. LockOf(At(u)) # LockOf(At(t))
      BY <3>1, UctAssumption DEF LockSound, Free
    <3>3. lock'[LockOf(At(u))] = u
      BY <3>1, <3>2 DEF LockSound, TypeOK
    <3>4. LockOf(At(u))' = LockOf(At(u))
      BY <1>3 DEF LockOf
    <3> QED BY <1>2, <1>3, <3>1, <3>3, <3>4 DEF LockSound
  <2>4. LockSound(t)'
    <3>1. lock'[LockOf(At(t))] = t
      BY <2>2 DEF TypeOK
    <3>2. LockOf(At(t))' = LockOf(At(t))
      BY <1>3 DEF LockOf
    <3>3. OnList(At(t)) = Children(At(t))
      BY PathType, ListIsChildren
    <3> QED BY <1>2, <1>3, <3>1, <3>2, <3>3 DEF LockSound
  <2>5. ASSUME NEW u \in Threads, u # t, pc[u] = "link" PROVE SlotSound(u)'
    BY <1>2, <1>3, <2>5 DEF LockInv, SlotSound
  <2>6. pc'[t] # "link"
    BY <1>1
  <2>7. \A u \in Threads : Locking(u)' => LockSound(u)'
    BY <2>1, <2>3, <2>4
  <2>8. \A u \in Threads : pc'[u] = "link" => u # t /\ pc[u] = "link" /\ SlotSound(u)'
    BY <2>1, <2>5, <2>6
  <2> QED BY <2>7, <2>8 DEF LockInv
<1> QED BY <1>2, <1>4, <1>5, <1>6

(* Backing up: only the worker's own node gains a visit, so a node that is *)
(* being built or about to be scored by another worker does not.           *)
LEMMA BackupStep ==
  ASSUME Inv, TypeOK', NEW t \in Threads, Backup(t)
  PROVE  Inv'
<1> USE DEF Inv
<1>1. /\ UNCHANGED <<used_nodes, used_arcs, child, arc, owner, untested, lock, move, node, slot>>
      /\ games' = [games EXCEPT ![At(t)] = @ + 1]
      /\ pc[t] = "backup" /\ pc'[t] \in {"backup", "test"}
      /\ \A u \in Threads : u # t => pc'[u] = pc[u]
  BY DEF Backup, Goto, TypeOK
<1>2. /\ ArcInv' /\ ChainInv' /\ Published' = Published /\ Linked' = Linked
      /\ \A n : Children(n)' = Children(n)
  BY <1>1, SameShape
<1>3. /\ \A u \in Threads : u # t => path'[u] = path[u]
      /\ At(t)' \in Linked
      /\ PathSound(t)'
  <2>0. PathSound(t) /\ ~Expanding(t)' /\ pc'[t] # "select" /\ pc'[t] # "done"
    BY <1>1 DEF PathInv, Expanding
  <2>1. CASE Depth(t) > 0
    <3>1. /\ Len(path'[t]) = Len(path[t]) - 1
          /\ \A i \in 1 .. Len(path[t]) - 1 : path'[t][i] = path[t][i]
          /\ \A u \in Threads : u # t => path'[u] = path[u]
      BY <2>1, ReturnPath DEF Backup
    <3>2. Len(path[t]) \in Nat /\ Len(path[t]) > 1
      BY <2>1, PathType DEF Depth
    <3>3. At(t)' = path[t][Len(path[t]) - 1]
      BY <3>1, <3>2 DEF At, Last
    <3>4. At(t)' \in Linked
      BY <2>0, <3>2, <3>3 DEF PathSound
    <3>5. pc'[t] = "backup"
      BY <1>1, <2>1 DEF Backup
    <3>6. \A i \in 1 .. Len(path'[t]) - 1 :
             /\ i \in 1 .. Len(path[t]) - 1 /\ i + 1 \in 1 .. Len(path[t]) - 1
             /\ path'[t][i] = path[t][i] /\ path'[t][i + 1] = path[t][i + 1]
      BY <3>1, <3>2
    <3>7. \A i \in 1 .. Len(path'[t]) - 1 :
             /\ path'[t][i] \in Linked'
             /\ path'[t][i + 1] \in Linked' =>
                   \E a \in Published' :
                       owner'[a] = path'[t][i] /\ arc'[a].node = path'[t][i + 1]
      BY <1>1, <1>2, <2>0, <3>6 DEF PathSound
    <3>8. path'[t][1] = Root /\ Len(path'[t]) <= MaxDepth + 1
      BY <2>0, <3>1, <3>2, UctAssumption DEF PathSound
    <3>9. PathSound(t)'
      BY <1>2, <2>0, <3>4, <3>5, <3>7, <3>8 DEF PathSound
    <3> QED BY <3>1, <3>4, <3>9
  <2>2. CASE ~(Depth(t) > 0)
    <3>0. path' = path
      BY <2>2 DEF Backup
    <3>5. Len(path[t]) \in Nat \ {0}
      BY PathType
    <3>7. ~(Len(path[t]) - 1 > 0)
      BY <2>2 DEF Depth
    <3>6. Len(path[t]) = 1
      <4>1. \A k \in Nat \ {0} : ~(k - 1 > 0) => k = 1
        OBVIOUS
      <4> QED BY <3>5, <3>7, <4>1, Zenon
    <3>1. path' = path /\ Len(path[t]) = 1
      BY <3>0, <3>6
    <3>2. At(t) = Root /\ At(t)' = Root
      BY <2>0, <3>1 DEF At, Last, PathSound
    <3>3. At(t)' \in Linked
      BY <3>2, LinkedFacts
    <3>4. PathSound(t)'
      BY <1>1, <1>2, <2>0, <3>1, <3>3 DEF PathSound
    <3> QED BY <3>1, <3>3, <3>4
  <2> QED BY <2>1, <2>2
<1>4. \A u \in Threads : u # t => At(u)' = At(u)
  BY <1>3 DEF At, Last
<1>5. \A u \in Threads : (Building(u)' <=> Building(u)) /\ (Building(u) => u # t)
  BY <1>1 DEF Building
<1>6. Held(t) = At(t) /\ Held(t)' = At(t)'
  BY <1>1 DEF Held, Building
<1>7. \A u \in Threads : u # t => Held(u)' = Held(u)
  BY <1>1, <1>4, <1>5 DEF Held
<1>8. \A n \in Nodes : n # At(t) => games'[n] = games[n]
  BY <1>1 DEF TypeOK
<1>9. PathInv'
  <2> SUFFICES ASSUME NEW u \in Threads, u # t PROVE PathSound(u)'
    BY <1>3 DEF PathInv
  <2>1. pc[u] = "select" /\ At(u) \notin Linked => games'[At(u)] = games[At(u)]
    <3>1. pc[u] = "select" => Held(u) = At(u)
      BY DEF Held, Building
    <3> QED BY <1>6, <1>8, <3>1, PathType DEF NodeInv
  <2>2. /\ PathSound(u) /\ path'[u] = path[u] /\ pc'[u] = pc[u]
        /\ used_nodes \in Nat /\ used_nodes' = used_nodes
        /\ arc' = arc /\ owner' = owner
    BY <1>1, <1>3 DEF PathInv, TypeOK
  <2> QED BY <1>2, <2>1, <2>2, OtherPath
<1>10. NodeInv'
  <2>1. \A n \in Pool : used_nodes' <= n => games'[n] = 0
    <3> SUFFICES ASSUME NEW n \in Pool, used_nodes <= n PROVE games'[n] = 0
      BY <1>1
    <3>1. n # At(t)
      <4>1. At(t) \in Linked \/ At(t) = t \/ (At(t) \in Pool /\ At(t) < used_nodes)
        BY DEF PathInv, PathSound
      <4>2. n \in Nat /\ used_nodes \in Nat /\ t \notin Pool
        BY LinkedFacts, UctAssumption DEF Pool, TypeOK
      <4> QED BY <4>1, <4>2, LinkedFacts DEF Pool
    <3> QED BY <1>8, <3>1 DEF NodeInv, Nodes
  <2>2. ASSUME NEW u \in Threads, Building(u)' PROVE BuildSound(u)'
    <3>1. u # t /\ BuildSound(u) /\ Held(u) = node[u]
      BY <1>5, <2>2 DEF NodeInv, Held
    <3>2. node[u] # At(t)
      BY <1>6, <3>1 DEF NodeInv, BuildSound
    <3>3. games'[node[u]] = games[node[u]]
      BY <1>8, <3>2 DEF TypeOK
    <3> QED BY <1>1, <1>2, <1>4, <3>1, <3>3 DEF BuildSound
  <2>3. \A u, v \in Threads : u # v /\ Held(u)' = Held(v)' => Held(u)' \in Linked'
    BY <1>2, <1>3, <1>6, <1>7 DEF NodeInv
  <2> QED BY <1>1, <2>1, <2>2, <2>3 DEF NodeInv
<1>11. LockInv'
  <2>1. \A u \in Threads : /\ Locking(u)' => Locking(u) /\ u # t
                           /\ pc'[u] = "link" => pc[u] = "link" /\ u # t
    BY <1>1 DEF Locking
  <2>2. ASSUME NEW u \in Threads, Locking(u)' PROVE LockSound(u)'
    BY <1>1, <1>2, <1>4, <2>1, <2>2 DEF LockInv, LockSound, LockOf
  <2>3. ASSUME NEW u \in Threads, pc'[u] = "link" PROVE SlotSound(u)'
    BY <1>1, <1>2, <1>4, <2>1, <2>3 DEF LockInv, SlotSound
  <2> QED BY <1>1, <2>1, <2>2, <2>3 DEF LockInv
<1> QED BY <1>2, <1>9, <1>10, <1>11

(* Allocating a node: it is new, or it is the worker's own overflow node.  *)
LEMMA InitStep ==
  ASSUME Inv, TypeOK', NEW t \in Threads, InitNode(t)
  PROVE  Inv'
<1> USE DEF Inv
<1> DEFINE new == IF used_nodes < NumNodes THEN used_nodes ELSE t
<1>0. used_nodes \in Nat
  BY DEF TypeOK
<1>1. new \in Nodes /\ new \notin Linked
      /\ (new = t \/ new \in Pool)
      /\ (new = t => used_nodes >= NumNodes) /\ (new # t => new = used_nodes)
  <2>1. t \notin Pool /\ t \notin Int
    BY LinkedFacts, UctAssumption
  <2>2. CASE used_nodes < NumNodes
    <3>1. new = used_nodes /\ used_nodes \in Pool
      BY <1>0, <2>2, UctAssumption DEF Pool
    <3>2. used_nodes \notin Linked
      BY <1>0, LinkedFacts
    <3> QED BY <1>0, <2>1, <3>1, <3>2 DEF Nodes
  <2>3. CASE ~(used_nodes < NumNodes)
    BY <1>0, <2>1, <2>3, LinkedFacts, UctAssumption DEF Nodes
  <2> QED BY <2>2, <2>3
<1> HIDE DEF new
<1>2. /\ UNCHANGED <<used_arcs, arc, owner, lock, sims, path, move, bits, slot>>
      /\ used_nodes' = used_nodes + 1
      /\ node' = [node EXCEPT ![t] = new]
      /\ games' = [games EXCEPT ![new] = 0]
      /\ child' = [child EXCEPT ![new] = NoArc]
      /\ untested' = [untested EXCEPT ![new] = Points]
      /\ pc[t] = "init" /\ pc'[t] = "arc"
      /\ \A u \in Threads : u # t => pc'[u] = pc[u]
  BY DEF InitNode, Goto, TypeOK, new
<1>3. child[new] = NoArc
  <2>1. Children(new) = {}
    BY <1>0, <1>1, UctAssumption DEF ArcInv, Children, Published, Pool
  <2> QED BY <1>1, <2>1 DEF ArcInv
<1>4. child' = child
  BY <1>2, <1>3 DEF TypeOK
<1>5. Published' = Published /\ Linked' = Linked /\ \A n : Children(n)' = Children(n)
  BY <1>2 DEF Published, Linked, Children
<1>6. ArcInv'
  <2>1. \A a \in Published : arc[a].node < used_nodes'
    BY <1>0, <1>2 DEF ArcInv, Published, Pool
  <2> QED BY <1>2, <1>4, <1>5, <2>1 DEF ArcInv
<1>7. ChainInv'
  <2>1. \A n, S : Scanned(n, S)' <=> Scanned(n, S)
    BY <1>2, <1>4 DEF Scanned
  <2> QED BY <1>5, <2>1 DEF ChainInv
<1>8. \A u \in Threads : At(u)' = At(u)
  BY <1>2 DEF At, Last
<1>9. \A u \in Threads : u # t => At(u) # new /\ Held(u) # new
  <2> SUFFICES ASSUME NEW u \in Threads, u # t PROVE At(u) # new /\ Held(u) # new
    OBVIOUS
  <2>1. At(u) # new
    BY <1>0, <1>1, LinkedFacts, UctAssumption DEF PathInv, PathSound, Pool
  <2>2. Building(u) => node[u] # new
    BY <1>0, <1>1, LinkedFacts, UctAssumption DEF NodeInv, BuildSound, Pool
  <2> QED BY <2>1, <2>2 DEF Held
<1>10. \A n \in Nodes : n # new => games'[n] = games[n] /\ untested'[n] = untested[n]
  BY <1>2 DEF TypeOK
<1>11. games'[new] = 0 /\ untested'[new] = Points
  BY <1>1, <1>2 DEF TypeOK
<1>12. At(t) \in Linked /\ At(t) < used_nodes /\ At(t) \in Nat
  BY <1>2, LinkedFacts DEF PathInv, PathSound, Expanding, Pool
<1>13. PathInv'
  <2> SUFFICES ASSUME NEW u \in Threads PROVE PathSound(u)'
    BY DEF PathInv
  <2>1. CASE u # t
    <3>1. games'[At(u)] = games[At(u)]
      BY <1>9, <1>10, <2>1, PathType
    <3>2. /\ PathSound(u) /\ path'[u] = path[u] /\ pc'[u] = pc[u]
          /\ used_nodes' \in Nat /\ used_nodes <= used_nodes'
          /\ arc' = arc /\ owner' = owner
      BY <1>0, <1>2, <2>1 DEF PathInv
    <3> QED BY <1>0, <1>5, <3>1, <3>2, OtherPath
  <2>2. CASE u = t
    <3>1. PathSound(t) /\ Expanding(t)
      BY <1>2 DEF PathInv, Expanding
    <3> QED BY <1>2, <1>5, <1>8, <1>12, <2>2, <3>1 DEF PathSound
  <2> QED BY <2>1, <2>2
<1>14. NodeInv'
  <2>1. 1 <= used_nodes' /\ \A n \in Pool : used_nodes' <= n => games'[n] = 0
    BY <1>0, <1>2, <1>10, <1>11 DEF NodeInv, Pool, Nodes
  <2>2. \A u \in Threads : u # t => (Building(u)' <=> Building(u)) /\ node'[u] = node[u]
    BY <1>2 DEF Building, TypeOK
  <2>3. Building(t)' /\ node'[t] = new
    BY <1>2 DEF Building, TypeOK
  <2>4. Held(t)' = new /\ \A u \in Threads : u # t => Held(u)' = Held(u)
    BY <1>8, <2>2, <2>3 DEF Held
  <2>5. ASSUME NEW u \in Threads, u # t, Building(u) PROVE BuildSound(u)'
    <3>1. BuildSound(u) /\ node[u] # new /\ node[u] \in Nodes
      BY <1>9, <2>5 DEF NodeInv, Held, TypeOK
    <3>2. games'[node[u]] = games[node[u]] /\ untested'[node[u]] = untested[node[u]]
      BY <1>10, <3>1
    <3> QED BY <1>0, <1>2, <1>5, <1>8, <2>2, <2>5, <3>1, <3>2, UctAssumption DEF BuildSound, Pool
  <2>6. BuildSound(t)'
    <3>1. node'[t] = t \/ (node'[t] \in Pool /\ At(t)' < node'[t] /\ node'[t] < used_nodes')
      BY <1>0, <1>1, <1>2, <1>8, <1>12, <2>3
    <3>2. node'[t] = t => used_nodes' > NumNodes /\ pc'[t] # "link"
      BY <1>0, <1>1, <1>2, <2>3, UctAssumption
    <3> QED BY <1>1, <1>5, <1>11, <2>3, <3>1, <3>2 DEF BuildSound
  <2>7. \A u, v \in Threads : u # v /\ Held(u)' = Held(v)' => Held(u)' \in Linked'
    BY <1>5, <1>9, <2>4 DEF NodeInv
  <2>8. \A u \in Threads : Building(u)' => BuildSound(u)'
    BY <2>2, <2>5, <2>6
  <2> QED BY <2>1, <2>7, <2>8 DEF NodeInv
<1>15. LockInv'
  <2>1. \A u \in Threads : (Locking(u)' <=> Locking(u)) /\ (pc'[u] = "link" => pc[u] = "link" /\ u # t)
    BY <1>2 DEF Locking
  <2>2. ASSUME NEW u \in Threads, Locking(u)' PROVE LockSound(u)'
    BY <1>2, <1>5, <1>8, <2>1, <2>2 DEF LockInv, LockSound, LockOf
  <2>3. ASSUME NEW u \in Threads, pc'[u] = "link" PROVE SlotSound(u)'
    <3>1. node'[u] = node[u]
      BY <1>2, <2>1, <2>3 DEF TypeOK
    <3> QED BY <1>2, <1>4, <1>5, <1>8, <2>1, <2>3, <3>1 DEF LockInv, SlotSound
  <2> QED BY <1>2, <2>1, <2>2, <2>3 DEF LockInv
<1> QED BY <1>6, <1>7, <1>13, <1>14, <1>15

(* Two workers between lock and unlock expand different parents.           *)
LEMMA Exclusion ==
  ASSUME Inv, NEW t \in Threads, NEW u \in Threads, t # u, Locking(t), Locking(u)
  PROVE  LockOf(At(t)) # LockOf(At(u)) /\ At(t) # At(u)
BY DEF Inv, LockInv, LockSound

(* Giving the lock back does not touch the lock of another worker.         *)
LEMMA UnlockOthers ==
  ASSUME Inv, NEW t \in Threads, NEW u \in Threads, t # u, Locking(t), Locking(u), Unlock(t)
  PROVE  lock'[LockOf(At(u))] = u
<1>1. lock[LockOf(At(u))] = u /\ LockOf(At(t)) # LockOf(At(u))
  BY Exclusion DEF Inv, LockInv, LockSound
<1>2. At(u) \in Pool
  BY LinkedFacts DEF Inv, PathInv, PathSound, Expanding, Locking
<1> QED BY <1>1, <1>2, LockRange DEF Unlock, Inv, TypeOK

(* The pool has run out: the new node stays outside the tree.              *)
LEMMA OverflowStep ==
  ASSUME Inv, TypeOK', NEW t \in Threads, InitArc(t), used_arcs >= NumArcs \/ node[t] = t
  PROVE  Inv'
<1> USE DEF Inv
<1>0. used_arcs \in Nat /\ used_nodes \in Nat
  BY DEF TypeOK
<1>1. /\ UNCHANGED <<used_nodes, games, untested, child, owner, arc>>
      /\ used_arcs' = used_arcs + 1 /\ pc[t] = "arc"
      /\ Unlock(t) /\ Descend(t, node[t])
  BY DEF InitArc
<1>2. Published' = Published /\ Linked' = Linked /\ \A n : Children(n)' = Children(n)
  BY <1>1 DEF Published, Linked, Children
<1>3. ArcInv'
  <2>1. \A a \in Published : a < used_arcs'
    BY <1>0, <1>1 DEF ArcInv, Published, Arcs
  <2> QED BY <1>1, <1>2, <2>1 DEF ArcInv
<1>4. ChainInv'
  <2>1. \A n, S : Scanned(n, S)' <=> Scanned(n, S)
    BY <1>1 DEF Scanned
  <2> QED BY <1>2, <2>1 DEF ChainInv
<1>5. /\ node[t] \in Nodes /\ node[t] \notin Linked /\ games[node[t]] = 0
      /\ node[t] = t \/ (node[t] \in Pool /\ node[t] < used_nodes)
      /\ Held(t) = node[t] /\ Locking(t) /\ At(t) \in Linked /\ Len(path[t]) <= MaxDepth
  BY <1>1 DEF NodeInv, BuildSound, Building, Held, TypeOK, Locking, PathInv, PathSound, Expanding
<1>6. /\ PathSound(t)'
      /\ At(t)' = node[t] /\ Held(t)' = node[t] /\ pc'[t] = "select"
      /\ \A u \in Threads : u # t => /\ path'[u] = path[u] /\ At(u)' = At(u)
                                     /\ pc'[u] = pc[u] /\ move'[u] = move[u]
                                     /\ node'[u] = node[u] /\ slot'[u] = slot[u]
  <2>1. PathSound(t)
    BY DEF PathInv
  <2> QED BY <1>1, <1>2, <1>5, <2>1, DescendSound
<1>7. PathInv'
  <2> SUFFICES ASSUME NEW u \in Threads, u # t PROVE PathSound(u)'
    BY <1>6 DEF PathInv
  <2>1. /\ PathSound(u) /\ path'[u] = path[u] /\ pc'[u] = pc[u]
        /\ used_nodes \in Nat /\ used_nodes' = used_nodes
        /\ arc' = arc /\ owner' = owner /\ games' = games
    BY <1>1, <1>6 DEF PathInv, TypeOK
  <2> QED BY <1>2, <2>1, OtherPath
<1>8. \A u \in Threads : Building(u)' => Building(u) /\ u # t
  BY <1>6 DEF Building
<1>9. \A u \in Threads : Held(u)' = Held(u)
  BY <1>5, <1>6 DEF Held, Building
<1>10. ASSUME NEW u \in Threads, u # t, BuildSound(u) PROVE BuildSound(u)'
  BY <1>1, <1>2, <1>6, <1>10 DEF BuildSound
<1>11. NodeInv'
  BY <1>1, <1>2, <1>8, <1>9, <1>10 DEF NodeInv
<1>12. LockInv'
  <2>1. \A u \in Threads : /\ Locking(u)' => Locking(u) /\ u # t
                           /\ pc'[u] = "link" => pc[u] = "link" /\ u # t
    BY <1>6 DEF Locking
  <2>2. ASSUME NEW u \in Threads, Locking(u)' PROVE LockSound(u)'
    <3>1. u # t /\ Locking(u) /\ LockSound(u)
      BY <2>1, <2>2 DEF LockInv
    <3>2. lock'[LockOf(At(u))] = u
      BY <1>1, <1>5, <3>1, UnlockOthers
    <3> QED BY <1>1, <1>2, <1>6, <3>1, <3>2 DEF LockSound, LockOf
  <2>3. ASSUME NEW u \in Threads, pc'[u] = "link" PROVE SlotSound(u)'
    <3>1. u # t /\ SlotSound(u)
      BY <2>1, <2>3 DEF LockInv
    <3>2. slot[u] < used_arcs'
      BY <1>0, <1>1, <3>1 DEF SlotSound, Arcs
    <3> QED BY <1>1, <1>2, <1>6, <3>1, <3>2 DEF SlotSound
  <2> QED BY <1>6, <2>1, <2>2, <2>3 DEF LockInv
<1> QED BY <1>3, <1>4, <1>7, <1>11, <1>12

(* Allocating and filling an arc: no list reaches it yet.                  *)
LEMMA ArcStep ==
  ASSUME Inv, TypeOK', NEW t \in Threads, InitArc(t), ~(used_arcs >= NumArcs \/ node[t] = t)
  PROVE  Inv'
<1> USE DEF Inv
<1>0. used_arcs \in Nat /\ used_nodes \in Nat /\ used_arcs \in Arcs
  BY UctAssumption DEF TypeOK, Arcs
<1>1. /\ UNCHANGED <<used_nodes, games, untested, child, owner, sims, lock, virtual_loss,
                     path, move, bits, node>>
      /\ arc' = [arc EXCEPT ![used_arcs] =
                    [move |-> move[t], node |-> node[t], next |-> child[At(t)]]]
      /\ slot' = [slot EXCEPT ![t] = used_arcs]
      /\ used_arcs' = used_arcs + 1 /\ pc[t] = "arc" /\ pc'[t] = "link"
      /\ \A u \in Threads : u # t => pc'[u] = pc[u]
  BY DEF InitArc, Goto, TypeOK
<1>2. used_arcs \notin Published /\ \A a \in Published : a < used_arcs
  BY <1>0 DEF ArcInv
<1>3. \A a \in Arcs : a # used_arcs => arc'[a] = arc[a]
  BY <1>1 DEF TypeOK
<1>4. arc'[used_arcs] = [move |-> move[t], node |-> node[t], next |-> child[At(t)]]
  BY <1>0, <1>1 DEF TypeOK
<1>5. Published' = Published /\ \A n : Children(n)' = Children(n)
  BY <1>1 DEF Published, Children
<1>6. Linked' = Linked
  BY <1>2, <1>3, <1>5 DEF Linked, Published
<1>7. At(t) \in Nodes /\ child[At(t)] \in Published \cup {NoArc}
  BY PathType DEF ArcInv, Children
<1>8. node[t] \in Pool
  BY <1>1 DEF NodeInv, BuildSound, Building
<1>9. ArcInv'
  <2>1. \A a \in Arcs : arc'[a].node \in Pool /\ arc'[a].next \in Published \cup {NoArc}
    BY <1>3, <1>4, <1>7, <1>8 DEF ArcInv
  <2>2. \A a \in Published : arc'[a] = arc[a] /\ a < used_arcs'
    BY <1>0, <1>1, <1>2, <1>3 DEF Published, Arcs
  <2> QED BY <1>1, <1>5, <2>1, <2>2 DEF ArcInv
<1>10. ChainInv'
  <2> SUFFICES ASSUME NEW n \in Nodes, NEW S \in SUBSET Arcs, Scanned(n, S)'
               PROVE  Children(n) \subseteq S
    BY <1>5 DEF ChainInv
  <2> DEFINE R == S \ {used_arcs}
  <2>1. child[n] \in R \cup {NoArc}
    BY <1>1, <1>2 DEF Scanned, ArcInv, Children
  <2>2. \A a \in R : arc[a].next \in R \cup {NoArc}
    BY <1>2, <1>3 DEF Scanned, ArcInv
  <2>3. Scanned(n, R) /\ R \in SUBSET Arcs
    BY <2>1, <2>2 DEF Scanned
  <2>4. Children(n) \subseteq R
    BY <2>3 DEF ChainInv
  <2> QED BY <2>4
<1>11. \A u \in Threads : At(u)' = At(u)
  BY <1>1 DEF At, Last
<1>12. PathInv'
  <2> SUFFICES ASSUME NEW u \in Threads PROVE PathSound(u)'
    BY DEF PathInv
  <2>0. \A a \in Published : arc'[a] = arc[a] /\ owner'[a] = owner[a]
    BY <1>1, <1>2, <1>3 DEF Published
  <2>1. CASE u # t
    <3>1. PathSound(u) /\ path'[u] = path[u] /\ pc'[u] = pc[u]
      BY <1>1, <2>1 DEF PathInv
    <3> QED BY <1>0, <1>1, <1>5, <1>6, <2>0, <3>1, OtherPath
  <2>2. CASE u = t
    <3>1. PathSound(t) /\ Expanding(t) /\ Expanding(t)'
      BY <1>1 DEF PathInv, Expanding
    <3>2. \A i \in 1 .. Len(path[t]) - 1 :
             \E a \in Published' : owner'[a] = path[t][i] /\ arc'[a].node = path[t][i + 1]
      <4> TAKE i \in 1 .. Len(path[t]) - 1
      <4>1. path[t][i + 1] \in Linked
        <5>1. i + 1 \in 1 .. Len(path[t]) - 1 \/ i + 1 = Len(path[t])
          BY PathType
        <5> QED BY <3>1, <5>1, PathType DEF PathSound
      <4>2. PICK a \in Published : owner[a] = path[t][i] /\ arc[a].node = path[t][i + 1]
        BY <3>1, <4>1 DEF PathSound
      <4> QED BY <1>5, <2>0, <4>2
    <3> QED BY <1>1, <1>6, <1>11, <2>2, <3>1, <3>2 DEF PathSound
  <2> QED BY <2>1, <2>2
<1>13. NodeInv'
  <2>1. \A u \in Threads : Building(u)' <=> Building(u)
    BY <1>1 DEF Building
  <2>2. \A u \in Threads : Held(u)' = Held(u)
    BY <1>1, <1>11, <2>1 DEF Held
  <2>3. ASSUME NEW u \in Threads, BuildSound(u) PROVE BuildSound(u)'
    BY <1>1, <1>6, <1>11, <2>3 DEF BuildSound
  <2> QED BY <1>1, <1>6, <2>1, <2>2, <2>3 DEF NodeInv
<1>14. LockInv'
  <2>1. \A u \in Threads : (Locking(u)' <=> Locking(u)) /\ (u # t => (pc'[u] = "link" <=> pc[u] = "link"))
    BY <1>1 DEF Locking
  <2>2. ASSUME NEW u \in Threads, Locking(u) PROVE LockSound(u)'
    <3>1. LockSound(u)
      BY <2>2 DEF LockInv
    <3>2. \A a \in Children(At(u)) : arc'[a] = arc[a]
      BY <1>2, <1>3 DEF Children, Published
    <3> QED BY <1>1, <1>5, <1>11, <3>1, <3>2 DEF LockSound, LockOf
  <2>3. ASSUME NEW u \in Threads, u # t, pc[u] = "link"
        PROVE  SlotSound(u)' /\ slot'[u] < used_arcs
    <3>1. SlotSound(u) /\ slot'[u] = slot[u]
      BY <1>1, <2>3 DEF LockInv, TypeOK
    <3>2. slot[u] # used_arcs /\ arc'[slot[u]] = arc[slot[u]]
      <4>1. slot[u] \in Arcs /\ slot[u] < used_arcs
        BY <3>1 DEF SlotSound
      <4>2. slot[u] # used_arcs
        BY <1>0, <4>1 DEF Arcs
      <4> QED BY <1>3, <4>1, <4>2
    <3>3. slot[u] < used_arcs'
      BY <1>0, <1>1, <3>1 DEF SlotSound, Arcs
    <3> QED BY <1>1, <1>5, <1>11, <3>1, <3>2, <3>3 DEF SlotSound
  <2>4. SlotSound(t)' /\ slot'[t] = used_arcs
    <3>1. slot'[t] = used_arcs /\ used_arcs < used_arcs'
      BY <1>0, <1>1 DEF TypeOK
    <3>2. child[At(t)] < used_arcs
      BY <1>0, <1>2, <1>7 DEF NoArc
    <3>3. arc'[slot'[t]] = [move |-> move'[t], node |-> node'[t], next |-> child'[At(t)]]
      BY <1>1, <1>4, <3>1
    <3> QED BY <1>0, <1>1, <1>2, <1>5, <1>11, <3>1, <3>2, <3>3 DEF SlotSound
  <2>5. \A u, v \in Threads :
           u # v /\ pc'[u] = "link" /\ pc'[v] = "link" => slot'[u] # slot'[v]
    <3> SUFFICES ASSUME NEW u \in Threads, NEW v \in Threads,
                        u # v, pc'[u] = "link", pc'[v] = "link"
                 PROVE  slot'[u] # slot'[v]
      OBVIOUS
    <3>1. CASE u = t \/ v = t
      BY <1>0, <2>1, <2>3, <2>4, <3>1
    <3>2. CASE u # t /\ v # t
      BY <1>1, <2>1, <3>2 DEF LockInv, TypeOK
    <3> QED BY <3>1, <3>2
  <2>6. \A u \in Threads : pc'[u] = "link" => SlotSound(u)'
    BY <2>1, <2>3, <2>4
  <2>7. \A u \in Threads : Locking(u)' => LockSound(u)'
    BY <2>1, <2>2
  <2> QED BY <2>5, <2>6, <2>7 DEF LockInv
<1> QED BY <1>9, <1>10, <1>12, <1>13, <1>14

(* Publishing the arc at the head of the parent's list: the older arcs are *)
(* still behind it, and the new node is now the tree's.                    *)
LEMMA LinkStep ==
  ASSUME Inv, TypeOK', NEW t \in Threads, LinkArc(t)
  PROVE  Inv'
<1> USE DEF Inv
<1> DEFINE p == At(t)
           s == slot[t]
           n == node[t]
<1>0. used_arcs \in Nat /\ used_nodes \in Nat
  BY DEF TypeOK
<1>1. /\ UNCHANGED <<used_nodes, used_arcs, games, untested, arc, sims>>
      /\ child' = [child EXCEPT ![p] = s]
      /\ owner' = [owner EXCEPT ![s] = p]
      /\ Unlock(t) /\ Descend(t, n) /\ pc[t] = "link"
  BY DEF LinkArc
<1>2. /\ s \in Arcs /\ s < used_arcs /\ s \notin Published
      /\ arc[s] = [move |-> move[t], node |-> n, next |-> child[p]]
      /\ child[p] < s
  BY <1>1 DEF LockInv, SlotSound
<1>3. /\ p \in Linked /\ p \in Pool /\ p \in Nodes /\ Len(path[t]) <= MaxDepth
      /\ n \in Pool /\ n \in Nodes /\ p < n /\ n < used_nodes /\ n \notin Linked
      /\ games[n] = 0 /\ Held(t) = n /\ Locking(t)
  <2>1. Building(t) /\ Expanding(t) /\ Locking(t)
    BY <1>1 DEF Building, Expanding, Locking
  <2>2. PathSound(t) /\ BuildSound(t)
    BY <2>1 DEF PathInv, NodeInv
  <2>3. p \in Linked /\ p \in Pool /\ p \in Nodes /\ Len(path[t]) <= MaxDepth
    BY <2>1, <2>2, LinkedFacts DEF PathSound
  <2>4. n \in Nodes
    BY DEF TypeOK
  <2> QED BY <1>1, <2>1, <2>2, <2>3, <2>4 DEF BuildSound, Held
<1>4. \A a \in Children(p) : arc[a].move # move[t]
  BY <1>3 DEF LockInv, LockSound
<1> HIDE DEF p, s, n
<1>5. /\ owner'[s] = p /\ \A a \in Arcs : a # s => owner'[a] = owner[a]
      /\ child'[p] = s /\ \A m \in Nodes : m # p => child'[m] = child[m]
  BY <1>1, <1>2, <1>3 DEF TypeOK
<1>6. Published' = Published \cup {s}
  BY <1>2, <1>3, <1>5, UctAssumption DEF Published, Pool, NoNode
<1>7. /\ Linked' = Linked \cup {n}
      /\ \A m : m # p => Children(m)' = Children(m)
      /\ Children(p) \cup {s} = {a \in Published' : owner'[a] = p}
  <2>1. Linked' = Linked \cup {n}
    BY <1>1, <1>2, <1>6 DEF Linked
  <2>2. \A a \in Published : owner'[a] = owner[a]
    BY <1>2, <1>5 DEF Published
  <2> QED BY <1>5, <1>6, <2>1, <2>2 DEF Children
<1>8. ArcInv'
  <2>1. \A a \in Arcs : arc'[a].node \in Pool /\ arc'[a].next \in Published' \cup {NoArc}
    BY <1>1, <1>6 DEF ArcInv
  <2>2. ASSUME NEW a \in Published
        PROVE  /\ a < used_arcs'
               /\ owner'[a] \in Pool /\ owner'[a] < arc'[a].node /\ arc'[a].node < used_nodes'
               /\ arc'[a].next < a
               /\ arc'[a].next = NoArc \/ (arc'[a].next \in Published' /\ owner'[arc'[a].next] = owner'[a])
    <3>1. a \in Arcs /\ owner'[a] = owner[a]
      BY <1>2, <1>5 DEF Published
    <3>2. arc[a].next = NoArc \/ (arc[a].next \in Published /\ owner[arc[a].next] = owner[a])
      BY DEF ArcInv, Children
    <3>3. arc[a].next \in Published => owner'[arc[a].next] = owner[arc[a].next]
      BY <1>2, <1>5 DEF Published
    <3> QED BY <1>1, <1>6, <3>1, <3>2, <3>3 DEF ArcInv
  <2>3. /\ s < used_arcs'
        /\ owner'[s] \in Pool /\ owner'[s] < arc'[s].node /\ arc'[s].node < used_nodes'
        /\ arc'[s].next < s
        /\ arc'[s].next = NoArc \/ (arc'[s].next \in Published' /\ owner'[arc'[s].next] = owner'[s])
    <3>1. child[p] = NoArc \/ (child[p] \in Published /\ owner[child[p]] = p)
      BY <1>3 DEF ArcInv, Children
    <3>2. child[p] \in Published => owner'[child[p]] = owner[child[p]]
      BY <1>2, <1>5 DEF Published
    <3> QED BY <1>1, <1>2, <1>3, <1>5, <1>6, <3>1, <3>2
  <2>4. \A a, b \in Published' : arc'[a].node = arc'[b].node => a = b
    BY <1>1, <1>2, <1>3, <1>6 DEF ArcInv, Linked
  <2>5. ASSUME NEW m \in Nodes
        PROVE  child'[m] = NoArc \/ (child'[m] \in Published' /\ owner'[child'[m]] = m)
    <3>1. CASE m = p
      BY <1>5, <1>6, <3>1
    <3>2. CASE m # p
      BY <1>2, <1>5, <1>6, <3>2 DEF ArcInv, Children, Published
    <3> QED BY <3>1, <3>2
  <2>6. \A a \in Published' :
          /\ a < used_arcs'
          /\ owner'[a] \in Pool /\ owner'[a] < arc'[a].node /\ arc'[a].node < used_nodes'
          /\ arc'[a].next < a
          /\ arc'[a].next = NoArc \/ (arc'[a].next \in Published' /\ owner'[arc'[a].next] = owner'[a])
    BY <1>6, <2>2, <2>3
  <2> QED BY <2>1, <2>4, <2>5, <2>6 DEF ArcInv, Children
<1>9. ChainInv'
  <2> SUFFICES ASSUME NEW m \in Nodes, NEW S \in SUBSET Arcs, Scanned(m, S)'
               PROVE  Children(m)' \subseteq S
    BY DEF ChainInv
  <2>1. \A a \in S : arc[a].next \in S \cup {NoArc}
    BY <1>1 DEF Scanned
  <2>2. CASE m # p
    <3>1. Scanned(m, S)
      BY <1>5, <2>1, <2>2 DEF Scanned
    <3> QED BY <1>7, <2>2, <3>1 DEF ChainInv
  <2>3. CASE m = p
    <3>1. s \in S
      BY <1>2, <1>5, <2>3 DEF Scanned, Arcs, NoArc
    <3>2. child[p] \in S \cup {NoArc}
      BY <1>2, <2>1, <3>1
    <3>3. Scanned(p, S)
      BY <2>1, <3>2 DEF Scanned
    <3>4. Children(p) \subseteq S
      BY <1>3, <3>3 DEF ChainInv
    <3>5. Children(m)' = {a \in Published' : owner'[a] = p}
      BY <2>3 DEF Children
    <3> QED BY <1>7, <3>1, <3>4, <3>5
  <2> QED BY <2>2, <2>3
<1>10. \A a \in Published : arc'[a] = arc[a] /\ owner'[a] = owner[a]
  BY <1>1, <1>2, <1>5 DEF Published
<1>11. /\ PathSound(t)'
       /\ Held(t)' = n /\ pc'[t] = "select"
       /\ \A u \in Threads : u # t => /\ path'[u] = path[u] /\ At(u)' = At(u)
                                      /\ pc'[u] = pc[u] /\ move'[u] = move[u]
                                      /\ node'[u] = node[u] /\ slot'[u] = slot[u]
  <2>1. PathSound(t)
    BY DEF PathInv
  <2>2. Linked \subseteq Linked' /\ Published \subseteq Published' /\ n \in Linked'
    BY <1>6, <1>7
  <2>3. \E a \in Published' : owner'[a] = At(t) /\ arc'[a].node = n
    BY <1>1, <1>2, <1>5, <1>6 DEF p
  <2>4. At(t) \in Linked
    BY <1>3 DEF p
  <2> QED BY <1>1, <1>3, <1>10, <2>1, <2>2, <2>3, <2>4, DescendSound
<1>12. \A u \in Threads : u # t => Held(u) # n /\ At(u) # n
  <2> SUFFICES ASSUME NEW u \in Threads, u # t PROVE Held(u) # n /\ At(u) # n
    OBVIOUS
  <2>1. Held(u) # n
    BY <1>3 DEF NodeInv
  <2>2. Building(u) => At(u) # n
    BY <1>3 DEF PathInv, PathSound, Expanding, Building
  <2> QED BY <2>1, <2>2 DEF Held
<1>13. PathInv'
  <2> SUFFICES ASSUME NEW u \in Threads, u # t PROVE PathSound(u)'
    BY <1>11 DEF PathInv
  <2>1. PathSound(u) /\ path'[u] = path[u] /\ pc'[u] = pc[u]
    BY <1>11 DEF PathInv
  <2>2. At(u) \in Linked' => At(u) \in Linked
    BY <1>7, <1>12
  <2>3. Linked \subseteq Linked' /\ Published \subseteq Published'
    BY <1>6, <1>7
  <2> QED BY <1>0, <1>1, <1>10, <2>1, <2>2, <2>3, OtherPath
<1>14. \A u \in Threads : Building(u)' => Building(u) /\ u # t
  BY <1>11 DEF Building
<1>15. \A u \in Threads : u # t => Held(u)' = Held(u)
  BY <1>11 DEF Held, Building
<1>16. NodeInv'
  <2>1. ASSUME NEW u \in Threads, Building(u)' PROVE BuildSound(u)'
    <3>1. u # t /\ BuildSound(u) /\ Held(u) = node[u]
      BY <1>14, <2>1 DEF NodeInv, Held
    <3>2. node[u] \notin Linked'
      BY <1>7, <1>12, <3>1 DEF BuildSound
    <3> QED BY <1>1, <1>11, <3>1, <3>2 DEF BuildSound
  <2>2. \A u, v \in Threads : u # v /\ Held(u)' = Held(v)' => Held(u)' \in Linked'
    BY <1>7, <1>11, <1>15 DEF NodeInv
  <2> QED BY <1>1, <2>1, <2>2 DEF NodeInv
<1>17. LockInv'
  <2>1. \A u \in Threads : /\ Locking(u)' => Locking(u) /\ u # t
                           /\ pc'[u] = "link" => pc[u] = "link" /\ Locking(u) /\ u # t
    BY <1>11 DEF Locking
  <2>2. \A u \in Threads : Locking(u) /\ u # t => At(u) # p
    BY <1>3, Exclusion DEF p
  <2>3. ASSUME NEW u \in Threads, Locking(u)' PROVE LockSound(u)'
    <3>1. u # t /\ Locking(u) /\ LockSound(u) /\ At(u) # p
      BY <2>1, <2>2, <2>3 DEF LockInv
    <3>2. lock'[LockOf(At(u))] = u
      BY <1>1, <1>3, <3>1, UnlockOthers
    <3>3. \A a \in Published' : owner'[a] = At(u) => a \in Children(At(u))
      BY <1>5, <1>6, <1>10, <3>1 DEF Children
    <3> QED BY <1>1, <1>11, <3>1, <3>2, <3>3 DEF LockSound, LockOf, Children
  <2>4. ASSUME NEW u \in Threads, pc'[u] = "link" PROVE SlotSound(u)'
    <3>1. u # t /\ SlotSound(u) /\ At(u) # p /\ slot[u] # s
      BY <1>1, <2>1, <2>2, <2>4 DEF LockInv, s
    <3>2. child'[At(u)] = child[At(u)]
      BY <1>5, <3>1, PathType
    <3> QED BY <1>1, <1>6, <1>11, <3>1, <3>2 DEF SlotSound
  <2>5. \A u, v \in Threads : u # v /\ pc'[u] = "link" /\ pc'[v] = "link" => slot'[u] # slot'[v]
    BY <1>11, <2>1 DEF LockInv
  <2> QED BY <2>3, <2>4, <2>5 DEF LockInv
<1> QED BY <1>8, <1>9, <1>13, <1>16, <1>17

(* Every step preserves the invariant.                                     *)
LEMMA InvStep ==
  ASSUME Inv, [Next]_vars
  PROVE  Inv'
<1> USE DEF Inv
<1>1. TypeOK'
  BY TypeStep
<1>2. ASSUME NEW t \in Threads, Worker(t) PROVE Inv'
  <2>1. CASE Score(t) \/ LeaveLoop(t) \/ SelectUntested(t) \/ SelectPass(t) \/ ClearUntested(t)
    BY <1>1, <2>1, StandingStep
  <2>2. CASE StartSim(t)
    BY <1>1, <2>2, StartStep
  <2>3. CASE SelectChild(t)
    BY <1>1, <2>3, FollowStep DEF SelectChild, Descend
  <2>4. CASE FindChild(t)
    <3>1. CASE \E a \in OnList(At(t)) : Descend(t, arc[a].node) /\ UNCHANGED lock
      BY <1>1, <2>4, <3>1, FollowStep DEF FindChild
    <3>2. CASE /\ \A a \in OnList(At(t)) : arc[a].move # move[t]
               /\ lock' = [lock EXCEPT ![LockOf(At(t))] = t]
               /\ Goto(t, "init")
               /\ UNCHANGED <<virtual_loss, locals>>
      BY <1>1, <2>4, <3>2, LockStep DEF FindChild, tree
    <3> QED BY <2>4, <3>1, <3>2 DEF FindChild
  <2>5. CASE InitNode(t)
    BY <1>1, <2>5, InitStep
  <2>6. CASE InitArc(t)
    BY <1>1, <2>6, OverflowStep, ArcStep
  <2>7. CASE LinkArc(t)
    BY <1>1, <2>7, LinkStep
  <2>8. CASE Backup(t)
    BY <1>1, <2>8, BackupStep
  <2> QED BY <1>2, <2>1, <2>2, <2>3, <2>4, <2>5, <2>6, <2>7, <2>8 DEF Worker
<1>3. CASE UNCHANGED vars
  <2> USE <1>3 DEF vars, tree, locals
  <2>1. /\ ArcInv' /\ ChainInv' /\ Published' = Published /\ Linked' = Linked
        /\ \A n : Children(n)' = Children(n)
    BY SameShape
  <2>2. \A u \in Threads : At(u)' = At(u) /\ Held(u)' = Held(u)
    BY DEF At, Last, Held, Building
  <2>3. PathInv'
    BY <2>1, <2>2 DEF PathInv, PathSound, Expanding
  <2>4. NodeInv'
    BY <2>1, <2>2 DEF NodeInv, BuildSound, Building
  <2>5. LockInv'
    BY <2>1, <2>2 DEF LockInv, LockSound, SlotSound, Locking, LockOf
  <2> QED BY <1>1, <2>1, <2>3, <2>4, <2>5
<1> QED BY <1>2, <1>3 DEF Next, Done

(* The invariant holds when a search starts on an empty tree.              *)
LEMMA InvInit == Init => Inv
<1> SUFFICES ASSUME Init PROVE Inv
  OBVIOUS
<1>1. TypeOK
  BY TypeInit
<1>2. Published = {} /\ Linked = {Root} /\ \A n : Children(n) = {}
  BY DEF Init, Published, Linked, Children, NoNode
<1>3. Root \in Pool
  BY UctAssumption DEF Root, Pool
<1>4. ArcInv
  BY <1>2, <1>3 DEF Init, ArcInv, NoArc
<1>5. ChainInv
  BY <1>2 DEF ChainInv
<1>6. \A t \in Threads : At(t) = Root /\ Len(path[t]) = 1 /\ path[t][1] = Root /\ pc[t] = "test"
  BY DEF Init, At, Last
<1>7. PathInv
  <2> SUFFICES ASSUME NEW t \in Threads PROVE PathSound(t)
    BY DEF PathInv
  <2>1. Len(path[t]) = 1 /\ 1 .. (1 - 1) = {} /\ 1 <= MaxDepth + 1
    BY <1>6, UctAssumption
  <2>2. ~Expanding(t)
    BY <1>6 DEF Expanding
  <2> QED BY <1>2, <1>6, <2>1, <2>2 DEF PathSound
<1>8. NodeInv
  <2>1. \A t \in Threads : ~Building(t) /\ Held(t) \in Linked
    BY <1>2, <1>6 DEF Building, Held
  <2> QED BY <2>1 DEF NodeInv, Init, Nodes
<1>9. LockInv
  BY <1>6 DEF LockInv, Locking
<1> QED BY <1>1, <1>4, <1>5, <1>7, <1>8, <1>9 DEF Inv

(* The invariant holds in every reachable state.                           *)
THEOREM Invariance == Spec => []Inv
  BY InvInit, InvStep, PTL DEF Spec

-----------------------------------------------------------------------------
(* What the invariant gives.                                               *)

(* No scan of a child list ever runs in a circle, misses a published arc   *)
(* or meets one of another node, and no worker expands below an overflow   *)
(* node: the sharded locks and the prepend-only publication suffice.       *)
THEOREM ListsAreSoundAlways == Spec => []ListsAreSound
<1>1. Inv => ListsAreSound
  <2> SUFFICES ASSUME Inv PROVE ListsAreSound
    OBVIOUS
  <2> USE DEF Inv
  <2>1. \A a \in Published : arc[a].next < a
    BY DEF ArcInv
  <2>2. \A n \in Nodes : OnList(n) = Children(n)
    BY ListIsChildren
  <2>3. \A t \in Threads : \A i \in 1 .. Len(path[t]) - 1 : path[t][i] \in Pool
    BY LinkedFacts DEF PathInv, PathSound
  <2>4. \A t \in Threads : pc[t] \notin {"test", "select", "backup", "done"} => At(t) \in Pool
    <3> SUFFICES ASSUME NEW t \in Threads, pc[t] \notin {"test", "select", "backup", "done"}
                 PROVE  At(t) \in Pool
      OBVIOUS
    <3>1. pc[t] \in Labels
      BY DEF TypeOK
    <3>2. Expanding(t)
      BY <3>1 DEF Expanding, Labels
    <3> QED BY <3>2, LinkedFacts DEF PathInv, PathSound
  <2> QED BY <2>1, <2>2, <2>3, <2>4 DEF ListsAreSound
<1> QED BY <1>1, Invariance, PTL

(* A published arc never changes: a step writes the arc just allocated, or *)
(* publishes the worker's own.                                             *)
LEMMA PublishedStay ==
  ASSUME Inv, [Next]_vars
  PROVE  \A a \in Published : arc'[a] = arc[a] /\ owner'[a] = owner[a]
<1>1. ASSUME NEW t \in Threads, InitArc(t)
      PROVE  \A a \in Published : arc'[a] = arc[a] /\ owner'[a] = owner[a]
  <2>1. \A a \in Published : a \in Arcs /\ a # used_arcs
    BY DEF Inv, ArcInv, TypeOK, Published, Arcs
  <2>2. \A a \in Arcs : a # used_arcs => arc'[a] = arc[a]
    BY <1>1 DEF InitArc, Inv, TypeOK
  <2> QED BY <1>1, <2>1, <2>2 DEF InitArc
<1>2. ASSUME NEW t \in Threads, LinkArc(t)
      PROVE  \A a \in Published : arc'[a] = arc[a] /\ owner'[a] = owner[a]
  BY <1>2 DEF LinkArc, Inv, LockInv, SlotSound, TypeOK, Published
<1>3. CASE UNCHANGED <<arc, owner>>
  BY <1>3
<1>4. ASSUME NEW t \in Threads, Worker(t), ~InitArc(t), ~LinkArc(t)
      PROVE  UNCHANGED <<arc, owner>>
  BY <1>4 DEF Worker, StartSim, LeaveLoop, Score, SelectChild, SelectUntested, SelectPass,
              ClearUntested, FindChild, InitNode, Backup, tree
<1>5. CASE UNCHANGED vars
  BY <1>5 DEF vars, tree
<1> QED BY <1>1, <1>2, <1>3, <1>4, <1>5 DEF Next, Done

(* "Prepend-only => already-published arcs are immutable".                 *)
THEOREM ArcsAreImmutableAlways == Spec => ArcsAreImmutable
<1>1. Inv /\ [Next]_vars => [\A a \in Published : arc'[a] = arc[a] /\ owner'[a] = owner[a]]_vars
  BY PublishedStay
<1> QED BY <1>1, Invariance, PTL DEF Spec, ArcsAreImmutable

-----------------------------------------------------------------------------
(* The shared tree is a pure tree (GameTree).                              *)

Edges == {[from |-> owner[a], move |-> arc[a].move, to |-> arc[a].node] : a \in Published}

Visits == [n \in Pool |-> games[n]]

(* Linking an arc expands a position by a move that leads nowhere yet, to  *)
(* a node that is not in the tree.                                         *)
LEMMA LinkExpands ==
  ASSUME Inv, NEW t \in Threads, LinkArc(t)
  PROVE  \E p, n \in Pool, m \in Moves : Tree!Expand(p, m, n)
<1> USE DEF Inv
<1> DEFINE p == At(t)
           s == slot[t]
           n == node[t]
<1>1. Building(t) /\ Expanding(t) /\ Locking(t) /\ pc[t] = "link"
  BY DEF LinkArc, Building, Expanding, Locking
<1>2. /\ p \in Linked /\ p \in Pool /\ n \in Pool /\ n \notin Linked
      /\ \A a \in Children(p) : arc[a].move # move[t]
      /\ s \in Arcs /\ s \notin Published
      /\ arc[s].move = move[t] /\ arc[s].node = n
  <2>1. PathSound(t) /\ BuildSound(t) /\ LockSound(t) /\ SlotSound(t)
    BY <1>1 DEF PathInv, NodeInv, LockInv
  <2>2. p \in Linked /\ p \in Pool
    BY <1>1, <2>1, LinkedFacts DEF PathSound
  <2>3. n \in Pool /\ n \notin Linked
    BY <1>1, <2>1 DEF BuildSound
  <2>4. s \in Arcs /\ s \notin Published /\ arc[s].move = move[t] /\ arc[s].node = n
    BY <2>1 DEF SlotSound
  <2> QED BY <2>1, <2>2, <2>3, <2>4 DEF LockSound
<1>3. /\ UNCHANGED <<games, arc>>
      /\ owner'[s] = p /\ \A a \in Arcs : a # s => owner'[a] = owner[a]
  BY <1>2 DEF LinkArc, TypeOK
<1> HIDE DEF p, s, n
<1>4. Published' = Published \cup {s}
  BY <1>2, <1>3, UctAssumption DEF Published, Pool, NoNode
<1>5. Linked = {Root} \cup {e.to : e \in Edges}
  <2>1. \A a \in Published : \E e \in Edges : e.to = arc[a].node
    <3> TAKE a \in Published
    <3> DEFINE e == [from |-> owner[a], move |-> arc[a].move, to |-> arc[a].node]
    <3>1. e \in Edges /\ e.to = arc[a].node
      BY DEF Edges
    <3> QED BY <3>1
  <2>2. \A e \in Edges : \E a \in Published : e.to = arc[a].node
    BY DEF Edges
  <2> HIDE DEF Edges
  <2> QED BY <2>1, <2>2 DEF Linked
<1>6. \A e \in Edges : ~(e.from = p /\ e.move = move[t])
  BY <1>2 DEF Edges, Children
<1>7. Edges' = Edges \cup {[from |-> p, move |-> move[t], to |-> n]}
  <2>1. \A a \in Published : a \in Arcs /\ a # s
    BY <1>2 DEF Published
  <2> QED BY <1>2, <1>3, <1>4, <2>1 DEF Edges
<1>8. Visits' = Visits
  BY <1>3 DEF Visits
<1>9. move[t] \in Moves
  BY DEF TypeOK
<1>10. p \in Tree!Positions /\ n \notin Tree!Positions
  BY <1>2, <1>5 DEF Tree!Positions, Edges
<1>11. Tree!Expand(p, move[t], n)
  BY <1>6, <1>7, <1>8, <1>10 DEF Tree!Expand, Edges, Visits
<1> QED BY <1>2, <1>9, <1>11 DEF Tree!Expand

(* A step that publishes nothing leaves the edges alone.                   *)
LEMMA EdgesStay ==
  ASSUME Inv, [Next]_vars, UNCHANGED owner
  PROVE  Edges' = Edges
<1>1. Published' = Published
  BY DEF Published
<1> QED BY <1>1, PublishedStay DEF Edges

(* Every step of the workers is a step of the pure tree or changes nothing *)
(* that it has.                                                            *)
LEMMA TreeStep ==
  ASSUME Inv, [Next]_vars
  PROVE  [Tree!Next]_(Tree!vars)
<1> USE DEF Inv
<1> SUFFICES Tree!Next \/ (Edges' = Edges /\ Visits' = Visits)
  BY DEF Tree!vars, Edges, Visits
<1>1. ASSUME NEW t \in Threads, LinkArc(t) PROVE Tree!Next
  BY <1>1, LinkExpands DEF Tree!Next
<1>2. ASSUME NEW t \in Threads, Backup(t)
      PROVE  Tree!Next \/ (Edges' = Edges /\ Visits' = Visits)
  <2>1. Edges' = Edges
    BY <1>2, EdgesStay DEF Backup
  <2>2. games' = [games EXCEPT ![At(t)] = @ + 1] /\ At(t) \in Nodes
    BY <1>2, PathType DEF Backup
  <2>3. CASE At(t) \in Pool
    <3>1. Visits' = [Visits EXCEPT ![At(t)] = @ + 1]
      BY <2>2, <2>3 DEF Visits, TypeOK, Nodes
    <3>2. \E n \in Pool : Visits' = [Visits EXCEPT ![n] = @ + 1]
      BY <2>3, <3>1
    <3> QED BY <2>1, <3>2 DEF Tree!Next, Tree!Visit, Edges, Visits
  <2>4. CASE At(t) \notin Pool
    BY <2>1, <2>2, <2>4 DEF Visits, TypeOK, Nodes
  <2> QED BY <2>3, <2>4
<1>3. ASSUME NEW t \in Threads, InitNode(t) PROVE Edges' = Edges /\ Visits' = Visits
  <2>1. Edges' = Edges
    BY <1>3, EdgesStay DEF InitNode
  <2> DEFINE new == IF used_nodes < NumNodes THEN used_nodes ELSE t
  <2>2. new \in Pool => games[new] = 0
    <3>1. t \notin Pool /\ used_nodes \in Nat
      BY LinkedFacts DEF TypeOK
    <3> QED BY <3>1 DEF NodeInv
  <2>3. games' = [games EXCEPT ![new] = 0]
    BY <1>3 DEF InitNode
  <2> HIDE DEF new
  <2>4. Visits' = Visits
    BY <2>2, <2>3 DEF Visits, TypeOK, Nodes
  <2> QED BY <2>1, <2>4
<1>4. ASSUME NEW t \in Threads, Worker(t), ~LinkArc(t), ~Backup(t), ~InitNode(t)
      PROVE  Edges' = Edges /\ Visits' = Visits
  <2>1. UNCHANGED <<owner, games>>
    BY <1>4 DEF Worker, StartSim, LeaveLoop, Score, SelectChild, SelectUntested, SelectPass,
                ClearUntested, FindChild, InitArc, tree
  <2> QED BY <2>1, EdgesStay DEF Visits
<1>5. CASE UNCHANGED vars
  <2>1. UNCHANGED <<owner, games>>
    BY <1>5 DEF vars, tree
  <2> QED BY <2>1, EdgesStay DEF Visits
<1> QED BY <1>1, <1>2, <1>3, <1>4, <1>5 DEF Next, Done

(* Lock, fetch-and-add and prepend-only publication implement one pure     *)
(* tree: the tree only grows, by one edge at a time, never two edges for a *)
(* move of a position or two ways to a node, and visits are never lost.    *)
THEOREM Refinement == Spec => TreeSpec
<1>1. Init => Tree!Init
  <2> SUFFICES ASSUME Init PROVE Tree!Init
    OBVIOUS
  <2>1. Edges = {}
    BY DEF Init, Edges, Published, NoNode
  <2>2. Visits = [n \in Pool |-> 0]
    BY DEF Init, Visits, Nodes
  <2> QED BY <2>1, <2>2 DEF Tree!Init, Edges, Visits
<1> QED BY <1>1, Invariance, TreeStep, PTL DEF Spec, TreeSpec, Tree!Spec

-----------------------------------------------------------------------------
(* What is counted: virtual losses, visits, and the moves of a node that   *)
(* still have to be tried.  Cardinalities are compared step by step, each  *)
(* step adding or removing at most one element of a finite set.            *)

-----------------------------------------------------------------------------
(* Virtual losses.                                                         *)

(* The places of a node are finitely many.                                 *)
LEMMA InFlightFinite ==
  ASSUME NEW n
  PROVE  IsFiniteSet(InFlight(n))
<1>1. IsFiniteSet(Threads) /\ IsFiniteSet(2 .. MaxDepth + 1)
  BY UctAssumption, FS_Interval
<1>2. IsFiniteSet(Threads \X (2 .. MaxDepth + 1))
  BY <1>1, FS_Product
<1>3. InFlight(n) \in SUBSET (Threads \X (2 .. MaxDepth + 1))
  BY DEF InFlight
<1> QED BY <1>2, <1>3, FS_Subset

(* A step down adds one place, of the node it leads to.                    *)
LEMMA DescendInFlight ==
  ASSUME TypeOK, NEW t \in Threads, NEW n \in Nodes, Descend(t, n), Len(path[t]) <= MaxDepth,
         VirtualLossIsInFlight
  PROVE  VirtualLossIsInFlight'
<1> DEFINE k == Len(path[t])
           d == <<t, k + 1>>
<1>1. /\ Len(path'[t]) = k + 1 /\ path'[t][k + 1] = n
      /\ \A i \in 1 .. k : path'[t][i] = path[t][i]
      /\ \A u \in Threads : u # t => path'[u] = path[u]
      /\ virtual_loss' = [virtual_loss EXCEPT ![n] = @ + 1]
      /\ k \in Nat \ {0}
  BY DescendPath, PathType DEF Descend
<1>2. d \in Threads \X (2 .. MaxDepth + 1)
  BY <1>1, UctAssumption
<1> HIDE DEF k, d
<1> SUFFICES ASSUME NEW m \in Nodes
             PROVE  virtual_loss'[m] = Cardinality(InFlight(m)')
  BY DEF VirtualLossIsInFlight
<1>3. ASSUME NEW q \in Threads \X (2 .. MaxDepth + 1)
      PROVE  q \in InFlight(m)' <=> q \in InFlight(m) \/ (q = d /\ m = n)
  <2>1. q[1] \in Threads /\ q[2] \in 2 .. MaxDepth + 1 /\ q = <<q[1], q[2]>>
    OBVIOUS
  <2>2. CASE q[1] # t
    BY <1>1, <2>1, <2>2 DEF InFlight, d
  <2>3. CASE q[1] = t /\ q[2] <= k
    <3>1. q[2] \in 1 .. k /\ q # d /\ q[2] <= k + 1
      BY <1>1, <2>1, <2>3, UctAssumption DEF d
    <3> QED BY <1>1, <2>3, <3>1 DEF InFlight, k
  <2>4. CASE q[1] = t /\ q[2] = k + 1
    <3>1. q = d /\ ~(q[2] <= k)
      BY <1>1, <2>1, <2>4 DEF d
    <3> QED BY <1>1, <2>4, <3>1 DEF InFlight, k
  <2>5. CASE q[1] = t /\ q[2] > k + 1
    <3>1. q # d /\ ~(q[2] <= k) /\ ~(q[2] <= k + 1)
      BY <1>1, <2>1, <2>5, UctAssumption DEF d
    <3> QED BY <1>1, <2>5, <3>1 DEF InFlight, k
  <2>6. q[2] <= k \/ q[2] = k + 1 \/ q[2] > k + 1
    BY <1>1, <2>1, UctAssumption
  <2> QED BY <2>2, <2>3, <2>4, <2>5, <2>6
<1>4. InFlight(m) \subseteq Threads \X (2 .. MaxDepth + 1)
      /\ InFlight(m)' \subseteq Threads \X (2 .. MaxDepth + 1)
  BY DEF InFlight
<1>5. CASE m = n
  <2>1. InFlight(m)' = InFlight(m) \cup {d}
    BY <1>2, <1>3, <1>4, <1>5
  <2>2. d \notin InFlight(m)
    BY <1>1 DEF InFlight, d, k
  <2>3. Cardinality(InFlight(m)') = Cardinality(InFlight(m)) + 1
    BY <2>1, <2>2, InFlightFinite, FS_AddElement
  <2>4. virtual_loss'[m] = virtual_loss[m] + 1
    BY <1>1, <1>5 DEF TypeOK
  <2> QED BY <2>3, <2>4 DEF VirtualLossIsInFlight
<1>6. CASE m # n
  <2>1. InFlight(m)' = InFlight(m)
    BY <1>3, <1>4, <1>6
  <2>2. virtual_loss'[m] = virtual_loss[m]
    BY <1>1, <1>6 DEF TypeOK
  <2> QED BY <2>1, <2>2 DEF VirtualLossIsInFlight
<1> QED BY <1>5, <1>6

(* A return takes the last place away, of the node it leaves.              *)
LEMMA BackupInFlight ==
  ASSUME Inv, NEW t \in Threads, Backup(t), VirtualLossIsInFlight
  PROVE  VirtualLossIsInFlight'
<1> USE DEF Inv
<1>1. CASE ~(Depth(t) > 0)
  <2>1. UNCHANGED <<virtual_loss, path>>
    BY <1>1 DEF Backup
  <2> QED BY <2>1 DEF VirtualLossIsInFlight, InFlight
<1>2. CASE Depth(t) > 0
  <2> DEFINE k == Len(path[t])
             d == <<t, k>>
             n == At(t)
  <2>1. /\ Len(path'[t]) = k - 1
        /\ \A i \in 1 .. k - 1 : path'[t][i] = path[t][i]
        /\ \A u \in Threads : u # t => path'[u] = path[u]
    BY <1>2, ReturnPath DEF Backup
  <2>2. virtual_loss' = [virtual_loss EXCEPT ![n] = @ - 1]
    BY <1>2 DEF Backup
  <2>3. k \in Nat /\ k >= 2 /\ k <= MaxDepth + 1 /\ n = path[t][k] /\ n \in Nodes
    BY <1>2, PathType DEF Depth, PathInv, PathSound
  <2>4. d \in Threads \X (2 .. MaxDepth + 1)
    BY <2>3, UctAssumption
  <2> HIDE DEF k, d, n
  <2> SUFFICES ASSUME NEW m \in Nodes
               PROVE  virtual_loss'[m] = Cardinality(InFlight(m)')
    BY DEF VirtualLossIsInFlight
  <2>5. ASSUME NEW q \in Threads \X (2 .. MaxDepth + 1)
        PROVE  q \in InFlight(m)' <=> q \in InFlight(m) /\ q # d
    <3>1. q[1] \in Threads /\ q[2] \in 2 .. MaxDepth + 1 /\ q = <<q[1], q[2]>>
      OBVIOUS
    <3>2. CASE q[1] # t
      BY <2>1, <3>1, <3>2 DEF InFlight, d
    <3>3. CASE q[1] = t /\ q[2] <= k - 1
      <4>1. q[2] \in 1 .. k - 1 /\ q # d /\ q[2] <= k
        BY <2>3, <3>1, <3>3, UctAssumption DEF d
      <4> QED BY <2>1, <3>3, <4>1 DEF InFlight, k
    <3>4. CASE q[1] = t /\ q[2] = k
      <4>1. q = d /\ ~(q[2] <= k - 1)
        BY <2>3, <3>1, <3>4 DEF d
      <4> QED BY <2>1, <3>4, <4>1 DEF InFlight
    <3>5. CASE q[1] = t /\ q[2] > k
      <4>1. ~(q[2] <= k) /\ ~(q[2] <= k - 1)
        BY <2>3, <3>1, <3>5, UctAssumption
      <4> QED BY <2>1, <3>5, <4>1 DEF InFlight, k
    <3>6. q[2] <= k - 1 \/ q[2] = k \/ q[2] > k
      BY <2>3, <3>1, UctAssumption
    <3> QED BY <3>2, <3>3, <3>4, <3>5, <3>6
  <2>6. InFlight(m) \subseteq Threads \X (2 .. MaxDepth + 1)
        /\ InFlight(m)' \subseteq Threads \X (2 .. MaxDepth + 1)
    BY DEF InFlight
  <2>7. InFlight(m)' = InFlight(m) \ {d}
    BY <2>5, <2>6
  <2>8. d \in InFlight(m) <=> m = n
    BY <2>3, <2>4 DEF InFlight, d, k
  <2>9. Cardinality(InFlight(m)') = IF m = n THEN Cardinality(InFlight(m)) - 1
                                             ELSE Cardinality(InFlight(m))
    BY <2>7, <2>8, InFlightFinite, FS_RemoveElement
  <2>10. virtual_loss'[m] = IF m = n THEN virtual_loss[m] - 1 ELSE virtual_loss[m]
    BY <2>2, <2>3 DEF TypeOK
  <2> QED BY <2>9, <2>10 DEF VirtualLossIsInFlight
<1> QED BY <1>1, <1>2

(* A node just handed out is on no path, so that the reset of its counter  *)
(* loses nothing.                                                          *)
LEMMA InitInFlight ==
  ASSUME Inv, NEW t \in Threads, InitNode(t), VirtualLossIsInFlight
  PROVE  VirtualLossIsInFlight'
<1> USE DEF Inv
<1> DEFINE new == IF used_nodes < NumNodes THEN used_nodes ELSE t
<1>1. used_nodes \in Nat /\ t \notin Int
  BY UctAssumption DEF TypeOK
<1>2. new \in Nodes /\ (new = t \/ new = used_nodes) /\ new \notin Linked
  BY <1>1, LinkedFacts, UctAssumption DEF Nodes, Pool
<1>3. virtual_loss' = [virtual_loss EXCEPT ![new] = 0] /\ path' = path /\ pc[t] = "init"
  BY DEF InitNode
<1> HIDE DEF new
<1>4. \A u \in Threads : At(u) # new
  <2> SUFFICES ASSUME NEW u \in Threads PROVE At(u) # new
    OBVIOUS
  <2>1. u = t => At(u) \in Linked
    BY <1>3 DEF PathInv, PathSound, Expanding
  <2>2. At(u) \in Linked \/ At(u) = u \/ (At(u) \in Pool /\ At(u) < used_nodes)
    BY DEF PathInv, PathSound
  <2> QED BY <1>1, <1>2, <2>1, <2>2, UctAssumption DEF Pool
<1>5. InFlight(new) = {}
  <2> SUFFICES ASSUME NEW q \in InFlight(new) PROVE FALSE
    OBVIOUS
  <2>1. q[1] \in Threads /\ q[2] \in 2 .. MaxDepth + 1 /\ q[2] <= Len(path[q[1]])
        /\ path[q[1]][q[2]] = new
    BY DEF InFlight
  <2>2. q[2] \in 1 .. Len(path[q[1]]) - 1 \/ q[2] = Len(path[q[1]])
    BY <2>1, PathType, UctAssumption
  <2> QED BY <1>2, <1>4, <2>1, <2>2, PathType DEF PathInv, PathSound
<1>6. virtual_loss[new] = 0
  BY <1>2, <1>5, FS_EmptySet DEF VirtualLossIsInFlight
<1>7. virtual_loss' = virtual_loss
  BY <1>3, <1>6 DEF TypeOK
<1> QED BY <1>3, <1>7 DEF VirtualLossIsInFlight, InFlight

(* A worker that steps down is at a node of the tree above the depth limit.*)
LEMMA DepthLimit ==
  ASSUME Inv, NEW t \in Threads, (pc[t] = "select" /\ ~IsLeaf(t)) \/ Expanding(t)
  PROVE  Len(path[t]) <= MaxDepth
BY UctAssumption, PathType DEF Inv, IsLeaf, Depth, PathInv, PathSound

(* Every virtual loss a descent puts on a node is taken back when it backs *)
(* up, for every interleaving of the workers.                              *)
THEOREM VirtualLossIsInFlightAlways == Spec => []VirtualLossIsInFlight
<1>1. Init => VirtualLossIsInFlight
  <2> SUFFICES ASSUME Init, NEW n \in Nodes
               PROVE  virtual_loss[n] = Cardinality(InFlight(n))
    BY DEF VirtualLossIsInFlight
  <2>1. \A u \in Threads : Len(path[u]) = 1
    BY DEF Init
  <2>2. InFlight(n) = {}
    <3> SUFFICES ASSUME NEW q \in InFlight(n) PROVE FALSE
      OBVIOUS
    <3>1. q[1] \in Threads /\ q[2] \in 2 .. MaxDepth + 1 /\ q[2] <= Len(path[q[1]])
      BY DEF InFlight
    <3>2. MaxDepth + 1 \in Int
      BY UctAssumption
    <3>3. q[2] \in Int /\ q[2] >= 2
      BY <3>1, <3>2
    <3>4. q[2] <= 1
      BY <2>1, <3>1
    <3> QED BY <3>3, <3>4
  <2> QED BY <2>2, FS_EmptySet DEF Init
<1>2. Inv /\ VirtualLossIsInFlight /\ [Next]_vars => VirtualLossIsInFlight'
  <2> SUFFICES ASSUME Inv, VirtualLossIsInFlight, [Next]_vars
               PROVE  VirtualLossIsInFlight'
    OBVIOUS
  <2> USE DEF Inv
  <2>1. CASE UNCHANGED <<virtual_loss, path>>
    BY <2>1 DEF VirtualLossIsInFlight, InFlight
  <2>2. ASSUME NEW t \in Threads, Worker(t) PROVE VirtualLossIsInFlight'
    <3>1. CASE LeaveLoop(t) \/ Score(t) \/ SelectUntested(t) \/ SelectPass(t) \/ ClearUntested(t)
      BY <2>1, <3>1 DEF LeaveLoop, Score, SelectUntested, SelectPass, ClearUntested, tree, locals
    <3>2. CASE StartSim(t)
      <4>1. path[t] = <<Root>>
        <5>1. Len(path[t]) = 1 /\ path[t][1] = Root /\ path[t] \in Seq(Nodes)
          BY <3>2 DEF StartSim, PathInv, PathSound, TypeOK
        <5> QED BY <5>1
      <4>2. UNCHANGED <<virtual_loss, path>>
        BY <3>2, <4>1 DEF StartSim, tree, TypeOK
      <4> QED BY <2>1, <4>2
    <3>3. ASSUME NEW n \in Nodes, Descend(t, n), Len(path[t]) <= MaxDepth
          PROVE  VirtualLossIsInFlight'
      BY <3>3, DescendInFlight
    <3>4. CASE SelectChild(t) \/ FindChild(t)
      <4>1. ASSUME NEW a \in OnList(At(t)), Descend(t, arc[a].node) PROVE VirtualLossIsInFlight'
        <5>1. arc[a].node \in Nodes
          BY DEF OnList, TypeOK
        <5>2. Len(path[t]) <= MaxDepth
          BY <3>4, DepthLimit DEF SelectChild, FindChild, Expanding
        <5> QED BY <3>3, <4>1, <5>1, <5>2
      <4> QED BY <2>1, <3>4, <4>1 DEF SelectChild, FindChild, locals
    <3>5. CASE InitNode(t)
      BY <3>5, InitInFlight
    <3>6. CASE InitArc(t) \/ LinkArc(t)
      <4>1. Len(path[t]) <= MaxDepth /\ node[t] \in Nodes
        BY <3>6, DepthLimit DEF InitArc, LinkArc, Expanding, TypeOK
      <4> QED BY <2>1, <3>3, <3>6, <4>1 DEF InitArc, LinkArc
    <3>7. CASE Backup(t)
      BY <3>7, BackupInFlight
    <3> QED BY <2>2, <3>1, <3>2, <3>4, <3>5, <3>6, <3>7 DEF Worker
  <2>3. CASE UNCHANGED vars
    BY <2>1, <2>3 DEF vars, tree, locals
  <2> QED BY <2>2, <2>3 DEF Next, Done
<1> QED BY <1>1, <1>2, Invariance, PTL DEF Spec

-----------------------------------------------------------------------------
(* Visits.                                                                 *)

(* One element for each visit of the nodes that the arcs of S lead to.     *)
VisitSet(S) == UNION {{a} \X (1 .. games[arc[a].node]) : a \in S}

(* A set of arcs has finitely many visits.                                 *)
LEMMA VisitSetFinite ==
  ASSUME TypeOK, NEW S \in SUBSET Arcs
  PROVE  IsFiniteSet(VisitSet(S))
<1> DEFINE f == [a \in S |-> {a} \X (1 .. games[arc[a].node])]
           T == {{a} \X (1 .. games[arc[a].node]) : a \in S}
<1>1. IsFiniteSet(S)
  <2>1. IsFiniteSet(Arcs)
    <3>1. 0 \in Int /\ NumArcs - 1 \in Int
      BY UctAssumption
    <3> QED BY <3>1, FS_Interval DEF Arcs
  <2> QED BY <2>1, FS_Subset
<1>2. f \in Surjection(S, T)
  BY DEF Surjection
<1>3. IsFiniteSet(T)
  <2> HIDE DEF f, T
  <2> QED BY <1>1, <1>2, FS_Surjection
<1>4. \A V \in T : IsFiniteSet(V)
  <2> SUFFICES ASSUME NEW a \in S PROVE IsFiniteSet({a} \X (1 .. games[arc[a].node]))
    OBVIOUS
  <2>1. games[arc[a].node] \in Int /\ 1 \in Int
    BY DEF TypeOK
  <2>2. IsFiniteSet({a}) /\ IsFiniteSet(1 .. games[arc[a].node])
    BY <2>1, FS_Singleton, FS_Interval
  <2> QED BY <2>2, FS_Product
<1> HIDE DEF T
<1>5. IsFiniteSet(UNION T)
  BY <1>3, <1>4, FS_UNION
<1> QED BY <1>5 DEF VisitSet, T

(* The workers that back up at a node are finitely many.                   *)
LEMMA BackingUpFinite ==
  ASSUME NEW n
  PROVE  IsFiniteSet(BackingUp(n)) /\ Cardinality(BackingUp(n)) \in Nat
<1>1. BackingUp(n) \in SUBSET Threads /\ IsFiniteSet(Threads)
  BY UctAssumption DEF BackingUp
<1> QED BY <1>1, FS_Subset, FS_CardinalityType

(* Only a worker that backs up changes the visits of the tree's nodes, and *)
(* an arc is linked to a node that has none.                               *)
LEMMA VisitsStand ==
  ASSUME Inv, NEW t \in Threads, Worker(t), ~Backup(t), NEW n \in Pool
  PROVE  VisitSet(Children(n))' = VisitSet(Children(n)) /\ games'[n] = games[n]
<1> USE DEF Inv
<1>1. games'[n] = games[n] /\ \A m \in Pool : games'[m] = games[m]
  <2>1. CASE InitNode(t)
    <3> DEFINE new == IF used_nodes < NumNodes THEN used_nodes ELSE t
    <3>1. new \in Pool => games[new] = 0
      <4>1. t \notin Pool /\ used_nodes \in Nat
        BY LinkedFacts DEF TypeOK
      <4> QED BY <4>1 DEF NodeInv
    <3>2. games' = [games EXCEPT ![new] = 0]
      BY <2>1 DEF InitNode
    <3> HIDE DEF new
    <3> QED BY <3>1, <3>2 DEF TypeOK, Nodes
  <2>2. CASE ~InitNode(t)
    BY <2>2 DEF Worker, StartSim, LeaveLoop, Score, SelectChild, SelectUntested, SelectPass,
                ClearUntested, FindChild, InitArc, LinkArc, tree
  <2> QED BY <2>1, <2>2
<1>2. \A a \in Published : arc'[a] = arc[a] /\ owner'[a] = owner[a]
  BY PublishedStay DEF Next
<1>3. \A a \in Published : games'[arc[a].node] = games[arc[a].node]
  BY <1>1 DEF ArcInv, Published
<1>4. CASE ~LinkArc(t)
  <2>1. owner' = owner
    BY <1>4 DEF Worker, StartSim, LeaveLoop, Score, SelectChild, SelectUntested, SelectPass,
                ClearUntested, FindChild, InitNode, InitArc, tree
  <2>2. Children(n)' = Children(n)
    BY <2>1 DEF Children, Published
  <2>3. \A a \in Children(n) : arc'[a] = arc[a] /\ games'[arc[a].node] = games[arc[a].node]
    BY <1>2, <1>3 DEF Children
  <2> QED BY <1>1, <2>2, <2>3 DEF VisitSet
<1>5. CASE LinkArc(t)
  <2> DEFINE b == slot[t]
  <2>1. /\ b \in Arcs /\ b \notin Published /\ arc[b].node = node[t]
        /\ games[node[t]] = 0 /\ arc' = arc /\ games' = games
        /\ owner' = [owner EXCEPT ![b] = At(t)]
    <3>1. SlotSound(t) /\ BuildSound(t)
      BY <1>5 DEF LinkArc, LockInv, NodeInv, Building
    <3>2. arc' = arc /\ games' = games /\ owner' = [owner EXCEPT ![b] = At(t)]
      BY <1>5 DEF LinkArc
    <3> QED BY <3>1, <3>2 DEF SlotSound, BuildSound
  <2> HIDE DEF b
  <2>2. Children(n)' = Children(n) \cup (IF At(t) = n THEN {b} ELSE {})
    <3>1. n # NoNode
      BY UctAssumption DEF NoNode, Pool
    <3> QED BY <2>1, <3>1 DEF Children, Published, TypeOK
  <2>3. {b} \X (1 .. games[arc[b].node]) = {}
    <3>1. 1 .. 0 = {}
      OBVIOUS
    <3> QED BY <2>1, <3>1
  <2> QED BY <1>1, <2>1, <2>2, <2>3 DEF VisitSet
<1> QED BY <1>4, <1>5

(* A step moves one worker.                                                *)
LEMMA OneWorker ==
  ASSUME TypeOK, NEW t \in Threads, Worker(t), NEW u \in Threads, u # t
  PROVE  pc'[u] = pc[u] /\ path'[u] = path[u] /\ move'[u] = move[u] /\ bits'[u] = bits[u]
<1>1. ASSUME NEW n, Descend(t, n)
      PROVE  pc'[u] = pc[u] /\ path'[u] = path[u] /\ move'[u] = move[u] /\ bits'[u] = bits[u]
  BY <1>1 DEF Descend, Goto, ForgetLocals, TypeOK
<1>2. CASE StartSim(t) \/ LeaveLoop(t) \/ Score(t) \/ SelectUntested(t) \/ SelectPass(t)
  BY <1>2 DEF StartSim, LeaveLoop, Score, SelectUntested, SelectPass, Goto, locals, TypeOK
<1>3. CASE ClearUntested(t)
  BY <1>3 DEF ClearUntested, Goto, ForgetLocals, TypeOK
<1>4. CASE SelectChild(t)
  BY <1>1, <1>4 DEF SelectChild
<1>5. CASE FindChild(t)
  BY <1>1, <1>5 DEF FindChild, Goto, locals, TypeOK
<1>6. CASE InitNode(t)
  BY <1>6 DEF InitNode, Goto, TypeOK
<1>7. CASE InitArc(t)
  BY <1>1, <1>7 DEF InitArc, Goto, TypeOK
<1>8. CASE LinkArc(t)
  BY <1>1, <1>8 DEF LinkArc
<1>9. CASE Backup(t)
  BY <1>9 DEF Backup, Goto, TypeOK
<1> QED BY <1>2, <1>3, <1>4, <1>5, <1>6, <1>7, <1>8, <1>9 DEF Worker

(* A worker stays among those that back up at its node until it returns.   *)
LEMMA BackingUpStays ==
  ASSUME Inv, NEW t \in Threads, Worker(t), ~Backup(t), NEW n
  PROVE  BackingUp(n) \subseteq BackingUp(n)'
<1> USE DEF Inv
<1>1. pc[t] # "backup" \/ UNCHANGED <<pc, path>>
  BY DEF Worker, StartSim, LeaveLoop, Score, SelectChild, SelectUntested, SelectPass,
         ClearUntested, FindChild, InitNode, InitArc, LinkArc
<1>2. \A u \in Threads : u # t => pc'[u] = pc[u] /\ path'[u] = path[u]
  BY OneWorker
<1> QED BY <1>1, <1>2 DEF BackingUp, At, Last

(* Returning from c counts a visit of c, and the worker then backs up at   *)
(* the node above: that node's own visit is still to be counted.           *)
LEMMA BackupVisits ==
  ASSUME Inv, NEW t \in Threads, Backup(t), VisitsAreConserved
  PROVE  VisitsAreConserved'
<1> USE DEF Inv
<1> DEFINE c == At(t)
<1>1. /\ games' = [games EXCEPT ![c] = @ + 1] /\ pc[t] = "backup"
      /\ UNCHANGED <<arc, owner>> /\ c \in Nodes
  BY PathType DEF Backup
<1>2. \A n : Children(n)' = Children(n) /\ Children(n) \in SUBSET Arcs
  BY <1>1 DEF Children, Published
<1>3. \A u \in Threads : u # t => pc'[u] = pc[u] /\ path'[u] = path[u]
  BY OneWorker DEF Worker
<1>4. t \in BackingUp(c)
  BY <1>1 DEF BackingUp
<1>5. \A n : n # c => t \notin BackingUp(n)
  BY DEF BackingUp
<1> HIDE DEF c
<1>6. \A n \in Nodes : games'[n] = (IF n = c THEN games[n] + 1 ELSE games[n]) /\ games[n] \in Nat
  BY <1>1 DEF TypeOK
<1>7. ASSUME NEW n \in Pool, \A a \in Children(n) : arc[a].node # c
      PROVE  VisitSet(Children(n))' = VisitSet(Children(n))
  <2>1. \A a \in Children(n) : arc'[a] = arc[a] /\ games'[arc[a].node] = games[arc[a].node]
    BY <1>1, <1>2, <1>6, <1>7 DEF TypeOK
  <2> QED BY <1>2, <2>1 DEF VisitSet
<1>8. ASSUME NEW n \in Pool, \A a \in Children(n) : arc[a].node # c
      PROVE  SumGames(Children(n))' = SumGames(Children(n))
  BY <1>7, <1>8 DEF SumGames, VisitSet
<1>9. \A n \in Pool : SumGames(Children(n)) \in Nat
  <2> TAKE n \in Pool
  <2>1. IsFiniteSet(VisitSet(Children(n)))
    BY <1>2, VisitSetFinite
  <2> QED BY <2>1, FS_CardinalityType DEF SumGames, VisitSet
<1>10. \A n \in Nodes : Cardinality(BackingUp(c) \ {t}) = Cardinality(BackingUp(c)) - 1
                        /\ Cardinality(BackingUp(n)) \in Nat
  BY <1>4, BackingUpFinite, FS_RemoveElement
<1>11. \A n \in Pool : n \in Nodes
  BY DEF Nodes
<1>12. CASE ~(Depth(t) > 0)
  <2>1. UNCHANGED path /\ pc' = [pc EXCEPT ![t] = "test"]
    BY <1>12 DEF Backup, Goto
  <2>2. c = Root
    BY <1>12, PathType DEF Depth, PathInv, PathSound, c
  <2>3. \A n \in Pool : \A a \in Children(n) : arc[a].node # c
    BY <2>2 DEF ArcInv, Children, Pool, Root
  <2>4. \A n \in Pool : BackingUp(n)' = IF n = c THEN BackingUp(n) \ {t} ELSE BackingUp(n)
    BY <1>3, <1>5, <2>1 DEF BackingUp, At, Last, TypeOK
  <2> SUFFICES ASSUME NEW n \in Pool
               PROVE  SumGames(Children(n))' <= games'[n] + Cardinality(BackingUp(n)')
    BY <1>2 DEF VisitsAreConserved
  <2>5. SumGames(Children(n))' = SumGames(Children(n))
    BY <1>8, <2>3
  <2>6. SumGames(Children(n)) <= games[n] + Cardinality(BackingUp(n))
    BY DEF VisitsAreConserved
  <2>7. CASE n = c
    <3>1. Cardinality(BackingUp(n)') = Cardinality(BackingUp(n)) - 1
      BY <1>10, <1>11, <2>4, <2>7
    <3> QED BY <1>6, <1>9, <1>10, <1>11, <2>5, <2>6, <2>7, <3>1
  <2>8. CASE n # c
    BY <1>6, <1>11, <2>4, <2>5, <2>6, <2>8
  <2> QED BY <2>7, <2>8
<1>13. CASE Depth(t) > 0
  <2> DEFINE k == Len(path[t])
  <2> PICK p : p = path[t][k - 1]
    OBVIOUS
  <2>1. UNCHANGED pc /\ Len(path'[t]) = k - 1
        /\ \A i \in 1 .. k - 1 : path'[t][i] = path[t][i]
    BY <1>13, ReturnPath DEF Backup
  <2>2. k \in Nat /\ k >= 2 /\ k - 1 \in 1 .. k - 1 /\ (k - 1) + 1 = k /\ c = path[t][k]
    BY <1>13, PathType DEF Depth, c
  <2>3. p \in Linked /\ (c \in Linked =>
                           \E a \in Published : owner[a] = p /\ arc[a].node = c)
    BY <2>2 DEF PathInv, PathSound
  <2>4. At(t)' = p
    BY <2>1, <2>2 DEF At, Last
  <2> HIDE DEF k
  <2>5. c # p
    BY <2>3 DEF ArcInv, Pool
  <2>6. \A n \in Pool : BackingUp(n)' = IF n = c THEN BackingUp(n) \ {t}
                                        ELSE IF n = p THEN BackingUp(n) \cup {t}
                                        ELSE BackingUp(n)
    <3>1. \A n, u : u \in BackingUp(n) <=> u \in Threads /\ pc[u] = "backup" /\ At(u) = n
      BY DEF BackingUp
    <3>2. \A n, u : u \in BackingUp(n)' <=> u \in Threads /\ pc[u] = "backup" /\ At(u)' = n
      BY <2>1 DEF BackingUp
    <3>3. \A u \in Threads : u # t => At(u)' = At(u)
      BY <1>3 DEF At, Last
    <3> QED BY <1>1, <1>4, <1>5, <2>4, <2>5, <3>1, <3>2, <3>3
  <2>7. ASSUME NEW n \in Pool, n # p
        PROVE  SumGames(Children(n))' = SumGames(Children(n))
    <3>1. \A a \in Children(n) : arc[a].node # c
      <4> SUFFICES ASSUME NEW a \in Children(n), arc[a].node = c PROVE FALSE
        OBVIOUS
      <4>1. a \in Published /\ owner[a] = n
        BY DEF Children
      <4>2. PICK b \in Published : owner[b] = p /\ arc[b].node = c
        BY <2>3, <4>1 DEF Linked
      <4> QED BY <2>7, <4>1, <4>2 DEF ArcInv
    <3> QED BY <1>8, <3>1
  <2>8. ASSUME p \in Pool
        PROVE  SumGames(Children(p))' \in Nat /\ SumGames(Children(p))' <= SumGames(Children(p)) + 1
    <3>1. CASE \A a \in Children(p) : arc[a].node # c
      <4>1. SumGames(Children(p))' = SumGames(Children(p))
        BY <1>8, <2>8, <3>1
      <4>2. SumGames(Children(p)) \in Nat
        BY <1>9, <2>8
      <4> QED BY <4>1, <4>2
    <3>2. ASSUME NEW b \in Children(p), arc[b].node = c
          PROVE  /\ SumGames(Children(p))' \in Nat
                 /\ SumGames(Children(p))' <= SumGames(Children(p)) + 1
      <4>1. \A a \in Children(p) : arc[a].node = c => a = b
        BY <3>2 DEF ArcInv, Children
      <4> DEFINE e == <<b, games[c] + 1>>
      <4>2. \A a \in Children(p) : 1 .. games'[arc[a].node] =
                IF a = b THEN (1 .. games[arc[a].node]) \cup {games[c] + 1}
                         ELSE 1 .. games[arc[a].node]
        <5> TAKE a \in Children(p)
        <5>1. arc[a].node \in Nodes
          BY <1>2 DEF TypeOK
        <5>2. \A x \in Nat : 1 .. x + 1 = (1 .. x) \cup {x + 1}
          OBVIOUS
        <5>3. CASE a = b
          BY <1>6, <3>2, <5>1, <5>2, <5>3
        <5>4. CASE a # b
          BY <1>6, <4>1, <5>1, <5>4
        <5> QED BY <5>3, <5>4
      <4>3. VisitSet(Children(p))' = VisitSet(Children(p)) \cup {e}
        <5> SUFFICES ASSUME NEW v
                     PROVE  v \in VisitSet(Children(p))' <=> v \in VisitSet(Children(p)) \/ v = e
          OBVIOUS
        <5>1. v \in VisitSet(Children(p))' <=>
                 \E a \in Children(p)' : v \in {a} \X (1 .. games'[arc'[a].node])
          BY DEF VisitSet
        <5>2. v \in VisitSet(Children(p)) <=>
                 \E a \in Children(p) : v \in {a} \X (1 .. games[arc[a].node])
          BY DEF VisitSet
        <5>3. ASSUME NEW a \in Children(p)
              PROVE  v \in {a} \X (1 .. games'[arc[a].node]) <=>
                        v \in {a} \X (1 .. games[arc[a].node]) \/ (a = b /\ v = e)
          <6>1. \A S : v \in {a} \X S <=> \E i \in S : v = <<a, i>>
            OBVIOUS
          <6> QED BY <4>2, <6>1
        <5>4. v \in VisitSet(Children(p))' <=>
                 \E a \in Children(p) : v \in {a} \X (1 .. games'[arc[a].node])
          BY <1>1, <1>2, <5>1
        <5> QED BY <3>2, <5>2, <5>3, <5>4
      <4>4. IsFiniteSet(VisitSet(Children(p)))
        BY <1>2, VisitSetFinite
      <4> HIDE DEF e
      <4>5. /\ Cardinality(VisitSet(Children(p))') \in Nat
            /\ Cardinality(VisitSet(Children(p))') <= Cardinality(VisitSet(Children(p))) + 1
        <5>1. /\ Cardinality(VisitSet(Children(p)) \cup {e}) \in Nat
              /\ Cardinality(VisitSet(Children(p)) \cup {e}) <= Cardinality(VisitSet(Children(p))) + 1
          <6> DEFINE X == VisitSet(Children(p))
          <6>1. Cardinality(X) \in Nat
            BY <4>4, FS_CardinalityType
          <6>2. Cardinality(X \cup {e}) = IF e \in X THEN Cardinality(X) ELSE Cardinality(X) + 1
            BY <4>4, FS_AddElement
          <6> HIDE DEF X
          <6> QED BY <6>1, <6>2 DEF X
        <5> QED BY <4>3, <5>1
      <4> QED BY <4>5 DEF SumGames, VisitSet
    <3> QED BY <3>1, <3>2
  <2> SUFFICES ASSUME NEW n \in Pool
               PROVE  SumGames(Children(n))' <= games'[n] + Cardinality(BackingUp(n)')
    BY <1>2 DEF VisitsAreConserved
  <2>9. SumGames(Children(n)) <= games[n] + Cardinality(BackingUp(n))
    BY DEF VisitsAreConserved
  <2>10. CASE n = c
    <3>1. Cardinality(BackingUp(n)') = Cardinality(BackingUp(n)) - 1
      BY <1>10, <1>11, <2>6, <2>10
    <3> QED BY <1>6, <1>9, <1>10, <1>11, <2>5, <2>7, <2>9, <2>10, <3>1
  <2>11. CASE n = p
    <3>1. Cardinality(BackingUp(n)') = Cardinality(BackingUp(n)) + 1
      BY <1>5, <2>5, <2>6, <2>11, BackingUpFinite, FS_AddElement
    <3> DEFINE x == SumGames(Children(n))'
               y == SumGames(Children(n))
               z == Cardinality(BackingUp(n))
    <3>2. x \in Nat
      BY <2>8, <2>11
    <3>3. x <= y + 1 /\ y <= games[n] + z /\ y \in Nat /\ z \in Nat /\ games[n] \in Nat
          /\ games'[n] = games[n]
      BY <1>6, <1>9, <1>10, <1>11, <2>5, <2>8, <2>9, <2>11
    <3> HIDE DEF x, y, z
    <3>4. x <= games[n] + (z + 1)
      BY <3>2, <3>3
    <3> QED BY <3>1, <3>3, <3>4 DEF x, z
  <2>12. CASE n # c /\ n # p
    BY <1>6, <1>11, <2>6, <2>7, <2>9, <2>12
  <2> QED BY <2>10, <2>11, <2>12
<1> QED BY <1>12, <1>13

(* The visits of a node's children are visits of the node, counted or      *)
(* still being backed up: what an early stop and a reuse of the tree read  *)
(* from the counters is consistent at every moment of the search.          *)
THEOREM VisitsAreConservedAlways == Spec => []VisitsAreConserved
<1>1. Init => VisitsAreConserved
  <2> SUFFICES ASSUME Init, NEW n \in Pool
               PROVE  SumGames(Children(n)) <= games[n] + Cardinality(BackingUp(n))
    BY DEF VisitsAreConserved
  <2>1. Children(n) = {} /\ games[n] = 0
    BY DEF Init, Children, Published, NoNode, Nodes
  <2>2. SumGames(Children(n)) = 0
    <3>1. UNION {{a} \X (1 .. games[arc[a].node]) : a \in {}} = {}
      OBVIOUS
    <3> QED BY <2>1, <3>1, FS_EmptySet DEF SumGames
  <2> QED BY <2>1, <2>2, BackingUpFinite
<1>2. Inv /\ VisitsAreConserved /\ [Next]_vars => VisitsAreConserved'
  <2> SUFFICES ASSUME Inv, VisitsAreConserved, [Next]_vars
               PROVE  VisitsAreConserved'
    OBVIOUS
  <2>1. ASSUME NEW t \in Threads, Backup(t) PROVE VisitsAreConserved'
    BY <2>1, BackupVisits
  <2>2. ASSUME NEW t \in Threads, Worker(t), ~Backup(t) PROVE VisitsAreConserved'
    <3> SUFFICES ASSUME NEW n \in Pool
                 PROVE  SumGames(Children(n))' <= games'[n] + Cardinality(BackingUp(n)')
      BY DEF VisitsAreConserved
    <3>1. SumGames(Children(n))' = SumGames(Children(n)) /\ games'[n] = games[n]
      BY <2>2, VisitsStand DEF SumGames, VisitSet
    <3>2. Cardinality(BackingUp(n)') \in Nat /\ Cardinality(BackingUp(n)) \in Nat
          /\ Cardinality(BackingUp(n)) <= Cardinality(BackingUp(n)')
      <4>1. BackingUp(n)' \in SUBSET Threads /\ IsFiniteSet(Threads)
        BY UctAssumption DEF BackingUp
      <4>2. BackingUp(n) \in SUBSET BackingUp(n)'
        BY <2>2, BackingUpStays
      <4>3. IsFiniteSet(BackingUp(n)')
        BY <4>1, FS_Subset
      <4> QED BY <4>2, <4>3, FS_Subset, FS_CardinalityType
    <3>3. SumGames(Children(n)) <= games[n] + Cardinality(BackingUp(n))
      BY DEF VisitsAreConserved
    <3>4. SumGames(Children(n)) \in Nat /\ games[n] \in Nat
      <4>1. IsFiniteSet(VisitSet(Children(n)))
        BY VisitSetFinite DEF Children, Published, Inv
      <4>2. SumGames(Children(n)) \in Nat
        BY <4>1, FS_CardinalityType DEF SumGames, VisitSet
      <4> QED BY <4>2 DEF Inv, TypeOK, Nodes
    <3> QED BY <3>1, <3>2, <3>3, <3>4
  <2>3. CASE UNCHANGED vars
    BY <2>3 DEF vars, tree, locals, VisitsAreConserved, SumGames, Children, Published,
                BackingUp, At
  <2> QED BY <2>1, <2>2, <2>3 DEF Next, Done
<1> QED BY <1>1, <1>2, Invariance, PTL DEF Spec

-----------------------------------------------------------------------------
(* Moves.                                                                  *)

(* The pools have not run out; once they have, they stay empty.            *)
Room == used_arcs <= NumArcs /\ used_nodes <= NumNodes

(* Nothing is ever given back: where there is room, there was.             *)
LEMMA RoomBefore ==
  ASSUME TypeOK, NEW t \in Threads, Worker(t), Room'
  PROVE  Room
<1>1. used_nodes \in Nat /\ used_arcs \in Nat /\ NumNodes \in Nat /\ NumArcs \in Nat
  BY UctAssumption DEF TypeOK
<1>2. used_nodes' \in {used_nodes, used_nodes + 1} /\ used_arcs' \in {used_arcs, used_arcs + 1}
  <2>1. CASE InitNode(t)
    BY <2>1 DEF InitNode
  <2>2. CASE InitArc(t)
    BY <2>2 DEF InitArc
  <2>3. CASE ~InitNode(t) /\ ~InitArc(t)
    <3>1. used_nodes' = used_nodes /\ used_arcs' = used_arcs
      BY <2>3 DEF Worker, StartSim, LeaveLoop, Score, SelectChild, SelectUntested,
                  SelectPass, ClearUntested, FindChild, LinkArc, Backup, tree
    <3> QED BY <3>1
  <2> QED BY <2>1, <2>2, <2>3
<1> QED BY <1>1, <1>2 DEF Room

(* A thread has taken the move m of n up, or has linked its arc.           *)
Tried(n, m) == InProgress(n, m) \/ \E a \in Children(n) : arc[a].move = m

(* A worker that is about to clear a bit writes back a byte it has read:   *)
(* every bit that is still needed is in it.                                *)
BitsInv ==
    Room => \A t \in Threads : pc[t] = "clear" =>
                \A m \in Points \ Unplayable : m \in bits[t] \/ Tried(At(t), m)

(* No step but the last overflow gives up a playable move once taken up.   *)
LEMMA TriedStays ==
  ASSUME Inv, NEW t \in Threads, Worker(t), Room', NEW n, NEW m \in Points \ Unplayable,
         Tried(n, m)
  PROVE  Tried(n, m)'
<1> USE DEF Inv
<1>1. \A a \in Children(n) : a \in Children(n)' /\ arc'[a] = arc[a]
  <2>1. \A a \in Published : arc'[a] = arc[a] /\ owner'[a] = owner[a]
    BY PublishedStay DEF Next
  <2> QED BY <2>1 DEF Children, Published
<1>2. ASSUME NEW a \in Children(n), arc[a].move = m PROVE Tried(n, m)'
  BY <1>1, <1>2 DEF Tried
<1>3. ASSUME NEW u \in Threads, u # t, Expanding(u), At(u) = n, move[u] = m
      PROVE  Tried(n, m)'
  <2>1. pc'[u] = pc[u] /\ path'[u] = path[u] /\ move'[u] = move[u]
    BY <1>3, OneWorker
  <2>2. Expanding(u)' /\ At(u)' = n /\ move'[u] = m
    BY <1>3, <2>1 DEF Expanding, At, Last
  <2> QED BY <2>2 DEF Tried, InProgress, Expanding
<1>4. ASSUME Expanding(t), At(t) = n, move[t] = m PROVE Tried(n, m)'
  <2>1. ASSUME pc'[t] \in {"find", "init", "arc", "link"}, UNCHANGED <<path, move>>
        PROVE  Tried(n, m)'
    BY <1>4, <2>1 DEF Tried, InProgress, At
  <2>2. CASE ClearUntested(t)
    <3>1. move[t] \notin Unplayable
      BY <1>4
    <3>2. pc'[t] = "find" /\ UNCHANGED <<path, move>>
      BY <2>2, <3>1 DEF ClearUntested, Goto, TypeOK
    <3> QED BY <2>1, <3>2
  <2>3. CASE FindChild(t)
    <3>1. CASE \E a \in OnList(At(t)) : arc[a].move = move[t]
      <4>1. OnList(At(t)) = Children(n)
        BY <1>4, ListIsChildren, PathType
      <4> QED BY <1>2, <1>4, <3>1, <4>1
    <3>2. CASE ~\E a \in OnList(At(t)) : arc[a].move = move[t]
      <4>1. pc'[t] = "init" /\ UNCHANGED <<path, move>>
        BY <2>3, <3>2 DEF FindChild, Goto, locals, TypeOK
      <4> QED BY <2>1, <4>1
    <3> QED BY <3>1, <3>2
  <2>4. CASE InitNode(t)
    BY <2>1, <2>4 DEF InitNode, Goto, TypeOK
  <2>5. CASE InitArc(t)
    <3>1. used_arcs < NumArcs /\ node[t] # t
      BY <2>5, UctAssumption DEF InitArc, Room, TypeOK, NodeInv, Building, BuildSound
    <3>2. pc'[t] = "link" /\ UNCHANGED <<path, move>>
      BY <2>5, <3>1, UctAssumption DEF InitArc, Goto, TypeOK
    <3> QED BY <2>1, <3>2
  <2>6. CASE LinkArc(t)
    <3>1. SlotSound(t)
      BY <2>6 DEF LinkArc, LockInv
    <3>2. slot[t] \in Children(n)' /\ arc'[slot[t]].move = m
      <4>1. arc' = arc /\ owner' = [owner EXCEPT ![slot[t]] = n] /\ n \in Pool
        BY <1>4, <2>6, LinkedFacts DEF LinkArc, PathInv, PathSound
      <4>2. n # NoNode
        BY <4>1, UctAssumption DEF NoNode, Pool
      <4> QED BY <1>4, <3>1, <4>1, <4>2 DEF SlotSound, Children, Published, TypeOK
    <3> QED BY <3>2 DEF Tried
  <2>7. ~(StartSim(t) \/ LeaveLoop(t) \/ Score(t) \/ SelectChild(t) \/ SelectUntested(t)
          \/ SelectPass(t) \/ Backup(t))
    BY <1>4 DEF Expanding, StartSim, LeaveLoop, Score, SelectChild, SelectUntested, SelectPass,
                Backup
  <2> QED BY <2>2, <2>3, <2>4, <2>5, <2>6, <2>7 DEF Worker
<1> QED BY <1>2, <1>3, <1>4 DEF Tried, InProgress, Expanding

(* A node enters the tree with every move untested, and a bit is cleared   *)
(* in a node of the tree only for the move that is being taken up.         *)
LEMMA UntestedStep ==
  ASSUME Inv, NEW t \in Threads, Worker(t), Room', NoMoveIsLost, BitsInv,
         NEW n \in Linked', NEW m \in Points \ Unplayable
  PROVE  m \in untested'[n] \/ Tried(n, m)'
<1> USE DEF Inv
<1>1. Room
  BY RoomBefore DEF Inv
<1>2. ASSUME n \in Linked PROVE m \in untested[n] \/ Tried(n, m)
  BY <1>1, <1>2 DEF NoMoveIsLost, Room, Linked, Tried
<1>3. CASE n \notin Linked
  <2>1. \A a \in Published : arc'[a] = arc[a]
    BY PublishedStay DEF Next
  <2>2. LinkArc(t)
    <3>1. SUFFICES ASSUME ~LinkArc(t) PROVE FALSE
      OBVIOUS
    <3>2. owner' = owner
      BY <3>1 DEF Worker, StartSim, LeaveLoop, Score, SelectChild, SelectUntested, SelectPass,
                ClearUntested, FindChild, InitNode, InitArc, Backup, tree
    <3>3. Published' = Published
      BY <3>2 DEF Published
    <3> QED BY <1>3, <2>1, <3>3 DEF Linked
  <2>3. SlotSound(t) /\ BuildSound(t)
    BY <2>2 DEF LinkArc, LockInv, NodeInv, Building
  <2>4. n = node[t]
    <3>1. Published' \subseteq Published \cup {slot[t]}
      BY <2>2, <2>3 DEF LinkArc, Published, SlotSound, TypeOK
    <3>2. arc' = arc
      BY <2>2 DEF LinkArc
    <3> QED BY <1>3, <2>3, <3>1, <3>2 DEF Linked, SlotSound
  <2> QED BY <2>2, <2>3, <2>4 DEF LinkArc, BuildSound
<1>4. CASE n \in Linked
  <2>1. Tried(n, m) => Tried(n, m)'
    BY TriedStays
  <2>2. CASE ClearUntested(t)
    <3>1. CASE n # At(t)
      BY <1>2, <1>4, <2>1, <2>2, <3>1, LinkedFacts DEF ClearUntested, TypeOK, Nodes
    <3>2. CASE n = At(t)
      <4>1. untested'[n] = bits[t] \ {move[t]}
        BY <2>2, <3>2, PathType DEF ClearUntested, TypeOK
      <4>2. CASE m = move[t]
        <5>1. Tried(n, m)
          BY <2>2, <3>2, <4>2 DEF ClearUntested, Tried, InProgress
        <5> QED BY <2>1, <5>1
      <4>3. CASE m # move[t]
        BY <1>1, <2>1, <2>2, <3>2, <4>1, <4>3 DEF BitsInv, ClearUntested
      <4> QED BY <4>2, <4>3
    <3> QED BY <3>1, <3>2
  <2>3. CASE InitNode(t)
    <3> DEFINE new == IF used_nodes < NumNodes THEN used_nodes ELSE t
    <3>1. new # n
      <4>1. n \in Pool /\ n < used_nodes /\ used_nodes \in Nat /\ t \notin Pool
        BY <1>4, LinkedFacts DEF TypeOK
      <4> QED BY <4>1, UctAssumption DEF Pool
    <3>2. untested' = [untested EXCEPT ![new] = Points]
      BY <2>3 DEF InitNode
    <3> HIDE DEF new
    <3>3. n \in Nodes
      BY <1>4, LinkedFacts DEF Nodes
    <3> QED BY <1>2, <1>4, <2>1, <3>1, <3>2, <3>3 DEF TypeOK
  <2>4. CASE ~ClearUntested(t) /\ ~InitNode(t)
    <3>1. untested' = untested
      BY <2>4 DEF Worker, StartSim, LeaveLoop, Score, SelectChild, SelectUntested, SelectPass,
                  FindChild, InitArc, LinkArc, Backup, tree
    <3> QED BY <1>2, <1>4, <2>1, <3>1
  <2> QED BY <2>2, <2>3, <2>4
<1> QED BY <1>3, <1>4

(* A worker reads the bits of a node of the tree, and what it has read     *)
(* stays enough while the other workers go on.                             *)
LEMMA BitsStep ==
  ASSUME Inv, NEW t \in Threads, Worker(t), Room', NoMoveIsLost, BitsInv,
         NEW u \in Threads, pc'[u] = "clear", NEW m \in Points \ Unplayable
  PROVE  m \in bits'[u] \/ Tried(At(u), m)'
<1> USE DEF Inv
<1>1. Room
  BY RoomBefore DEF Inv
<1>2. ASSUME NEW n, Tried(n, m) PROVE Tried(n, m)'
  BY <1>2, TriedStays
<1>3. CASE u # t
  <2>1. pc[u] = "clear" /\ path'[u] = path[u] /\ bits'[u] = bits[u]
    BY <1>3, OneWorker
  <2>2. m \in bits[u] \/ Tried(At(u), m)
    BY <1>1, <2>1 DEF BitsInv
  <2>3. PICK n : n = At(u)
    OBVIOUS
  <2>4. At(u)' = n
    BY <2>1, <2>3 DEF At, Last
  <2> QED BY <1>2, <2>1, <2>2, <2>3, <2>4 DEF Tried, InProgress, Children, Published
<1>4. CASE u = t
  <2>1. SelectUntested(t)
    <3>1. \A n : Descend(t, n) => pc'[t] # "clear"
      BY DEF Descend, Goto, TypeOK
    <3>2. SUFFICES ASSUME ~SelectUntested(t) PROVE FALSE
      OBVIOUS
    <3> USE DEF Goto, TypeOK
    <3>3. ~(StartSim(t) \/ LeaveLoop(t) \/ Score(t) \/ SelectPass(t) \/ ClearUntested(t)
            \/ InitNode(t))
      BY <1>4 DEF StartSim, LeaveLoop, Score, SelectPass, ClearUntested, InitNode
    <3>4. ~(SelectChild(t) \/ FindChild(t) \/ InitArc(t) \/ LinkArc(t))
      BY <1>4, <3>1 DEF SelectChild, FindChild, InitArc, LinkArc
    <3>5. ~Backup(t)
      BY <1>4 DEF Backup
    <3> QED BY <3>2, <3>3, <3>4, <3>5 DEF Worker
  <2>2. PICK n : n = At(t)
    OBVIOUS
  <2>3. n \in Linked
    BY <2>1, <2>2, LinkedFacts, PathType DEF SelectUntested, IsLeaf, PathInv, PathSound
  <2>4. m \in untested[n] \/ Tried(n, m)
    BY <1>1, <2>3 DEF NoMoveIsLost, Room, Linked, Tried
  <2>5. bits'[t] = untested[n] /\ At(t)' = n
    BY <2>1, <2>2 DEF SelectUntested, TypeOK, At
  <2> QED BY <1>2, <1>4, <2>4, <2>5 DEF Tried, InProgress, Children, Published
<1> QED BY <1>3, <1>4

(* "no arc AND a cleared bit means the search can neither select nor       *)
(* re-try it": while the pools last, no playable move of a node of the     *)
(* tree is lost, though its bit is cleared by a load and a store that      *)
(* other workers may come between.                                         *)
THEOREM NoMoveIsLostAlways == Spec => []NoMoveIsLost
<1> DEFINE J == NoMoveIsLost /\ BitsInv
<1>1. Init => J
  <2> SUFFICES ASSUME Init PROVE J
    OBVIOUS
  <2>1. \A n \in {Root} \cup {arc[a].node : a \in Published} : n = Root
    BY DEF Init, Published, NoNode
  <2>2. untested[Root] = Points
    BY UctAssumption DEF Init, Nodes, Pool, Root
  <2>3. NoMoveIsLost
    BY <2>1, <2>2 DEF NoMoveIsLost
  <2>4. BitsInv
    BY DEF Init, BitsInv
  <2> QED BY <2>3, <2>4
<1>2. Inv /\ J /\ [Next]_vars => J'
  <2> SUFFICES ASSUME Inv, J, [Next]_vars PROVE J'
    OBVIOUS
  <2>1. ASSUME NEW t \in Threads, Worker(t) PROVE J'
    <3>1. NoMoveIsLost'
      <4> SUFFICES ASSUME Room' PROVE
            \A n \in Linked' : \A m \in Points \ Unplayable : m \in untested'[n] \/ Tried(n, m)'
        BY DEF NoMoveIsLost, Room, Linked, Tried
      <4> QED BY <2>1, UntestedStep
    <3>2. BitsInv'
      <4> SUFFICES ASSUME Room', NEW u \in Threads, pc'[u] = "clear", NEW m \in Points \ Unplayable
                   PROVE  m \in bits'[u] \/ Tried(At(u), m)'
        BY DEF BitsInv
      <4> QED BY <2>1, BitsStep
    <3> QED BY <3>1, <3>2
  <2>2. CASE UNCHANGED vars
    <3>1. NoMoveIsLost'
      BY <2>2 DEF vars, tree, locals, NoMoveIsLost, InProgress, Children, Published, At
    <3>2. BitsInv'
      BY <2>2 DEF vars, tree, locals, BitsInv, Room, Tried, InProgress, Children, Published, At
    <3> QED BY <3>1, <3>2
  <2> QED BY <2>1, <2>2 DEF Next, Done
<1> QED BY <1>1, <1>2, Invariance, PTL DEF Spec
=============================================================================
