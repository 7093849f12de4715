------------------------------ MODULE GameTree ------------------------------
(***************************************************************************)
(* What a search does to its game tree, whoever shares it: the tree grows  *)
(* by one edge at a time, from a position of the tree, under a move that   *)
(* has none yet, to a fresh node; visit counts grow by one; nothing that   *)
(* was in the tree leaves it or changes.  engine/montecarlo.c calls this a *)
(* "pure tree" (uct_find_node).                                            *)
(***************************************************************************)
EXTENDS Naturals

CONSTANTS
    Nodes, Moves, Root

VARIABLES
    edges,      \* set of [from, move, to]
    games       \* visits of every node

vars == <<edges, games>>

Positions == {Root} \cup {e.to : e \in edges}

Init ==
    /\ edges = {}
    /\ games = [n \in Nodes |-> 0]

(* Expand a position by a move that leads nowhere yet.                     *)
Expand(p, m, n) ==
    /\ p \in Positions
    /\ \A e \in edges : ~(e.from = p /\ e.move = m)
    /\ n \notin Positions
    /\ edges' = edges \cup {[from |-> p, move |-> m, to |-> n]}
    /\ UNCHANGED games

(* A simulation that passed through n is backed up.                        *)
Visit(n) ==
    /\ games' = [games EXCEPT ![n] = @ + 1]
    /\ UNCHANGED edges

Next ==
    \/ \E p, n \in Nodes, m \in Moves : Expand(p, m, n)
    \/ \E n \in Nodes : Visit(n)

Spec == Init /\ [][Next]_vars
=============================================================================
