----------------------------- MODULE RemoteGame -----------------------------
(***************************************************************************)
(* What a game over the Go Modem Protocol promises its two players,        *)
(* whatever the line does: they enter the game with the same terms, one    *)
(* with each color, they move in turn, and each sees the moves of the      *)
(* other, every one once and in order.                                     *)
(***************************************************************************)
EXTENDS Integers, Sequences

CONSTANTS
    Peers,
    Moves,          \* what a player may answer: points and the pass
    Terms,          \* records with size, handicap, rules and white (TRUE or FALSE)
    NoTerms

VARIABLES
    terms,          \* peer -> the terms it plays under
    moves,          \* the game, [by, move] in order
    view            \* peer -> the part of the game it has seen

vars == <<terms, moves, view>>

Init ==
    /\ terms = [p \in Peers |-> NoTerms]
    /\ moves = <<>>
    /\ view = [p \in Peers |-> <<>>]

Agree(t, u) ==
    t.size = u.size /\ t.handicap = u.handicap /\ t.rules = u.rules /\ t.white # u.white

Enter(p) ==
    /\ terms[p] = NoTerms
    /\ terms'[p] \in Terms
    /\ terms' = [terms EXCEPT ![p] = terms'[p]]
    /\ \A q \in Peers \ {p} : terms[q] # NoTerms => Agree(terms'[p], terms[q])
    /\ UNCHANGED <<moves, view>>

(* White is first if there is a handicap.                                  *)
HasTurn(p) ==
    /\ terms[p] # NoTerms
    /\ (Len(moves) % 2 = 0) = (terms[p].white = (terms[p].handicap # 0))

Move(p) ==
    /\ HasTurn(p) /\ view[p] = moves
    /\ \E m \in Moves : moves' = Append(moves, [by |-> p, move |-> m])
    /\ view' = [view EXCEPT ![p] = moves']
    /\ UNCHANGED terms

See(p) ==
    /\ terms[p] # NoTerms /\ Len(view[p]) < Len(moves)
    /\ view' = [view EXCEPT ![p] = SubSeq(moves, 1, Len(@) + 1)]
    /\ UNCHANGED <<terms, moves>>

Next == \E p \in Peers : Enter(p) \/ Move(p) \/ See(p)

Spec == Init /\ [][Next]_vars
=============================================================================
