----------------------------- MODULE MCGoModem -----------------------------
(* Instances of GoModem: GNU Go with a client, on a board of size 2.       *)
EXTENDS GoModem, TLC
CONSTANTS gnugo, client

Both == {gnugo, client}
TwoPoints == {<<0, 1>>, <<1, 1>>}

Wants(size, handicap, rules, white) ==
    [size |-> size, handicap |-> handicap, rules |-> rules, white |-> white]

(* What play_gmp asks for in the protocol proper, and a client that knows. *)
Negotiated(white, handicap) ==
    (gnugo :> Wants(-1, -1, 0, white)) @@ (client :> Wants(2, handicap, 0, 1 - white))

(* In the simplified protocol both know size and rules.  A client that     *)
(* sends RESET as well (its color black or open) against a black GNU Go    *)
(* gets nowhere: each takes the RESET of the other for a conflict.         *)
Simplified(white, handicap) ==
    (gnugo :> Wants(2, handicap, 0, white)) @@ (client :> Wants(2, -1, 0, IF white = 1 THEN -1 ELSE 1))

Game(wants, simplified, losses, timely, opening) ==
    [wants |-> wants, simplified |-> simplified, losses |-> losses, timely |-> timely, opening |-> opening]

(* A client that has no color yet when GNU Go, white, makes its first move. *)
ColorOpen == (gnugo :> Wants(-1, -1, 0, 1)) @@ (client :> Wants(2, 2, 0, -1))

(* Losses are put where the game is retried: over a pipe nothing is lost,  *)
(* and a peer of the simplified protocol is gone after its last pass.      *)
(* Negotiated(0, 2) is not here: in a handicap game of a black GNU Go the   *)
(* client's first move crosses a question, and both are given up for good.  *)
AllGames ==
    {Game(Negotiated(0, 0), FALSE, 2, TRUE, 0), Game(Negotiated(1, 0), FALSE, 2, TRUE, 0),
     Game(Negotiated(1, 2), FALSE, 2, TRUE, 0), Game(Negotiated(0, 0), FALSE, 1, FALSE, 0),
     Game(ColorOpen, FALSE, 1, FALSE, 1),
     Game(Simplified(1, 0), TRUE, 0, TRUE, 0), Game(Simplified(0, 2), TRUE, 0, TRUE, 0)}
=============================================================================
