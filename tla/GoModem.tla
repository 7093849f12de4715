------------------------------ MODULE GoModem ------------------------------
(***************************************************************************)
(* Two peers that speak the Go Modem Protocol (interface/gmp.c), each with *)
(* the game loop of interface/play_gmp.c above it, over a line that loses  *)
(* packets.  A packet carries one bit of sequence and one of               *)
(* acknowledgement; a peer that waits for an acknowledgement queues what   *)
(* it has to say and sends its last packet again every second.             *)
(* One peer is GNU Go, which leaves the terms of the game open; the other  *)
(* is a client that uses the same gmp.c and knows them.  Left out: komi    *)
(* (not in the protocol), undo (nobody here sends it), the board itself (a *)
(* move is any point, taken points included), the assembly of packets from *)
(* bytes (a damaged packet is a lost one) and "Unknown command".           *)
(***************************************************************************)
EXTENDS Integers, Sequences, SequencesExt

CONSTANTS
    Peers,
    Games,          \* the games that may be started, a record each:
                    \*   wants       peer -> [size, handicap, rules, white], -1 for open
                    \*   simplified  the simplified protocol
                    \*   losses      how many packets the line may lose
                    \*   timely      nobody retries while a packet or an answer is under way
                    \*   opening     nobody passes in the first so many moves
    Points,         \* the points <<x, y>> the players use
    MaxMoves,       \* bound on the length of a game
    MaxQueued,      \* GMP_MAXSENDSQUEUED
    RetrySecs,      \* GMP_RETRYSECS
    Retries,        \* GMP_TIMEOUTRETRIES
    MaxFlight       \* bound on the packets under way to a peer that retries make

Params == {"size", "handicap", "rules", "white"}

ASSUME GoModemAssumption ==
    /\ \E p, q \in Peers : p # q /\ Peers = {p, q}
    /\ Points \subseteq Nat \X Nat
    /\ {MaxMoves, MaxQueued, RetrySecs, Retries, MaxFlight} \subseteq Nat
    /\ \A g \in Games : g.simplified \in BOOLEAN /\ g.timely \in BOOLEAN /\ g.losses \in Nat
                        /\ g.wants \in [Peers -> [Params -> Int]]

VARIABLES
    game,           \* the game of Games that is played
    gmp,            \* peer -> its Gmp record
    app,            \* peer -> where its play_gmp is, the turn, the passes, the moves
    line,           \* peer -> the packets under way to it
    lost            \* how many packets were lost

vars == <<game, gmp, app, line, lost>>

Opponent(p) == CHOOSE q \in Peers : q # p

-----------------------------------------------------------------------------
(* Sending.  The operators take and give a Gmp record g; out is what they  *)
(* write, result and at are what gmp_check returns to its caller.          *)
Verified(g) == g.verified = Params

(* A packet that is no ack turns the sequence bit and asks for an ack.     *)
Write(g, cmd, val) ==
    LET seq == IF cmd = "ack" THEN g.myLastSeq ELSE 1 - g.myLastSeq
        packet == [seq |-> seq, ack |-> g.hisLastSeq, cmd |-> cmd, val |-> val]
    IN [g EXCEPT !.myLastSeq = seq, !.sendData = packet, !.waitingHighAck = (cmd # "ack"),
                 !.out = Append(@, packet)]

ProcessQ(g) ==
    IF g.waitingHighAck \/ g.sendsPending = <<>> THEN g
    ELSE [Write(g, Head(g.sendsPending).cmd, Head(g.sendsPending).val)
          EXCEPT !.sendsPending = Tail(@)]

(* A full queue is exit(EXIT_FAILURE).  What waits in it stands for an ack.*)
PutCommand(g, cmd, val) ==
    IF g.waitingHighAck /\ cmd \notin {"ack", "respond", "deny"} THEN
        IF Len(g.sendsPending) < MaxQueued
        THEN [g EXCEPT !.sendsPending = Append(@, [cmd |-> cmd, val |-> val])]
        ELSE [g EXCEPT !.result = "exit"]
    ELSE IF cmd = "ack" /\ g.sendsPending # <<>> THEN ProcessQ([g EXCEPT !.waitingHighAck = FALSE])
    ELSE Write(g, cmd, val)

Ack(g) == PutCommand(g, "ack", 0)

(* The first open term; assert(!colorVerified) fails if there is none,     *)
(* where the simplified protocol asks its last question again.             *)
Question(g) ==
    LET order == IF game.simplified THEN <<"white", "handicap">> ELSE <<"rules", "size", "handicap", "white">>
        open == SelectSeq(order, LAMBDA q : q \notin g.verified)
    IN IF open = <<>> THEN g.lastQuerySent ELSE Head(open)

AskQuery(g) ==
    IF Verified(g) /\ ~game.simplified THEN [g EXCEPT !.result = "assert"]
    ELSE PutCommand([g EXCEPT !.lastQuerySent = Question(g)], "query", Question(g))

(* How a term is written in a response, and what the response says of the *)
(* reader's own term; 0 and -1 for unknown.                                *)
Response(query, value) ==
    CASE query = "size" -> value
      [] query = "handicap" -> IF value = 0 THEN 1 ELSE value
      [] query = "rules" -> value + 1
      [] query = "white" -> 2 - value

Answer(query, val) ==
    CASE query = "size" -> IF val = 0 THEN -1 ELSE val
      [] query = "handicap" -> IF val <= 1 THEN val - 1 ELSE val
      [] query = "rules" -> val - 1
      [] query = "white" -> IF val = 0 THEN -1 ELSE IF val = 1 THEN 0 ELSE 1

(* newGame when the last term was just verified.                           *)
Ready(before, g) == IF ~Verified(before) /\ Verified(g) THEN [g EXCEPT !.result = "newGame"] ELSE g

(* MUTANT: a term the answer leaves open counts as verified.               *)
Respond_VerifiesUnknown(g, query) ==
    LET known == g[query] # -1
        h == [g EXCEPT !.waitingHighAck = TRUE, !.verified = @ \cup {query}]
    IN Ready(g, PutCommand(h, "respond", IF known THEN Response(query, g[query]) ELSE 0))

(* respond: a term that is known is verified by telling it.                *)
Respond(g, query) ==
    LET known == g[query] # -1
        h == [g EXCEPT !.waitingHighAck = TRUE, !.verified = IF known THEN @ \cup {query} ELSE @]
    IN Ready(g, PutCommand(h, "respond", IF known THEN Response(query, g[query]) ELSE 0))

(* gotQueryResponse: an open term is adopted, a known one must agree.      *)
GotQueryResponse(g, val) ==
    LET query == g.lastQuerySent
        answer == Answer(query, val)
        h == [g EXCEPT ![query] = IF @ = -1 THEN answer ELSE @, !.verified = @ \cup {query}]
    IN IF h[query] = -1 \/ answer \notin {-1, h[query]} THEN [h EXCEPT !.result = "err"]
       ELSE IF Verified(h) THEN [Ack(h) EXCEPT !.result = "newGame"]
       ELSE AskQuery(h)

-----------------------------------------------------------------------------
(* A move is a number: 0 for a pass, else the point counted from the upper *)
(* left corner; the reader counts with the size it knows, -1 if none (C's  *)
(* division).  The bit for the color is written and never read.            *)
Pass == <<>>
EncodeMove(g, move) == IF move = Pass THEN 0 ELSE move[1] + g.size * (g.size - 1 - move[2]) + 1
DecodeMove(g, val) ==
    IF g.size = -1 THEN <<0, val - 3>>
    ELSE <<(val - 1) % g.size, g.size - 1 - ((val - 1) \div g.size)>>

(* processCommand.  A point that comes before all terms are known is kept  *)
(* for later; a pass is not.                                               *)
ProcessCommand(g, cmd, val) ==
    CASE cmd = "query" -> Respond(g, val)
      [] cmd = "respond" -> GotQueryResponse(g, val)
      [] cmd = "reset" ->
            LET h == AskQuery(g) IN IF h.result = "nothing" THEN [h EXCEPT !.result = "reset"] ELSE h
      [] cmd = "move" /\ val = 0 -> [Ack(g) EXCEPT !.result = "pass"]
      [] cmd = "move" /\ val # 0 /\ Verified(g) ->
            [Ack(g) EXCEPT !.result = "move", !.at = DecodeMove(g, val)]
      [] cmd = "move" /\ val # 0 /\ ~Verified(g) ->
            IF g.earlyMove # <<>> THEN [Ack(g) EXCEPT !.result = "assert"]
            ELSE AskQuery([Ack(g) EXCEPT !.earlyMove = <<DecodeMove(g, val)>>])

Answered(g) == [g EXCEPT !.sendFailures = 0, !.noResponseSecs = 0, !.waitingHighAck = FALSE]

(* MUTANT: a repeated message is acted on again.                           *)
IdlePacket_ActsOnRepeats(g, packet) ==
    IF packet.cmd = "ack" \/ packet.ack # g.myLastSeq THEN g
    ELSE ProcessCommand([Answered(g) EXCEPT !.hisLastSeq = packet.seq], packet.cmd, packet.val)

(* MUTANT: a repeated message gets no second ack.                          *)
IdlePacket_IgnoresRepeats(g, packet) ==
    IF packet.cmd = "ack" \/ packet.ack # g.myLastSeq \/ packet.seq = g.hisLastSeq THEN g
    ELSE ProcessCommand([Answered(g) EXCEPT !.hisLastSeq = packet.seq], packet.cmd, packet.val)

(* A packet that comes while no ack is due: a message that is sent again   *)
(* was acted on, but its ack is missing.                                   *)
IdlePacket(g, packet) ==
    CASE packet.cmd = "ack" \/ packet.ack # g.myLastSeq -> g
      [] packet.cmd # "ack" /\ packet.ack = g.myLastSeq /\ packet.seq = g.hisLastSeq -> Ack(g)
      [] packet.cmd # "ack" /\ packet.ack = g.myLastSeq /\ packet.seq # g.hisLastSeq ->
            ProcessCommand([Answered(g) EXCEPT !.hisLastSeq = packet.seq], packet.cmd, packet.val)

(* parsePacket: when an ack is due, a new command counts as one if it      *)
(* acknowledges the last packet, and is a conflict otherwise: both         *)
(* commands are given up.                                                  *)
ParsePacket(g, packet) ==
    LET current == packet.ack = g.myLastSeq
        repeated == packet.seq = g.hisLastSeq
        Acted(h) == ProcessCommand([h EXCEPT !.hisLastSeq = packet.seq], packet.cmd, packet.val)
    IN IF ~g.waitingHighAck THEN IdlePacket(g, packet)
       ELSE IF packet.cmd = "ack" THEN
          IF ~current \/ ~repeated THEN g
          ELSE ProcessQ(IF Verified(g) THEN Answered(g) ELSE AskQuery(Answered(g)))
       ELSE IF packet.cmd = "reset" /\ g.white = -1 THEN Acted([g EXCEPT !.waitingHighAck = FALSE])
       ELSE IF repeated THEN g
       ELSE IF current THEN ProcessQ(Acted(Answered(g)))
       ELSE ProcessQ([g EXCEPT !.myLastSeq = 1 - @, !.waitingHighAck = FALSE])

-----------------------------------------------------------------------------
(* The game loop of play_gmp.                                              *)
Created(p) ==
    [size |-> game.wants[p].size, handicap |-> game.wants[p].handicap,
     rules |-> game.wants[p].rules, white |-> game.wants[p].white,
     verified |-> IF game.simplified THEN {"size", "rules"} ELSE {},
     lastQuerySent |-> "none", sendsPending |-> <<>>, sendData |-> <<>>, out |-> <<>>,
     sendFailures |-> 0, noResponseSecs |-> 0, waitingHighAck |-> FALSE,
     myLastSeq |-> 0, hisLastSeq |-> 0, earlyMove |-> <<>>, result |-> "nothing", at |-> <<0, 0>>]

Init ==
    /\ game \in Games
    /\ gmp = [p \in Peers |-> Created(p)]
    /\ app = [p \in Peers |-> [phase |-> "new", entered |-> FALSE, passes |-> 0, moves |-> <<>>]]
    /\ line = [p \in Peers |-> <<>>]
    /\ lost = 0

(* White is to move first if there is a handicap.                          *)
MyTurn(p) ==
    /\ app[p].phase = "play"
    /\ (Len(app[p].moves) % 2 = 0) = ((gmp[p].white = 1) = (gmp[p].handicap # 0))

Listening(p) ==
    app[p].phase \in {"negotiate", "over"} \/ (app[p].phase = "play" /\ ~MyTurn(p))

(* The game a peer has seen, after one more move.                          *)
After(a, by, move) ==
    LET passes == IF move = Pass THEN a.passes + 1 ELSE 0 IN
    [phase |-> IF passes < 2 THEN a.phase ELSE IF game.simplified THEN "gone" ELSE "over",
     entered |-> TRUE, passes |-> passes, moves |-> Append(a.moves, [by |-> by, move |-> move])]

OnBoard(g, at) == at[1] \in 0 .. g.size - 1 /\ at[2] \in 0 .. g.size - 1

(* What play_gmp does with a result of gmp_check.  In the game a reset or  *)
(* a new game is taken for a move at the default point <<0, 0>>.           *)
Handled(p, a, g) ==
    CASE g.result = "nothing" -> a
      [] g.result \in {"err", "timeout", "exit", "assert"} -> [a EXCEPT !.phase = g.result]
      [] a.phase = "negotiate" /\ g.result = "reset" -> a
      [] a.phase = "negotiate" /\ g.result = "newGame" -> [a EXCEPT !.phase = "play", !.entered = TRUE]
      [] a.phase = "negotiate" /\ g.result \in {"move", "pass"} -> [a EXCEPT !.phase = "err"]
      [] a.phase = "play" /\ g.result = "pass" -> After(a, Opponent(p), Pass)
      [] a.phase = "play" /\ g.result \in {"move", "reset", "newGame"} ->
            IF OnBoard(g, g.at) THEN After(a, Opponent(p), g.at) ELSE [a EXCEPT !.phase = "err"]
      [] a.phase = "over" /\ g.result \in {"reset", "newGame", "move", "pass"} -> a

(* The game is over for a peer that was in it: it says so by a third pass. *)
Farewell(before, after, g) ==
    IF before.phase = "play" /\ after.phase \in {"over", "gone"}
    THEN PutCommand(g, "move", EncodeMove(g, Pass)) ELSE g

(* A step of p: its loop has got as far as a, its Gmp record is g, and rest *)
(* is what is still under way to it.                                       *)
Step(p, a, g, rest) ==
    LET h == Farewell(app[p], a, g) IN
    /\ gmp' = [gmp EXCEPT ![p] = [h EXCEPT !.out = <<>>, !.result = "nothing", !.at = <<0, 0>>]]
    /\ app' = [app EXCEPT ![p] = a]
    /\ line' = [line EXCEPT ![p] = rest, ![Opponent(p)] = @ \o h.out]

(* gmp_startGame: all but a known white send RESET.                        *)
Start(p) ==
    /\ app[p].phase = "new"
    /\ Step(p, [app[p] EXCEPT !.phase = "negotiate"],
            IF gmp[p].white = 1 THEN gmp[p] ELSE PutCommand(gmp[p], "reset", 0), line[p])
    /\ UNCHANGED <<game, lost>>

(* genmove and the answer.  The peer reads nothing while it thinks.        *)
Think(p) ==
    /\ MyTurn(p)
    /\ \E move \in {Pass} \cup Points :
          /\ IF move = Pass THEN Len(app[p].moves) >= game.opening ELSE Len(app[p].moves) < MaxMoves
          /\ LET g == PutCommand(gmp[p], "move", EncodeMove(gmp[p], move))
                 a == After(app[p], p, move)
             IN Step(p, IF g.result = "exit" THEN [a EXCEPT !.phase = "exit"] ELSE a, g, line[p])
    /\ UNCHANGED <<game, lost>>

HasEarlyMove(p) == Verified(gmp[p]) /\ gmp[p].earlyMove # <<>>

(* gmp_check returns the move that came early.                             *)
EarlyMove(p) ==
    LET g == [gmp[p] EXCEPT !.earlyMove = <<>>, !.result = "move", !.at = Head(gmp[p].earlyMove)] IN
    /\ app[p].phase = "play" /\ Listening(p) /\ HasEarlyMove(p)
    /\ Step(p, Handled(p, app[p], g), g, line[p])
    /\ UNCHANGED <<game, lost>>

(* gmp_check reads a packet.                                               *)
Receive(p) ==
    /\ Listening(p) /\ ~(app[p].phase = "play" /\ HasEarlyMove(p)) /\ line[p] # <<>>
    /\ LET g == ParsePacket(gmp[p], Head(line[p])) IN
          Step(p, Handled(p, app[p], g), g, Tail(line[p]))
    /\ UNCHANGED <<game, lost>>

(* The seconds without an answer are not set back by a retry.              *)
Beat(g) ==
    LET late == g.noResponseSecs + 1 > RetrySecs
        h == [g EXCEPT !.noResponseSecs = @ + 1, !.sendFailures = IF late THEN @ + 1 ELSE @]
    IN IF ~late THEN h
       ELSE IF h.sendFailures > Retries THEN [h EXCEPT !.result = "timeout"]
       ELSE [h EXCEPT !.out = <<g.sendData>>]

(* heartbeat, in gmp_check, of the peers of S.                             *)
Beats(S) ==
    LET g == [p \in Peers |-> IF p \in S THEN Beat(gmp[p]) ELSE gmp[p]] IN
    /\ \A p \in S : Listening(p) /\ gmp[p].waitingHighAck /\ Len(line[Opponent(p)]) < MaxFlight
    /\ gmp' = [p \in Peers |-> [g[p] EXCEPT !.out = <<>>, !.result = "nothing"]]
    /\ app' = [p \in Peers |-> Handled(p, app[p], g[p])]
    /\ line' = [p \in Peers |-> line[p] \o g[Opponent(p)].out]
    /\ UNCHANGED <<game, lost>>

Heartbeat(p) == ~game.timely /\ Beats({p})

(* In a timely game a second passes for both, and is longer than a packet  *)
(* or an answer takes.                                                     *)
Second ==
    /\ game.timely
    /\ \A p \in Peers : line[p] = <<>> /\ app[p].phase # "new" /\ ~MyTurn(p)
    /\ \E p \in Peers : gmp[p].waitingHighAck
    /\ Beats({p \in Peers : Listening(p) /\ gmp[p].waitingHighAck})

(* The line loses a packet, or damages it.                                 *)
Lose(p) ==
    /\ lost < game.losses /\ line[p] # <<>>
    /\ line' = [line EXCEPT ![p] = Tail(@)]
    /\ lost' = lost + 1
    /\ UNCHANGED <<game, gmp, app>>

Next == \E p \in Peers :
    Start(p) \/ Think(p) \/ EarlyMove(p) \/ Receive(p) \/ Heartbeat(p) \/ Second \/ Lose(p)

(* Every peer that can go on does, and time passes; the line need not lose *)
(* anything.                                                               *)
Fairness ==
    /\ \A p \in Peers : WF_vars(Start(p) \/ Think(p) \/ EarlyMove(p) \/ Receive(p))
    /\ WF_vars(Second)

Spec == Init /\ [][Next]_vars
FairSpec == Spec /\ Fairness

-----------------------------------------------------------------------------
(* What was lost or repeated on the line, the two players play one game:   *)
(* they enter it with the same terms, and every move is seen once, in      *)
(* order, at the point it was made.                                        *)
LongerView ==
    LET p == CHOOSE p \in Peers : \A q \in Peers : Len(app[q].moves) <= Len(app[p].moves)
    IN app[p].moves

TheirGame == INSTANCE RemoteGame WITH
    Moves <- Points \cup {Pass},
    Terms <- [size : Nat, handicap : Nat, rules : Nat, white : BOOLEAN],
    NoTerms <- <<>>,
    terms <- [p \in Peers |-> IF ~app[p].entered THEN <<>>
                              ELSE [size |-> gmp[p].size, handicap |-> gmp[p].handicap,
                                    rules |-> gmp[p].rules, white |-> gmp[p].white = 1]],
    moves <- LongerView,
    view <- [p \in Peers |-> app[p].moves]
GameSpec == TheirGame!Spec

(* Peers whose terms agree do not part over them: no assertion fails, no   *)
(* queue overflows, no answer is taken for another, and no packet comes    *)
(* where none is expected.  Without losses nobody even times out.          *)
NobodyGivesUp ==
    \A p \in Peers :
        /\ app[p].phase \notin {"err", "exit", "assert"}
        /\ game.timely => app[p].phase # "timeout"

(* "GMP retransmits on a missing ack": a game of Games with timely peers   *)
(* comes to its end for both, whichever of its packets the line loses, up  *)
(* to its losses.  Games is part of the claim: a first move that crosses a *)
(* question of the negotiation can hang a game without any loss.           *)
GameEnds == game.timely => <>(\A p \in Peers : app[p].phase \in {"over", "gone"})
=============================================================================
