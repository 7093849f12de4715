---------------------------- MODULE Rules_proofs ----------------------------
(***************************************************************************)
(* Three things that hold of the game because of what a move does to a     *)
(* position (Position_proofs), on any board.                               *)
(*                                                                         *)
(* GameBoard, for every rule set and every bound on the history: the       *)
(* history leads from the initial position to the board, however much was  *)
(* collapsed, undone or set up, and the hash is that of the board where    *)
(* nothing replays through another board's hash.  Replaying is no equation *)
(* between variables: a step appends to, cuts or shortens from the front a *)
(* list whose meaning is all the positions it passes through.  The         *)
(* invariant therefore says that such a trajectory exists, and each action *)
(* makes its own from the one before it.                                   *)
(*                                                                         *)
(* UnconditionalLife, from any position without a dead string: Benson's    *)
(* theorem for mc_benson_color.  However often the opponent plays, the     *)
(* strings it calls alive stay, and no string of the opponent on the       *)
(* territory it finds is alive in the same sense.                          *)
(*                                                                         *)
(* McBoard, from any board without a dead string: the rings of stones and  *)
(* of liberty edges that a playout works on are those of its board, what is*)
(* kept about suicide is true, and a playout is a game by the rules.  Each *)
(* loop of mc_play_move is followed turn by turn: which edges there are in *)
(* the middle of it, which strings have fallen, and which points must be in*)
(* the queue by then.                                                      *)
(***************************************************************************)
EXTENDS GameBoard, UnconditionalLife, McBoard, Position_proofs, SequenceTheorems

-----------------------------------------------------------------------------
(* Part one: GameBoard.                                                    *)

MoveType == [color : Colors, pos : Points \cup {NoMove}, hash : HashType]

(* A move on a saved position: the hash has no part in it.                 *)
After(S, m) ==
    [board |-> NextBoard(S.board, m.pos, m.color), ko |-> NextKo(S.board, m.pos, m.color),
     captured |-> NextCaptured(S.board, S.captured, m.pos, m.color)]

(* T is the positions that moves pass through from S, each stone put on an *)
(* empty point.                                                            *)
Leads(T, S, moves) ==
    /\ T \in [0 .. Len(moves) -> SavedType] /\ T[0] = S
    /\ \A k \in 1 .. Len(moves) :
          /\ T[k] = After(T[k - 1], moves[k])
          /\ moves[k].pos # NoMove => T[k - 1].board[moves[k].pos] = "empty"

Trajectory == \E T : Leads(T, initial, history) /\ T[Len(history)] = Saved(pos)

Types ==
    /\ pos \in PositionType /\ initial \in SavedType /\ history \in Seq(MoveType)
    /\ Len(history) <= game.max_history /\ Len(history) <= made
    /\ made \in 0 .. game.max_moves /\ game \in Games

Inv == Types /\ Trajectory /\ HashFollowsThePlay

-----------------------------------------------------------------------------
(* Positions, with and without their hash.                                 *)

LEMMA PositionParts ==
  ASSUME NEW J \in PositionType
  PROVE  /\ J = PositionOf(J.board, J.ko, J.captured, J.hash)
         /\ J.board \in BoardType /\ J.ko \in Points \cup {NoMove}
         /\ J.captured \in [Colors -> Nat] /\ J.hash \in HashType
         /\ Saved(J) \in SavedType
BY DEF PositionType, PositionOf, BoardType, HashType, Saved, SavedType

LEMMA PositionHasType ==
  ASSUME NEW b \in BoardType, NEW k \in Points \cup {NoMove}, NEW cap \in [Colors -> Nat], NEW h \in HashType
  PROVE  PositionOf(b, k, cap, h) \in PositionType
BY DEF PositionType, PositionOf, BoardType, HashType

LEMMA RestoredType ==
  ASSUME NEW S \in SavedType, NEW h \in HashType
  PROVE  Restored(S, h) \in PositionType /\ Saved(Restored(S, h)) = S
<1>1. /\ S.board \in BoardType /\ S.ko \in Points \cup {NoMove} /\ S.captured \in [Colors -> Nat]
      /\ S = [board |-> S.board, ko |-> S.ko, captured |-> S.captured]
  BY DEF SavedType
<1> QED BY <1>1, PositionHasType, Parts DEF Restored, Saved

LEMMA MovePreserves ==
  ASSUME NEW J \in PositionType, NEW p \in Points \cup {NoMove}, NEW c \in Colors
  PROVE  /\ PlayMoveNoHistory(J, p, c) \in PositionType
         /\ Saved(PlayMoveNoHistory(J, p, c)) = After(Saved(J), [pos |-> p, color |-> c])
         /\ PlayMoveNoHistory(J, p, c).hash = NextHash(J.board, J.ko, J.hash, p, c)
         /\ PlayMoveNoHistory(J, p, c).board = NextBoard(J.board, p, c)
         /\ PlayMoveNoHistory(J, p, c).ko = NextKo(J.board, p, c)
<1> PICK b, k, cap, h : b = J.board /\ k = J.ko /\ cap = J.captured /\ h = J.hash
  OBVIOUS
<1> PICK Q : Q = PlayMoveNoHistory(J, p, c)
  OBVIOUS
<1>1. /\ J = PositionOf(b, k, cap, h)
      /\ b \in BoardType /\ k \in Points \cup {NoMove} /\ cap \in [Colors -> Nat] /\ h \in HashType
  BY PositionParts
<1>2. Q = PositionOf(NextBoard(b, p, c), NextKo(b, p, c), NextCaptured(b, cap, p, c), NextHash(b, k, h, p, c))
  BY <1>1, MoveIs
<1>3. /\ Q.board = NextBoard(b, p, c) /\ Q.ko = NextKo(b, p, c)
      /\ Q.captured = NextCaptured(b, cap, p, c) /\ Q.hash = NextHash(b, k, h, p, c)
  BY <1>2, Parts
<1>4. Q \in PositionType
  <2>1. /\ NextBoard(b, p, c) \in BoardType /\ NextKo(b, p, c) \in Points \cup {NoMove}
        /\ NextCaptured(b, cap, p, c) \in [Colors -> Nat]
    BY <1>1, NextType
  <2>2. NextHash(b, k, h, p, c) \in HashType
    BY <1>1, NextHashType
  <2> QED BY <1>2, <2>1, <2>2, PositionHasType
<1>5. Saved(Q) = After(Saved(J), [pos |-> p, color |-> c])
  BY <1>3 DEF Saved, After
<1> QED BY <1>3, <1>4, <1>5

LEMMA AfterType ==
  ASSUME NEW S \in SavedType, NEW m \in MoveType
  PROVE  After(S, m) \in SavedType
<1>1. S.board \in BoardType /\ S.captured \in [Colors -> Nat] /\ m.pos \in Points \cup {NoMove} /\ m.color \in Colors
  BY DEF SavedType, MoveType
<1> QED BY <1>1, NextType DEF After, SavedType

-----------------------------------------------------------------------------
(* Replaying.                                                              *)

(* Replayed from S with any hash, the moves of a trajectory end where it   *)
(* ends.                                                                   *)
LEMMA ReplayFollows ==
  ASSUME NEW S \in SavedType, NEW h \in HashType, NEW moves \in Seq(MoveType),
         NEW T, Leads(T, S, moves)
  PROVE  /\ Replay(S, h, moves) \in PositionType
         /\ Saved(Replay(S, h, moves)) = T[Len(moves)]
<1> DEFINE n == Len(moves)
           start == Restored(S, h)
           step == [k \in 1 .. n |-> [J \in PositionType |-> PlayMoveNoHistory(J, moves[k].pos, moves[k].color)]]
           body(f) == [k \in 0 .. n |->
                         IF k = 0 THEN start
                         ELSE PlayMoveNoHistory(f[k - 1], moves[k].pos, moves[k].color)]
<1>1. n \in Nat /\ \A k \in 1 .. n : /\ moves[k] \in MoveType
                                     /\ moves[k].pos \in Points \cup {NoMove} /\ moves[k].color \in Colors
  <2>1. n \in Nat /\ \A k \in 1 .. n : moves[k] \in MoveType
    BY ElementOfSeq
  <2> HIDE DEF n
  <2> QED BY <2>1 DEF MoveType
<1>2. start \in PositionType /\ Saved(start) = S
  BY RestoredType
<1>3. step \in [1 .. n -> [PositionType -> PositionType]]
  <2>1. \A k \in 1 .. n, J \in PositionType : PlayMoveNoHistory(J, moves[k].pos, moves[k].color) \in PositionType
    BY <1>1, MovePreserves
  <2> QED BY <2>1
<1>4. \A k \in 1 .. n, J \in PositionType : step[k][J] = PlayMoveNoHistory(J, moves[k].pos, moves[k].color)
  OBVIOUS
<1>5. Replay(S, h, moves) = (CHOOSE f : f = body(f))[n]
  BY DEF Replay
<1> HIDE DEF n, start, step
<1>6. PICK f : Steps!Started(f, n, PositionType, start) /\ Steps!Stepped(f, n, step)
  BY <1>1, <1>2, <1>3, Steps!Stepwise
<1>7. f = body(f)
  <2>1. \A k \in 0 .. n : f[k] = IF k = 0 THEN start
                                 ELSE PlayMoveNoHistory(f[k - 1], moves[k].pos, moves[k].color)
    <3> TAKE k \in 0 .. n
    <3>1. CASE k = 0
      BY <1>6, <3>1 DEF Steps!Started
    <3>2. CASE k # 0
      <4>1. k \in 1 .. n /\ k - 1 \in 0 .. n
        BY <1>1, <3>2
      <4>2. f[k - 1] \in PositionType /\ f[k] = step[k][f[k - 1]]
        BY <1>6, <4>1 DEF Steps!Started, Steps!Stepped
      <4> QED BY <1>4, <3>2, <4>1, <4>2
    <3> QED BY <3>1, <3>2
  <2>2. f = [k \in 0 .. n |-> f[k]]
    BY <1>6 DEF Steps!Started
  <2> QED BY <2>1, <2>2
<1>8. PICK g : g = body(g) /\ Replay(S, h, moves) = g[n]
  <2>1. (CHOOSE g : g = body(g)) = body(CHOOSE g : g = body(g))
    <3> HIDE DEF body
    <3> QED BY <1>7, Zenon
  <2> QED BY <1>5, <2>1
<1>9. \A k \in 0 .. n : g[k] = IF k = 0 THEN start
                               ELSE PlayMoveNoHistory(g[k - 1], moves[k].pos, moves[k].color)
  BY <1>8
<1> HIDE DEF body
<1> DEFINE G == {k \in 0 .. n : g[k] \in PositionType /\ Saved(g[k]) = T[k]}
<1>10. n \in G
  <2> SUFFICES ASSUME n \notin G PROVE FALSE
    OBVIOUS
  <2>1. PICK k \in 0 .. n : k \notin G /\ \A i \in 0 .. k - 1 : i \in G
    <3>1. \E k \in 0 .. n : k \notin G
      BY <1>1
    <3> HIDE DEF G
    <3> QED BY <1>1, <3>1, Steps!FirstGap
  <2>2. CASE k = 0
    BY <1>1, <1>2, <1>9, <2>1, <2>2 DEF Leads
  <2>3. CASE k # 0
    <3>1. k - 1 \in 0 .. k - 1 /\ k \in 1 .. n
      BY <1>1, <2>1, <2>3
    <3>2. g[k - 1] \in PositionType /\ Saved(g[k - 1]) = T[k - 1]
      BY <2>1, <3>1
    <3>3. g[k] = PlayMoveNoHistory(g[k - 1], moves[k].pos, moves[k].color)
      BY <1>9, <2>3, <3>1
    <3>4. /\ g[k] \in PositionType
          /\ Saved(g[k]) = After(T[k - 1], [pos |-> moves[k].pos, color |-> moves[k].color])
      <4> PICK J, p, c : J = g[k - 1] /\ p = moves[k].pos /\ c = moves[k].color
        OBVIOUS
      <4>1. J \in PositionType /\ p \in Points \cup {NoMove} /\ c \in Colors
        BY <1>1, <3>1, <3>2
      <4>2. /\ PlayMoveNoHistory(J, p, c) \in PositionType
            /\ Saved(PlayMoveNoHistory(J, p, c)) = After(Saved(J), [pos |-> p, color |-> c])
        BY <4>1, MovePreserves
      <4> QED BY <3>2, <3>3, <4>2
    <3>5. T[k] = After(T[k - 1], moves[k])
      BY <3>1 DEF Leads, n
    <3>6. Saved(g[k]) = T[k]
      BY <3>4, <3>5 DEF After
    <3> QED BY <2>1, <3>1, <3>4, <3>6
  <2> QED BY <2>2, <2>3
<1> QED BY <1>8, <1>10 DEF n

(* The start of a trajectory, its end, and one with a move more.           *)
LEMMA LeadsHead ==
  ASSUME NEW S, NEW moves \in Seq(MoveType), NEW T, Leads(T, S, moves), NEW n \in 0 .. Len(moves)
  PROVE  /\ Leads([k \in 0 .. n |-> T[k]], S, SubSeq(moves, 1, n))
         /\ SubSeq(moves, 1, n) \in Seq(MoveType) /\ Len(SubSeq(moves, 1, n)) = n
<1> DEFINE U == [k \in 0 .. n |-> T[k]]
           head == SubSeq(moves, 1, n)
<1>1. /\ Len(moves) \in Nat /\ n \in Nat /\ n <= Len(moves)
      /\ T \in [0 .. Len(moves) -> SavedType] /\ T[0] = S
  BY DEF Leads
<1>2. head \in Seq(MoveType) /\ Len(head) = n /\ \A k \in 1 .. n : head[k] = moves[k]
  BY <1>1
<1>3. U \in [0 .. n -> SavedType] /\ U[0] = S
  BY <1>1
<1>4. ASSUME NEW k \in 1 .. n
      PROVE  /\ U[k] = After(U[k - 1], head[k])
             /\ head[k].pos # NoMove => U[k - 1].board[head[k].pos] = "empty"
  <2>1. k \in 1 .. Len(moves) /\ k \in 0 .. n /\ k - 1 \in 0 .. n
    BY <1>1
  <2>2. U[k] = T[k] /\ U[k - 1] = T[k - 1] /\ head[k] = moves[k]
    BY <1>2, <2>1
  <2>3. /\ T[k] = After(T[k - 1], moves[k])
        /\ moves[k].pos # NoMove => T[k - 1].board[moves[k].pos] = "empty"
    BY <2>1 DEF Leads
  <2> HIDE DEF U, head
  <2> QED BY <2>2, <2>3
<1> HIDE DEF U, head
<1>5. Leads(U, S, head)
  BY <1>2, <1>3, <1>4 DEF Leads
<1> QED BY <1>2, <1>5 DEF U, head

LEMMA LeadsTail ==
  ASSUME NEW S, NEW moves \in Seq(MoveType), NEW T, Leads(T, S, moves), NEW n \in 0 .. Len(moves)
  PROVE  /\ Leads([k \in 0 .. Len(moves) - n |-> T[k + n]], T[n], SubSeq(moves, n + 1, Len(moves)))
         /\ SubSeq(moves, n + 1, Len(moves)) \in Seq(MoveType)
         /\ Len(SubSeq(moves, n + 1, Len(moves))) = Len(moves) - n
<1> DEFINE m == Len(moves) - n
           U == [k \in 0 .. m |-> T[k + n]]
           tail == SubSeq(moves, n + 1, Len(moves))
<1>1. /\ Len(moves) \in Nat /\ n \in Nat /\ m \in Nat
      /\ T \in [0 .. Len(moves) -> SavedType]
  BY DEF Leads
<1>2. tail \in Seq(MoveType) /\ Len(tail) = m /\ \A k \in 1 .. m : tail[k] = moves[k + n]
  BY <1>1
<1>3. U \in [0 .. m -> SavedType] /\ U[0] = T[n]
  <2>1. \A k \in 0 .. m : k + n \in 0 .. Len(moves)
    BY <1>1
  <2>2. 0 \in 0 .. m /\ 0 + n = n
    BY <1>1
  <2> QED BY <1>1, <2>1, <2>2
<1>4. ASSUME NEW k \in 1 .. m
      PROVE  /\ U[k] = After(U[k - 1], tail[k])
             /\ tail[k].pos # NoMove => U[k - 1].board[tail[k].pos] = "empty"
  <2>1. k + n \in 1 .. Len(moves) /\ k \in 0 .. m /\ k - 1 \in 0 .. m /\ (k - 1) + n = (k + n) - 1
    BY <1>1
  <2>2. U[k] = T[k + n] /\ U[k - 1] = T[(k + n) - 1] /\ tail[k] = moves[k + n]
    BY <1>2, <2>1
  <2>3. /\ T[k + n] = After(T[(k + n) - 1], moves[k + n])
        /\ moves[k + n].pos # NoMove => T[(k + n) - 1].board[moves[k + n].pos] = "empty"
    BY <2>1 DEF Leads
  <2> HIDE DEF U, tail
  <2> QED BY <2>2, <2>3
<1> HIDE DEF U, tail
<1>5. Leads(U, T[n], tail)
  BY <1>2, <1>3, <1>4 DEF Leads
<1> QED BY <1>2, <1>5 DEF U, tail

Further(T, n, m) == [k \in 0 .. n + 1 |-> IF k = n + 1 THEN After(T[n], m) ELSE T[k]]

LEMMA LeadsOn ==
  ASSUME NEW S, NEW moves \in Seq(MoveType), NEW T, Leads(T, S, moves), NEW m \in MoveType,
         m.pos # NoMove => T[Len(moves)].board[m.pos] = "empty"
  PROVE  /\ Leads(Further(T, Len(moves), m), S, Append(moves, m))
         /\ Further(T, Len(moves), m)[Len(moves) + 1] = After(T[Len(moves)], m)
<1> DEFINE n == Len(moves)
           longer == Append(moves, m)
           U == [k \in 0 .. n + 1 |-> IF k = n + 1 THEN After(T[n], m) ELSE T[k]]
<1>1. n \in Nat /\ T \in [0 .. n -> SavedType] /\ T[0] = S
  BY DEF Leads
<1>2. Len(longer) = n + 1 /\ longer[n + 1] = m /\ \A k \in 1 .. n : longer[k] = moves[k]
  OBVIOUS
<1>3. T[n] \in SavedType /\ After(T[n], m) \in SavedType
  BY <1>1, AfterType
<1>4. U \in [0 .. n + 1 -> SavedType] /\ U[0] = S /\ U[n + 1] = After(T[n], m)
  <2>1. \A k \in 0 .. n + 1 : k # n + 1 => k \in 0 .. n
    BY <1>1
  <2>2. 0 \in 0 .. n + 1 /\ 0 # n + 1 /\ n + 1 \in 0 .. n + 1
    BY <1>1
  <2> HIDE DEF n
  <2> QED BY <1>1, <1>3, <2>1, <2>2
<1>5. ASSUME NEW k \in 1 .. n + 1
      PROVE  /\ U[k] = After(U[k - 1], longer[k])
             /\ longer[k].pos # NoMove => U[k - 1].board[longer[k].pos] = "empty"
  <2>1. k - 1 \in 0 .. n + 1 /\ k - 1 # n + 1 /\ k \in 0 .. n + 1
    BY <1>1
  <2>2. U[k - 1] = T[k - 1]
    BY <2>1
  <2>3. CASE k = n + 1
    <3>1. k - 1 = n
      BY <1>1, <2>3
    <3> HIDE DEF U, longer, n
    <3>2. U[k - 1] = T[n] /\ longer[k] = m /\ U[k] = After(T[n], m)
      BY <1>2, <1>4, <2>2, <2>3, <3>1
    <3> QED BY <3>2 DEF n
  <2>4. CASE k # n + 1
    <3>1. k \in 1 .. n
      BY <1>1, <2>4
    <3>2. U[k] = T[k] /\ longer[k] = moves[k]
      BY <1>2, <2>1, <2>4, <3>1
    <3>3. /\ T[k] = After(T[k - 1], moves[k])
          /\ moves[k].pos # NoMove => T[k - 1].board[moves[k].pos] = "empty"
      BY <3>1 DEF Leads
    <3> HIDE DEF U, longer
    <3> QED BY <2>2, <3>2, <3>3
  <2> QED BY <2>3, <2>4
<1> HIDE DEF U, longer
<1>6. Leads(U, S, longer)
  BY <1>2, <1>4, <1>5 DEF Leads
<1> QED BY <1>4, <1>6 DEF longer, U, Further

-----------------------------------------------------------------------------
(* The invariant, one action at a time.                                    *)

LEMMA RecalcType ==
  ASSUME NEW board \in BoardType, NEW ko \in Points \cup {NoMove}
  PROVE  HashRecalc(board, ko) \in HashType
BY DEF HashRecalc, HashType, KoPart

LEMMA Alone ==
  ASSUME NEW S \in SavedType
  PROVE  Leads([k \in 0 .. 0 |-> S], S, <<>>)
BY DEF Leads

LEMMA GameFacts ==
  ASSUME NEW g \in Games
  PROVE  g.board \in BoardType /\ g.max_history \in Nat \ {0} /\ g.max_moves \in Nat
BY GameAssumption DEF BoardType

LEMMA InitInv ==
  Init => Inv
<1> SUFFICES ASSUME Init PROVE Inv
  OBVIOUS
<1>1. game \in Games /\ game.board \in BoardType /\ game.max_history \in Nat /\ game.max_moves \in Nat
  BY GameFacts DEF Init
<1>2. pos = PositionOf(game.board, NoMove, [c \in Colors |-> 0], HashRecalc(game.board, NoMove))
  BY DEF Init
<1>3. pos \in PositionType
  <2>1. HashRecalc(game.board, NoMove) \in HashType
    BY <1>1, RecalcType
  <2> QED BY <1>1, <1>2, <2>1, PositionHasType
<1>4. initial = Saved(pos) /\ initial \in SavedType /\ history = <<>> /\ made = 0
  BY <1>3, PositionParts DEF Init
<1>5. Types
  BY <1>1, <1>3, <1>4 DEF Types
<1>6. Trajectory
  <2>1. Leads([k \in 0 .. 0 |-> initial], initial, history) /\ Len(history) = 0
    BY <1>4, Alone
  <2> QED BY <1>4, <2>1 DEF Trajectory
<1>7. HashFollowsThePlay
  BY <1>2, Parts DEF HashFollowsThePlay, HashIsOfTheBoard, Faithful
<1> QED BY <1>5, <1>6, <1>7 DEF Inv

(* The position, initial position and history a move is played on, and     *)
(* whether they are those before.                                          *)
Ready ==
    IF Len(history) >= game.max_history THEN Collapse
    ELSE [initial |-> initial, history |-> history, pos |-> pos]

LEMMA ReadyFacts ==
  ASSUME Inv
  PROVE  /\ Ready.initial \in SavedType /\ Ready.history \in Seq(MoveType) /\ Ready.pos \in PositionType
         /\ Saved(Ready.pos) = Saved(pos)
         /\ Len(Ready.history) < game.max_history /\ Len(Ready.history) <= Len(history)
         /\ \E T : Leads(T, Ready.initial, Ready.history) /\ T[Len(Ready.history)] = Saved(pos)
         /\ Len(history) < game.max_history => Ready.pos = pos
         /\ \E T : \E n \in 0 .. Len(history) : Leads(T, initial, history) /\ Ready.initial = T[n]
<1>1. /\ pos \in PositionType /\ initial \in SavedType /\ history \in Seq(MoveType)
      /\ Len(history) <= game.max_history /\ Len(history) \in Nat
      /\ game.max_history \in Nat \ {0}
  BY GameFacts DEF Inv, Types
<1>2. PICK T : Leads(T, initial, history) /\ T[Len(history)] = Saved(pos)
  BY DEF Inv, Trajectory
<1>3. CASE Len(history) < game.max_history
  <2>1. Ready = [initial |-> initial, history |-> history, pos |-> pos]
    BY <1>1, <1>3 DEF Ready
  <2>2. 0 \in 0 .. Len(history) /\ T[0] = initial
    BY <1>1, <1>2 DEF Leads
  <2>3. \E U : \E n \in 0 .. Len(history) : Leads(U, initial, history) /\ Ready.initial = U[n]
    BY <1>2, <2>1, <2>2
  <2>4. Ready.initial = initial /\ Ready.history = history /\ Ready.pos = pos
    BY <2>1
  <2> HIDE DEF Ready
  <2>5. \E U : Leads(U, Ready.initial, Ready.history) /\ U[Len(Ready.history)] = Saved(pos)
    BY <1>2, <2>4
  <2>6. /\ Ready.initial \in SavedType /\ Ready.history \in Seq(MoveType) /\ Ready.pos \in PositionType
        /\ Saved(Ready.pos) = Saved(pos) /\ Ready.pos = pos
        /\ Len(Ready.history) < game.max_history /\ Len(Ready.history) <= Len(history)
    BY <1>1, <1>3, <2>4
  <2> QED BY <2>3, <2>5, <2>6
<1>4. CASE ~(Len(history) < game.max_history)
  <2> DEFINE n == Collapsed
             head == SubSeq(history, 1, n)
             tail == SubSeq(history, n + 1, Len(history))
             Q == Replay(initial, pos.hash, head)
             H == [k \in 0 .. n |-> T[k]]
             U == [k \in 0 .. Len(history) - n |-> T[k + n]]
  <2>1. Len(history) = game.max_history
    BY <1>1, <1>4
  <2>2. n \in 1 .. Len(history) /\ n \in 0 .. Len(history)
    <3>1. \A m \in Nat \ {0} : 1 + m \div 10 \in 1 .. m
      OBVIOUS
    <3> QED BY <1>1, <2>1, <3>1 DEF Collapsed
  <2> HIDE DEF n
  <2>3. Leads(H, initial, head) /\ head \in Seq(MoveType) /\ Len(head) = n
    BY <1>1, <1>2, <2>2, LeadsHead
  <2>4. Leads(U, T[n], tail) /\ tail \in Seq(MoveType) /\ Len(tail) = Len(history) - n
    BY <1>1, <1>2, <2>2, LeadsTail
  <2>5. pos.hash \in HashType
    BY <1>1, PositionParts
  <2>6. H[n] = T[n] /\ U[Len(history) - n] = T[Len(history)]
    <3>1. n \in 0 .. n /\ Len(history) - n \in 0 .. Len(history) - n /\ Len(history) - n + n = Len(history)
      BY <1>1, <2>2
    <3> QED BY <3>1
  <2> HIDE DEF H, U, head, tail
  <2>7. Q \in PositionType /\ Saved(Q) = T[n]
    BY <1>1, <2>3, <2>5, <2>6, ReplayFollows
  <2> HIDE DEF Q
  <2>8. Ready = [initial |-> Saved(Q), history |-> tail, pos |-> Restored(pos, Q.hash)]
    BY <1>1, <1>4, <2>1 DEF Ready, Collapse, Q, tail, head, n
  <2>9. Restored(pos, Q.hash) \in PositionType /\ Saved(Restored(pos, Q.hash)) = Saved(pos)
    <3>1. /\ pos.board \in BoardType /\ pos.ko \in Points \cup {NoMove} /\ pos.captured \in [Colors -> Nat]
          /\ Q.hash \in HashType
      BY <1>1, <2>7, PositionParts
    <3> QED BY <3>1, PositionHasType, Parts DEF Restored, Saved
  <2>10. Saved(Q) \in SavedType
    BY <2>7, PositionParts
  <2>11. Len(tail) < game.max_history /\ Len(tail) <= Len(history)
    BY <1>1, <2>1, <2>2, <2>4
  <2>12. U[Len(tail)] = Saved(pos) /\ Leads(U, Saved(Q), tail)
    BY <1>2, <2>4, <2>6, <2>7
  <2>13. Leads(T, initial, history) /\ Ready.initial = T[n]
    BY <1>2, <2>7, <2>8
  <2>14. \E V : \E k \in 0 .. Len(history) : Leads(V, initial, history) /\ Ready.initial = V[k]
    BY <2>2, <2>13
  <2>15. Ready.initial = Saved(Q) /\ Ready.history = tail /\ Ready.pos = Restored(pos, Q.hash)
    BY <2>8
  <2>16. \E V : Leads(V, Ready.initial, Ready.history) /\ V[Len(Ready.history)] = Saved(pos)
    BY <2>12, <2>15
  <2> QED BY <1>4, <2>4, <2>9, <2>10, <2>11, <2>14, <2>15, <2>16
<1> QED BY <1>3, <1>4

LEMMA PlayInv ==
  ASSUME Inv, NEW p \in Points \cup {NoMove}, NEW c \in Colors, Play(p, c)
  PROVE  Inv'
<1> DEFINE S == Ready
           m == [color |-> c, pos |-> p, hash |-> WithoutKo(S.pos.hash, S.pos.ko)]
<1> HIDE DEF S, m
<1>1. /\ S.initial \in SavedType /\ S.history \in Seq(MoveType) /\ S.pos \in PositionType
      /\ Saved(S.pos) = Saved(pos)
      /\ Len(S.history) < game.max_history /\ Len(S.history) <= Len(history)
      /\ \E T : Leads(T, S.initial, S.history) /\ T[Len(S.history)] = Saved(pos)
      /\ Len(history) < game.max_history => S.pos = pos
  BY ReadyFacts DEF S
<1>2. /\ made < game.max_moves /\ made' = made + 1 /\ game' = game
      /\ pos' = PlayMoveNoHistory(S.pos, p, c) /\ initial' = S.initial
      /\ history' = Append(S.history, m)
  BY DEF Play, PlayMove, Played, Ready, S, m
<1>3. p # NoMove => pos.board[p] = "empty"
  BY DEF Play, IsAllowedMove
<1>4. /\ made \in 0 .. game.max_moves /\ game \in Games /\ game.max_moves \in Nat /\ game.max_history \in Nat
      /\ Len(history) <= made /\ Len(history) \in Nat /\ history \in Seq(MoveType) /\ pos \in PositionType
  BY GameFacts DEF Inv, Types
<1>5. m \in MoveType
  <2>1. S.pos.hash \in HashType /\ S.pos.ko \in Points \cup {NoMove}
    BY <1>1, PositionParts
  <2>2. WithoutKo(S.pos.hash, S.pos.ko) \in HashType
    BY <2>1 DEF WithoutKo, SymDiff, KoPart, HashType
  <2> QED BY <2>2 DEF MoveType, m
<1>6. /\ pos' \in PositionType
      /\ Saved(pos') = After(Saved(pos), [pos |-> p, color |-> c])
      /\ pos'.hash = NextHash(S.pos.board, S.pos.ko, S.pos.hash, p, c)
      /\ pos'.board = NextBoard(S.pos.board, p, c)
      /\ pos'.ko = NextKo(S.pos.board, p, c)
  BY <1>1, <1>2, MovePreserves
<1>7. /\ history' \in Seq(MoveType) /\ Len(history') = Len(S.history) + 1 /\ Len(S.history) \in Nat
  BY <1>1, <1>2, <1>5
<1>8. Types'
  BY <1>1, <1>2, <1>4, <1>6, <1>7 DEF Types
<1>9. Trajectory'
  <2>1. PICK T : Leads(T, S.initial, S.history) /\ T[Len(S.history)] = Saved(pos)
    BY <1>1
  <2>2. m.pos = p /\ m.color = c
    BY DEF m
  <2>3. m.pos # NoMove => T[Len(S.history)].board[m.pos] = "empty"
    <3>1. Saved(pos).board = pos.board
      BY DEF Saved
    <3> QED BY <1>3, <2>1, <2>2, <3>1
  <2>4. \E U : Leads(U, S.initial, Append(S.history, m)) /\ U[Len(S.history) + 1] = After(T[Len(S.history)], m)
    <3> DEFINE moves == S.history
               start == S.initial
    <3> HIDE DEF moves, start
    <3>1. moves \in Seq(MoveType) /\ Leads(T, start, moves)
      BY <1>1, <2>1 DEF moves, start
    <3>2. m.pos # NoMove => T[Len(moves)].board[m.pos] = "empty"
      BY <2>3 DEF moves
    <3>3. /\ Leads(Further(T, Len(moves), m), start, Append(moves, m))
          /\ Further(T, Len(moves), m)[Len(moves) + 1] = After(T[Len(moves)], m)
      BY <1>5, <3>1, <3>2, LeadsOn
    <3> QED BY <3>3 DEF moves, start
  <2>5. After(T[Len(S.history)], m) = Saved(pos')
    BY <1>6, <2>1, <2>2 DEF After
  <2> QED BY <1>2, <1>7, <2>4, <2>5 DEF Trajectory
<1>10. HashFollowsThePlay'
  <2> SUFFICES ASSUME game.resets, game.max_moves <= game.max_history
               PROVE  pos'.hash = HashRecalc(pos'.board, pos'.ko)
    BY <1>2 DEF HashFollowsThePlay, HashIsOfTheBoard, Faithful
  <2>1. S.pos = pos
    BY <1>1, <1>2, <1>4
  <2>2. pos.hash = HashRecalc(pos.board, pos.ko)
    BY DEF Inv, HashFollowsThePlay, HashIsOfTheBoard, Faithful
  <2>3. pos.board \in BoardType
    BY <1>4, PositionParts
  <2> QED BY <1>3, <1>6, <2>1, <2>2, <2>3, HashFollows
<1> QED BY <1>8, <1>9, <1>10 DEF Inv

LEMMA RehashedFacts ==
  ASSUME NEW J \in PositionType
  PROVE  /\ Rehashed(J) \in PositionType /\ Saved(Rehashed(J)) = Saved(J)
         /\ Rehashed(J).hash = HashRecalc(Rehashed(J).board, Rehashed(J).ko)
<1>1. /\ J.board \in BoardType /\ J.ko \in Points \cup {NoMove} /\ J.captured \in [Colors -> Nat]
  BY PositionParts
<1>2. HashRecalc(J.board, J.ko) \in HashType
  BY <1>1, RecalcType
<1> QED BY <1>1, <1>2, PositionHasType, Parts DEF Rehashed, Restored, Saved

LEMMA ResetInv ==
  ASSUME Inv, ResetEngine
  PROVE  Inv'
<1>1. pos' = Rehashed(pos) /\ game' = game /\ initial' = initial /\ history' = history /\ made' = made
  BY DEF ResetEngine
<1>2. /\ pos' \in PositionType /\ Saved(pos') = Saved(pos)
      /\ pos'.hash = HashRecalc(pos'.board, pos'.ko)
  BY <1>1, RehashedFacts DEF Inv, Types
<1>3. Types'
  BY <1>1, <1>2 DEF Inv, Types
<1>4. Trajectory'
  BY <1>1, <1>2 DEF Inv, Trajectory
<1>5. HashFollowsThePlay'
  BY <1>2 DEF HashFollowsThePlay, HashIsOfTheBoard, Faithful
<1> QED BY <1>3, <1>4, <1>5 DEF Inv

LEMMA UndoInv ==
  ASSUME Inv, NEW n \in 1 .. Len(history), UndoMove(n)
  PROVE  Inv'
<1> DEFINE keep == Len(history) - n
           rest == SubSeq(history, 1, keep)
           Q == Replay(initial, pos.hash, rest)
           H(T) == [k \in 0 .. keep |-> T[k]]
<1>1. /\ pos' = IF game.resets THEN Rehashed(Q) ELSE Q
      /\ history' = rest /\ game' = game /\ initial' = initial /\ made' = made
  BY DEF UndoMove
<1>2. /\ pos \in PositionType /\ initial \in SavedType /\ history \in Seq(MoveType)
      /\ Len(history) <= game.max_history /\ Len(history) <= made /\ Len(history) \in Nat
      /\ made \in 0 .. game.max_moves /\ game \in Games /\ game.max_moves \in Nat /\ game.max_history \in Nat
  BY GameFacts DEF Inv, Types
<1>3. PICK T : Leads(T, initial, history) /\ T[Len(history)] = Saved(pos)
  BY DEF Inv, Trajectory
<1>4. keep \in 0 .. Len(history)
  BY <1>2
<1> HIDE DEF keep
<1>5. Leads(H(T), initial, rest) /\ rest \in Seq(MoveType) /\ Len(rest) = keep
  BY <1>2, <1>3, <1>4, LeadsHead
<1>6. pos.hash \in HashType
  BY <1>2, PositionParts
<1>7. Q \in PositionType /\ Saved(Q) = H(T)[keep]
  <2> HIDE DEF H, rest
  <2> QED BY <1>2, <1>5, <1>6, ReplayFollows
<1> HIDE DEF Q, H, rest
<1>8. /\ pos' \in PositionType /\ Saved(pos') = H(T)[keep]
      /\ game.resets => pos'.hash = HashRecalc(pos'.board, pos'.ko)
  BY <1>1, <1>7, RehashedFacts
<1>9. Types'
  BY <1>1, <1>2, <1>4, <1>5, <1>8 DEF Types
<1>10. Trajectory'
  BY <1>1, <1>5, <1>8 DEF Trajectory
<1>11. HashFollowsThePlay'
  BY <1>1, <1>8 DEF HashFollowsThePlay, HashIsOfTheBoard, Faithful
<1> QED BY <1>9, <1>10, <1>11 DEF Inv

(* A setup stone changes the board and the hash together, and leaves no    *)
(* history.                                                                *)
LEMMA SetupInv ==
  ASSUME Inv, NEW J \in PositionType, Setup(J),
         HashIsOfTheBoard => J.hash = HashRecalc(J.board, J.ko)
  PROVE  Inv'
<1>1. /\ made < game.max_moves /\ pos' = J /\ initial' = Saved(J) /\ history' = <<>>
      /\ made' = made + 1 /\ game' = game
  BY DEF Setup
<1>2. made \in 0 .. game.max_moves /\ game \in Games /\ game.max_moves \in Nat /\ game.max_history \in Nat
  BY GameFacts DEF Inv, Types
<1>3. Saved(J) \in SavedType
  BY PositionParts
<1>4. Types'
  <2>1. history' \in Seq(MoveType) /\ Len(history') = 0
    BY <1>1
  <2> QED BY <1>1, <1>2, <1>3, <2>1 DEF Types
<1>5. Trajectory'
  <2>1. Leads([k \in 0 .. 0 |-> initial'], initial', history') /\ Len(history') = 0
    BY <1>1, <1>3, Alone
  <2> QED BY <1>1, <2>1 DEF Trajectory
<1>6. HashFollowsThePlay'
  BY <1>1 DEF Inv, HashFollowsThePlay, HashIsOfTheBoard, Faithful
<1> QED BY <1>4, <1>5, <1>6 DEF Inv

LEMMA AddStoneInv ==
  ASSUME Inv, NEW p \in Points, NEW c \in Colors, AddStone(p, c)
  PROVE  Inv'
<1> PICK b, J : b = pos.board /\ J = StonePut(pos, p, c)
  OBVIOUS
<1>1. Setup(J) /\ b[p] = "empty" /\ pos.ko = NoMove
  BY DEF AddStone, Setup
<1>2. /\ pos = PositionOf(b, NoMove, pos.captured, pos.hash)
      /\ b \in BoardType /\ pos.captured \in [Colors -> Nat] /\ pos.hash \in HashType
  BY <1>1, PositionParts DEF Inv, Types
<1>3. J = PositionOf(Put(b, p, c), NoMove, pos.captured, SymDiff(pos.hash, {StoneHash(p, c)}))
  BY <1>2, StonePutIs
<1>4. J \in PositionType
  <2>1. SymDiff(pos.hash, {StoneHash(p, c)}) \in HashType
    BY <1>2 DEF SymDiff, HashType
  <2>2. Put(b, p, c) \in BoardType
    BY <1>2, BoardTypes
  <2> QED BY <1>2, <1>3, <2>1, <2>2, PositionHasType
<1>5. HashIsOfTheBoard => J.hash = HashRecalc(J.board, J.ko)
  <2>1. \A x : HashRecalc(x, NoMove) = BoardHash(x)
    BY DEF HashRecalc, BoardHash, KoPart
  <2>2. HashIsOfTheBoard => pos.hash = BoardHash(b)
    BY <1>1, <2>1 DEF HashIsOfTheBoard
  <2>3. SymDiff(BoardHash(b), {StoneHash(p, c)}) = BoardHash(Put(b, p, c))
    BY <1>1, <1>2, PutHash
  <2> QED BY <1>3, <2>1, <2>2, <2>3, Parts
<1> QED BY <1>1, <1>4, <1>5, SetupInv

LEMMA RemoveStoneInv ==
  ASSUME Inv, NEW p \in Points, RemoveStone(p)
  PROVE  Inv'
<1> PICK b, J : b = pos.board /\ J = StoneTaken(pos, p)
  OBVIOUS
<1>1. Setup(J) /\ b[p] \in Colors /\ pos.ko = NoMove
  BY DEF RemoveStone, Setup
<1>2. /\ b \in BoardType /\ pos.captured \in [Colors -> Nat] /\ pos.hash \in HashType
  BY PositionParts DEF Inv, Types
<1>3. J = PositionOf(Cleared(b, {p}), NoMove, pos.captured, SymDiff(pos.hash, StoneHashes(b, {p})))
  <2>1. Cleared(b, {p}) = [b EXCEPT ![p] = "empty"]
    BY <1>2 DEF Cleared, BoardType
  <2>2. StoneHashes(b, {p}) = {StoneHash(p, b[p])}
    BY DEF StoneHashes
  <2> QED BY <1>1, <2>1, <2>2 DEF StoneTaken
<1>4. \A q \in {p} : b[q] \in Colors
  BY <1>1
<1>5. J \in PositionType
  <2>1. StoneHashes(b, {p}) \in HashType
    BY <1>1 DEF StoneHashes, HashType
  <2>2. SymDiff(pos.hash, StoneHashes(b, {p})) \in HashType
    <3>1. \A x, y \in HashType : SymDiff(x, y) \in HashType
      BY DEF SymDiff, HashType
    <3> QED BY <1>2, <2>1, <3>1
  <2>3. Cleared(b, {p}) \in BoardType
    BY <1>2 DEF Cleared, BoardType
  <2> QED BY <1>2, <1>3, <2>2, <2>3, PositionHasType
<1>6. HashIsOfTheBoard => J.hash = HashRecalc(J.board, J.ko)
  <2>1. \A x : HashRecalc(x, NoMove) = BoardHash(x)
    BY DEF HashRecalc, BoardHash, KoPart
  <2>2. HashIsOfTheBoard => pos.hash = BoardHash(b)
    BY <1>1, <2>1 DEF HashIsOfTheBoard
  <2>3. SymDiff(BoardHash(b), StoneHashes(b, {p})) = BoardHash(Cleared(b, {p}))
    BY <1>2, <1>4, ClearedHash
  <2> QED BY <1>3, <2>1, <2>2, <2>3, Parts
<1> QED BY <1>1, <1>5, <1>6, SetupInv

(* The strengthened invariant holds of every game.                         *)
THEOREM Invariance == Spec => []Inv
<1>1. Init => Inv
  BY InitInv
<1>2. Inv /\ [Next]_vars => Inv'
  <2> SUFFICES ASSUME Inv, [Next]_vars PROVE Inv'
    OBVIOUS
  <2>1. ASSUME NEW p \in Points \cup {NoMove}, NEW c \in Colors, Play(p, c) PROVE Inv'
    BY <2>1, PlayInv
  <2>2. CASE ResetEngine
    BY <2>2, ResetInv
  <2>3. ASSUME NEW n \in 1 .. Len(history), UndoMove(n) PROVE Inv'
    BY <2>3, UndoInv
  <2>4. ASSUME NEW p \in Points, NEW c \in Colors, AddStone(p, c) PROVE Inv'
    BY <2>4, AddStoneInv
  <2>5. ASSUME NEW p \in Points, RemoveStone(p) PROVE Inv'
    BY <2>5, RemoveStoneInv
  <2>6. CASE UNCHANGED vars
    BY <2>6 DEF vars, Inv, Types, Trajectory, HashFollowsThePlay, HashIsOfTheBoard, Faithful
  <2> QED BY <2>1, <2>2, <2>3, <2>4, <2>5, <2>6 DEF Next
<1> QED BY <1>1, <1>2, PTL DEF Spec

(* The types of a game.                                                    *)
THEOREM TypingAlways == Spec => []TypeOK
<1>1. ASSUME Inv PROVE TypeOK
  <2>1. \A k \in DOMAIN history : history[k] \in MoveType
    BY <1>1 DEF Inv, Types
  <2>2. \A k \in DOMAIN history : history[k].color \in Colors /\ history[k].pos \in Points \cup {NoMove}
    BY <2>1 DEF MoveType
  <2> QED BY <1>1, <2>2 DEF Inv, Types, TypeOK, SavedType, BoardType
<1> QED BY <1>1, Invariance, PTL

(* What the hash is asked for, it says of the board: an interface that     *)
(* recalculates it after an undo, in a game whose history is never full,   *)
(* never plays with the hash of another position.                          *)
THEOREM HashFollowsThePlayAlways == Spec => []HashFollowsThePlay
<1>1. Inv => HashFollowsThePlay
  BY DEF Inv
<1> QED BY <1>1, Invariance, PTL

-----------------------------------------------------------------------------
(* The stones along a trajectory.                                          *)

PutBy(moves, k, c) == {j \in 1 .. k : moves[j].color = c /\ moves[j].pos # NoMove}

LEMMA StonesAlong ==
  ASSUME NEW S \in SavedType, NEW moves \in Seq(MoveType), NEW T, Leads(T, S, moves), NEW c \in Colors
  PROVE  Total(T[Len(moves)].board, T[Len(moves)].captured, c)
         = Total(S.board, S.captured, c) + Cardinality(PutBy(moves, Len(moves), c))
<1> DEFINE n == Len(moves)
           total(k) == Total(T[k].board, T[k].captured, c)
           put(k) == Cardinality(PutBy(moves, k, c))
           G == {k \in 0 .. n : total(k) = total(0) + put(k)}
<1>1. n \in Nat /\ T \in [0 .. n -> SavedType] /\ T[0] = S
  BY DEF Leads
<1>2. \A k \in 0 .. n : IsFiniteSet(PutBy(moves, k, c)) /\ put(k) \in Nat
  <2> TAKE k \in 0 .. n
  <2>1. PutBy(moves, k, c) \in SUBSET (1 .. k) /\ IsFiniteSet(1 .. k)
    BY <1>1, FS_Interval DEF PutBy
  <2> QED BY <2>1, FS_Subset, FS_CardinalityType
<1>3. \A k \in 0 .. n : total(k) \in Nat
  <2> TAKE k \in 0 .. n
  <2>1. T[k] \in SavedType
    BY <1>1
  <2>2. T[k].captured[c] \in Nat
    BY <2>1 DEF SavedType
  <2> QED BY <2>2, StonesFinite DEF Total
<1>4. n \in G
  <2> SUFFICES ASSUME n \notin G PROVE FALSE
    OBVIOUS
  <2>1. PICK k \in 0 .. n : k \notin G /\ \A i \in 0 .. k - 1 : i \in G
    <3>1. \E k \in 0 .. n : k \notin G
      BY <1>1
    <3> HIDE DEF G, n
    <3> QED BY <1>1, <3>1, Steps!FirstGap
  <2>2. CASE k = 0
    <3>1. put(0) = 0
      <4>1. PutBy(moves, 0, c) = {}
        BY DEF PutBy
      <4> QED BY <4>1, FS_EmptySet
    <3>2. total(0) \in Nat
      BY <1>1, <1>3
    <3> HIDE DEF total, put
    <3> QED BY <1>1, <2>1, <2>2, <3>1, <3>2
  <2>3. CASE k # 0
    <3>1. k - 1 \in 0 .. k - 1 /\ k - 1 \in 0 .. n /\ k \in 1 .. n
      BY <1>1, <2>1, <2>3
    <3>2. total(k - 1) = total(0) + put(k - 1)
      BY <2>1, <3>1
    <3> PICK J, m : J = T[k - 1] /\ m = moves[k]
      OBVIOUS
    <3>3. J \in SavedType /\ m \in MoveType
      BY <1>1, <3>1, ElementOfSeq
    <3>4. /\ J.board \in BoardType /\ J.captured \in [Colors -> Nat]
          /\ m.pos \in Points \cup {NoMove} /\ m.color \in Colors
      BY <3>3 DEF SavedType, MoveType
    <3>5. T[k] = After(J, m) /\ (m.pos # NoMove => J.board[m.pos] = "empty")
      BY <3>1 DEF Leads
    <3>6. total(k) = Total(NextBoard(J.board, m.pos, m.color), NextCaptured(J.board, J.captured, m.pos, m.color), c)
      BY <3>5 DEF After
    <3>7. /\ total(k - 1) = Total(J.board, J.captured, c)
          /\ total(0) \in Nat /\ total(k - 1) \in Nat /\ put(k - 1) \in Nat
      BY <1>1, <1>2, <1>3, <3>1
    <3>8. CASE m.color = c /\ m.pos # NoMove
      <4>1. total(k) = total(k - 1) + 1
        <5>1. m.pos \in Points /\ J.board[m.pos] = "empty"
          BY <3>4, <3>5, <3>8
        <5>2. Total(NextBoard(J.board, m.pos, m.color), NextCaptured(J.board, J.captured, m.pos, m.color), c)
              = Total(J.board, J.captured, c) + 1
          <6> PICK b, cap, p : b = J.board /\ cap = J.captured /\ p = m.pos
            OBVIOUS
          <6>1. Total(NextBoard(b, p, c), NextCaptured(b, cap, p, c), c)
                = Total(b, cap, c) + (IF c = c THEN 1 ELSE 0)
            BY <3>4, <5>1, StonesConserved
          <6> QED BY <3>8, <6>1
        <5> HIDE DEF total
        <5> QED BY <3>6, <3>7, <5>2
      <4>2. PutBy(moves, k, c) = PutBy(moves, k - 1, c) \cup {k} /\ k \notin PutBy(moves, k - 1, c)
        BY <3>1, <3>8 DEF PutBy
      <4>3. put(k) = put(k - 1) + 1
        BY <1>2, <3>1, <4>2, FS_AddElement
      <4> HIDE DEF total, put
      <4> QED BY <2>1, <3>1, <3>2, <3>7, <4>1, <4>3
    <3>9. CASE ~(m.color = c /\ m.pos # NoMove)
      <4>1. total(k) = total(k - 1)
        <5>1. CASE m.pos = NoMove
          BY <3>6, <3>7, <5>1 DEF NextBoard, NextCaptured
        <5>2. CASE m.pos # NoMove
          <6>1. m.pos \in Points /\ J.board[m.pos] = "empty" /\ m.color # c
            BY <3>4, <3>5, <3>9, <5>2
          <6>2. total(k) = total(k - 1) + 0
            <7>1. Total(NextBoard(J.board, m.pos, m.color), NextCaptured(J.board, J.captured, m.pos, m.color), c)
                  = Total(J.board, J.captured, c) + (IF c = m.color THEN 1 ELSE 0)
              BY <3>4, <6>1, StonesConserved
            <7> HIDE DEF total
            <7> QED BY <3>6, <3>7, <6>1, <7>1
          <6> HIDE DEF total
          <6> QED BY <3>7, <6>2
        <5> QED BY <5>1, <5>2
      <4>2. PutBy(moves, k, c) = PutBy(moves, k - 1, c)
        BY <3>1, <3>9 DEF PutBy
      <4> HIDE DEF total, put
      <4>3. put(k) = put(k - 1)
        BY <4>2 DEF put
      <4> QED BY <2>1, <3>1, <3>2, <4>1, <4>3
    <3> QED BY <3>8, <3>9
  <2> QED BY <2>2, <2>3
<1> QED BY <1>1, <1>4

(* The remembered moves, replayed from the initial position, lead to the   *)
(* board, the ko and the prisoners of the game, and every stone put is on  *)
(* the board or a prisoner: what an undo relies on.                        *)
THEOREM HistoryLeadsHereAlways == Spec => []HistoryLeadsHere
<1>1. ASSUME Inv PROVE HistoryLeadsHere
  <2>1. /\ pos \in PositionType /\ initial \in SavedType /\ history \in Seq(MoveType)
        /\ Len(history) <= game.max_history
    BY <1>1 DEF Inv, Types
  <2>2. PICK T : Leads(T, initial, history) /\ T[Len(history)] = Saved(pos)
    BY <1>1 DEF Inv, Trajectory
  <2>3. {} \in HashType
    BY DEF HashType
  <2>4. Saved(Replay(initial, {}, history)) = Saved(pos)
    BY <2>1, <2>2, <2>3, ReplayFollows
  <2>5. ASSUME NEW c \in Colors
        PROVE  Cardinality(Stones(pos.board, c)) + pos.captured[c] =
                  Cardinality(Stones(initial.board, c)) + initial.captured[c]
                  + Cardinality({k \in DOMAIN history : history[k].color = c /\ history[k].pos # NoMove})
    <3>1. Total(Saved(pos).board, Saved(pos).captured, c)
          = Total(initial.board, initial.captured, c) + Cardinality(PutBy(history, Len(history), c))
      BY <2>1, <2>2, StonesAlong
    <3>2. Saved(pos).board = pos.board /\ Saved(pos).captured = pos.captured
      BY DEF Saved
    <3>3. DOMAIN history = 1 .. Len(history)
      BY <2>1
    <3> QED BY <3>1, <3>2, <3>3 DEF Total, PutBy
  <2> QED BY <2>1, <2>4, <2>5 DEF HistoryLeadsHere
<1> QED BY <1>1, Invariance, PTL

-----------------------------------------------------------------------------
(* Superko.  The trajectory is the only one there is, the hash kept with   *)
(* each move is that of the board it was played on, and a move that was    *)
(* not refused and is no suicide led to a board the rule does not exclude. *)

LEMMA LeadsUnique ==
  ASSUME NEW S, NEW moves \in Seq(MoveType), NEW T, Leads(T, S, moves), NEW U, Leads(U, S, moves)
  PROVE  T = U
<1> DEFINE n == Len(moves)
           G == {k \in 0 .. n : T[k] = U[k]}
<1>1. n \in Nat /\ T \in [0 .. n -> SavedType] /\ U \in [0 .. n -> SavedType] /\ T[0] = U[0]
  BY DEF Leads
<1>2. ASSUME NEW k0 \in 0 .. n, k0 \notin G PROVE FALSE
  <2>1. PICK k \in 0 .. n : k \notin G /\ \A i \in 0 .. k - 1 : i \in G
    <3>1. \E k \in 0 .. n : k \notin G
      BY <1>2
    <3> HIDE DEF G, n
    <3> QED BY <1>1, <3>1, Steps!FirstGap
  <2>2. CASE k = 0
    BY <1>1, <2>1, <2>2
  <2>3. CASE k # 0
    <3>1. k - 1 \in 0 .. k - 1 /\ k \in 1 .. n
      BY <1>1, <2>1, <2>3
    <3>2. T[k - 1] = U[k - 1]
      BY <2>1, <3>1
    <3>3. T[k] = After(T[k - 1], moves[k]) /\ U[k] = After(U[k - 1], moves[k])
      BY <3>1 DEF Leads
    <3> QED BY <2>1, <3>2, <3>3
  <2> QED BY <2>2, <2>3
<1>3. \A k \in 0 .. n : T[k] = U[k]
  BY <1>2
<1> HIDE DEF n
<1> QED BY <1>1, <1>3

(* The boards before move k that the rule excludes.                        *)
Excluded(ko, T, moves, k) ==
    IF ko = "PSK" THEN {T[j].board : j \in 0 .. k - 1}
    ELSE {T[j - 1].board : j \in {j \in 1 .. k - 1 : moves[j].color = Other(moves[k].color)}}

Remembered(ko, T, moves) ==
    \A k \in 1 .. Len(moves) :
        /\ moves[k].hash = BoardHash(T[k - 1].board)
        /\ moves[k].pos # NoMove /\ ~IsSuicide(T[k - 1].board, moves[k].pos, moves[k].color) =>
              T[k].board \notin Excluded(ko, T, moves, k)

(* Of a game whose hash is that of the board.                              *)
Superko ==
    Faithful /\ game.ko \in {"PSK", "SSK"} =>
        \A T : Leads(T, initial, history) => Remembered(game.ko, T, history)

LEMMA WithoutKoIs ==
  ASSUME NEW b, NEW k
  PROVE  WithoutKo(HashRecalc(b, k), k) = BoardHash(b)
<1>1. HashRecalc(b, k) = BoardHash(b) \cup KoPart(k)
  BY DEF HashRecalc, BoardHash
<1> QED BY <1>1, KoHashesApart, SymDiffFacts DEF WithoutKo

(* What is_superko_violation computes of a move that is no suicide: the    *)
(* hash of the board it leads to.                                          *)
LEMMA TriedHash ==
  ASSUME NEW J \in PositionType, J.hash = HashRecalc(J.board, J.ko),
         NEW p \in Points, NEW c \in Colors, J.board[p] = "empty", ~IsSuicide(J.board, p, c),
         NEW Q, Q = DoPlayMove(KoCleared(J), p, c)
  PROVE  WithoutKo(Q.hash, Q.ko) = BoardHash(NextBoard(J.board, p, c))
<1>1. p # NoMove
  BY PointsAssumption
<1>2. Q = PlayMoveNoHistory(J, p, c)
  BY <1>1 DEF PlayMoveNoHistory
<1>3. /\ Q.hash = NextHash(J.board, J.ko, J.hash, p, c)
      /\ Q.board = NextBoard(J.board, p, c) /\ Q.ko = NextKo(J.board, p, c)
  BY <1>2, MovePreserves
<1>4. Q.hash = HashRecalc(Q.board, Q.ko)
  <2>1. J.board \in BoardType
    BY PositionParts
  <2> QED BY <1>3, <2>1, HashFollows
<1> QED BY <1>3, <1>4, WithoutKoIs

LEMMA SuperkoPlay ==
  ASSUME Inv, Superko, NEW p \in Points \cup {NoMove}, NEW c \in Colors, Play(p, c)
  PROVE  Superko'
<1> DEFINE m == [color |-> c, pos |-> p, hash |-> WithoutKo(pos.hash, pos.ko)]
           n == Len(history)
<1>1. game' = game
  BY DEF Play, PlayMove
<1> SUFFICES ASSUME Faithful, game.ko \in {"PSK", "SSK"}, NEW T, Leads(T, initial', history')
             PROVE  Remembered(game.ko, T, history')
  BY <1>1 DEF Superko, Faithful
<1>2. /\ made \in 0 .. game.max_moves /\ game.max_moves \in Nat /\ game.max_history \in Nat
      /\ n <= made /\ n \in Nat /\ history \in Seq(MoveType)
      /\ pos \in PositionType /\ initial \in SavedType
  BY GameFacts DEF Inv, Types
<1>3. made < game.max_moves /\ n < game.max_history
  BY <1>2 DEF Play, PlayMove, Faithful
<1>4. initial' = initial /\ history' = Append(history, m)
  BY <1>2, <1>3 DEF Play, PlayMove, Played
<1>5. pos.hash = HashRecalc(pos.board, pos.ko) /\ pos.hash \in HashType /\ pos.ko \in Points \cup {NoMove}
  BY <1>2, PositionParts DEF Inv, HashFollowsThePlay, HashIsOfTheBoard, Faithful
<1>6. m \in MoveType
  <2>1. WithoutKo(pos.hash, pos.ko) \in HashType
    BY <1>5 DEF WithoutKo, SymDiff, KoPart, HashType
  <2> QED BY <2>1 DEF MoveType
<1>7. m.hash = BoardHash(pos.board) /\ m.pos = p /\ m.color = c
  BY <1>5, WithoutKoIs
<1> HIDE DEF m, n
<1>8. /\ history' \in Seq(MoveType) /\ Len(history') = n + 1
      /\ history'[n + 1] = m /\ \A k \in 1 .. n : history'[k] = history[k]
  BY <1>2, <1>4, <1>6 DEF n
<1> DEFINE U == [k \in 0 .. n |-> T[k]]
<1>9. Leads(U, initial, history)
  <2>1. n \in 0 .. Len(history')
    BY <1>2, <1>8
  <2>2. Leads(U, initial', SubSeq(history', 1, n))
    BY <1>8, <2>1, LeadsHead
  <2>3. SubSeq(history', 1, n) = history
    BY <1>2, <1>4, <1>6 DEF n
  <2> QED BY <1>4, <2>2, <2>3
<1>10. \A k \in 0 .. n : U[k] = T[k]
  OBVIOUS
<1>11. T[n].board = pos.board
  <2>1. PICK V : Leads(V, initial, history) /\ V[n] = Saved(pos)
    BY DEF Inv, Trajectory, n
  <2>2. V = U
    BY <1>2, <1>9, <2>1, LeadsUnique
  <2>3. n \in 0 .. n
    BY <1>2
  <2> QED BY <1>10, <2>1, <2>2, <2>3 DEF Saved
<1> HIDE DEF U
<1>12. Remembered(game.ko, U, history)
  BY <1>9 DEF Superko
<1>13. ASSUME NEW k \in 1 .. n
       PROVE  /\ history[k].hash = BoardHash(T[k - 1].board)
              /\ history[k].pos # NoMove /\ ~IsSuicide(T[k - 1].board, history[k].pos, history[k].color) =>
                    T[k].board \notin Excluded(game.ko, T, history, k)
  <2>1. k - 1 \in 0 .. n /\ k \in 0 .. n /\ \A j \in 0 .. k - 1 : j \in 0 .. n
    BY <1>2
  <2>2. U[k] = T[k] /\ U[k - 1] = T[k - 1]
    BY <1>10, <2>1
  <2>3. Excluded(game.ko, U, history, k) = Excluded(game.ko, T, history, k)
    <3>1. \A j \in 0 .. k - 1 : U[j] = T[j]
      BY <1>10, <2>1
    <3>2. \A j \in 1 .. k - 1 : U[j - 1] = T[j - 1]
      BY <1>2, <3>1
    <3> QED BY <3>1, <3>2 DEF Excluded
  <2> QED BY <1>12, <2>2, <2>3 DEF Remembered, n
<1>14. ASSUME p # NoMove, ~IsSuicide(T[n].board, p, c)
       PROVE  T[n + 1].board \notin Excluded(game.ko, T, history', n + 1)
  <2> DEFINE Q == DoPlayMove(KoCleared(pos), p, c)
             new == WithoutKo(Q.hash, Q.ko)
  <2>1. p \in Points /\ pos.board[p] = "empty" /\ ~SuperkoViolation(p, c)
    BY <1>14 DEF Play, IsAllowedMove
  <2>2. T[n + 1].board = NextBoard(pos.board, p, c)
    <3>1. T[n + 1] = After(T[(n + 1) - 1], history'[n + 1])
      BY <1>2, <1>8 DEF Leads
    <3>2. (n + 1) - 1 = n
      BY <1>2
    <3> QED BY <1>7, <1>8, <1>11, <3>1, <3>2 DEF After
  <2>3. new = BoardHash(T[n + 1].board)
    BY <1>2, <1>5, <1>11, <1>14, <2>1, <2>2, TriedHash
  <2>4. /\ game.ko = "PSK" => new # BoardHash(pos.board)
        /\ \A k \in 1 .. n : ~(history[k].hash = new /\ (game.ko = "PSK" \/ history[k].color = Other(c)))
    <3>1. DOMAIN history = 1 .. n
      BY <1>2 DEF n
    <3>2. WithoutKo(pos.hash, pos.ko) = BoardHash(pos.board)
      BY <1>5, WithoutKoIs
    <3> QED BY <2>1, <3>1, <3>2 DEF SuperkoViolation
  <2> HIDE DEF Q, new
  <2>5. CASE game.ko = "PSK"
    <3> SUFFICES ASSUME NEW j \in 0 .. (n + 1) - 1, T[n + 1].board = T[j].board PROVE FALSE
      BY <2>5 DEF Excluded
    <3>1. CASE j = n
      BY <1>11, <2>3, <2>4, <2>5, <3>1
    <3>2. CASE j # n
      <4>1. j + 1 \in 1 .. n /\ (j + 1) - 1 = j
        BY <1>2, <3>2
      <4>2. history[j + 1].hash = BoardHash(T[j].board)
        BY <1>13, <4>1
      <4> QED BY <2>3, <2>4, <2>5, <4>1, <4>2
    <3> QED BY <3>1, <3>2
  <2>6. CASE game.ko # "PSK"
    <3> SUFFICES ASSUME NEW j \in 1 .. (n + 1) - 1, history'[j].color = Other(history'[n + 1].color),
                        T[n + 1].board = T[j - 1].board
                 PROVE FALSE
      BY <2>6 DEF Excluded
    <3>1. j \in 1 .. n
      BY <1>2
    <3>2. history[j].hash = BoardHash(T[j - 1].board) /\ history[j].color = Other(c)
      BY <1>7, <1>8, <1>13, <3>1
    <3> QED BY <2>3, <2>4, <3>1, <3>2
  <2> QED BY <2>5, <2>6
<1>15. ASSUME NEW k \in 1 .. n + 1
       PROVE  /\ history'[k].hash = BoardHash(T[k - 1].board)
              /\ history'[k].pos # NoMove /\ ~IsSuicide(T[k - 1].board, history'[k].pos, history'[k].color) =>
                    T[k].board \notin Excluded(game.ko, T, history', k)
  <2>1. CASE k = n + 1
    <3>1. k - 1 = n
      BY <1>2, <2>1
    <3> QED BY <1>7, <1>8, <1>11, <1>14, <2>1, <3>1
  <2>2. CASE k # n + 1
    <3>1. k \in 1 .. n /\ \A j \in 1 .. k - 1 : j \in 1 .. n
      BY <1>2, <2>2
    <3>2. history'[k] = history[k] /\ \A j \in 1 .. k - 1 : history'[j] = history[j]
      BY <1>8, <3>1
    <3>3. Excluded(game.ko, T, history', k) = Excluded(game.ko, T, history, k)
      BY <3>2 DEF Excluded
    <3> QED BY <1>13, <3>1, <3>2, <3>3
  <2> QED BY <2>1, <2>2
<1> QED BY <1>8, <1>15 DEF Remembered

LEMMA SuperkoUndo ==
  ASSUME Inv, Superko, NEW n \in 1 .. Len(history), UndoMove(n)
  PROVE  Superko'
<1> DEFINE keep == Len(history) - n
           rest == SubSeq(history, 1, keep)
<1>1. game' = game /\ initial' = initial /\ history' = rest
  BY DEF UndoMove
<1> SUFFICES ASSUME Faithful, game.ko \in {"PSK", "SSK"}, NEW T, Leads(T, initial, rest)
             PROVE  Remembered(game.ko, T, rest)
  BY <1>1 DEF Superko, Faithful
<1>2. history \in Seq(MoveType) /\ Len(history) \in Nat
  BY DEF Inv, Types
<1>3. PICK V : Leads(V, initial, history)
  BY DEF Inv, Trajectory
<1>4. keep \in 0 .. Len(history)
  BY <1>2
<1>5. rest \in Seq(MoveType) /\ Len(rest) = keep /\ \A k \in 1 .. keep : rest[k] = history[k]
  BY <1>2, <1>4
<1> HIDE DEF keep
<1>6. \A k \in 0 .. keep : T[k] = V[k]
  <2> DEFINE U == [k \in 0 .. keep |-> V[k]]
  <2>1. Leads(U, initial, rest)
    BY <1>2, <1>3, <1>4, LeadsHead
  <2> HIDE DEF rest
  <2>2. T = U
    BY <1>5, <2>1, LeadsUnique
  <2> QED BY <2>2
<1>7. Remembered(game.ko, V, history)
  BY <1>3 DEF Superko
<1> HIDE DEF rest
<1>8. ASSUME NEW k \in 1 .. keep
      PROVE  /\ rest[k].hash = BoardHash(T[k - 1].board)
             /\ rest[k].pos # NoMove /\ ~IsSuicide(T[k - 1].board, rest[k].pos, rest[k].color) =>
                   T[k].board \notin Excluded(game.ko, T, rest, k)
  <2>1. /\ k \in 1 .. Len(history) /\ k - 1 \in 0 .. keep /\ k \in 0 .. keep
        /\ \A j \in 0 .. k - 1 : j \in 0 .. keep
        /\ \A j \in 1 .. k - 1 : j \in 1 .. keep /\ j - 1 \in 0 .. keep
    BY <1>2, <1>4
  <2>2. T[k] = V[k] /\ T[k - 1] = V[k - 1] /\ rest[k] = history[k]
    BY <1>5, <1>6, <2>1
  <2>3. Excluded(game.ko, T, rest, k) = Excluded(game.ko, V, history, k)
    <3>1. \A j \in 0 .. k - 1 : T[j] = V[j]
      BY <1>6, <2>1
    <3>2. \A j \in 1 .. k - 1 : T[j - 1] = V[j - 1] /\ rest[j] = history[j]
      BY <1>5, <1>6, <2>1
    <3> DEFINE A == {j \in 1 .. k - 1 : rest[j].color = Other(rest[k].color)}
               B == {j \in 1 .. k - 1 : history[j].color = Other(history[k].color)}
    <3>3. A = B
      BY <2>2, <3>2
    <3>4. \A j \in A : T[j - 1] = V[j - 1]
      BY <3>2
    <3> HIDE DEF A, B
    <3>5. {T[j - 1].board : j \in A} = {V[j - 1].board : j \in B}
      BY <3>3, <3>4
    <3>6. {T[j].board : j \in 0 .. k - 1} = {V[j].board : j \in 0 .. k - 1}
      BY <3>1
    <3> QED BY <3>5, <3>6 DEF Excluded, A, B
  <2> QED BY <1>7, <2>1, <2>2, <2>3 DEF Remembered
<1> QED BY <1>5, <1>8 DEF Remembered

LEMMA SuperkoEmpty ==
  ASSUME NEW ko, NEW T
  PROVE  Remembered(ko, T, <<>>)
BY DEF Remembered

(* The superko promise of the games whose hash is that of the board: no    *)
(* move that is no suicide repeats what the rule excludes of what the game *)
(* remembers.                                                              *)
THEOREM NoRepetitionAlways == Spec => []NoRepetition
<1>1. Init => Superko
  <2> SUFFICES ASSUME Init PROVE Superko
    OBVIOUS
  <2>1. history = <<>>
    BY DEF Init
  <2> QED BY <2>1, SuperkoEmpty DEF Superko
<1>2. Inv /\ Superko /\ [Next]_vars => Superko'
  <2> SUFFICES ASSUME Inv, Superko, [Next]_vars PROVE Superko'
    OBVIOUS
  <2>1. ASSUME NEW p \in Points \cup {NoMove}, NEW c \in Colors, Play(p, c) PROVE Superko'
    BY <2>1, SuperkoPlay
  <2>2. CASE ResetEngine
    BY <2>2 DEF ResetEngine, Superko, Faithful
  <2>3. ASSUME NEW n \in 1 .. Len(history), UndoMove(n) PROVE Superko'
    BY <2>3, SuperkoUndo
  <2>4. ASSUME NEW J, Setup(J) PROVE Superko'
    <3>1. history' = <<>>
      BY <2>4 DEF Setup
    <3> QED BY <3>1, SuperkoEmpty DEF Superko
  <2>5. ASSUME NEW p \in Points, NEW c \in Colors, AddStone(p, c) PROVE Superko'
    BY <2>4, <2>5 DEF AddStone
  <2>6. ASSUME NEW p \in Points, RemoveStone(p) PROVE Superko'
    BY <2>4, <2>6 DEF RemoveStone
  <2>7. CASE UNCHANGED vars
    BY <2>7 DEF vars, Superko, Faithful
  <2> QED BY <2>1, <2>2, <2>3, <2>5, <2>6, <2>7 DEF Next
<1>3. ASSUME Inv, Superko PROVE NoRepetition
  <2> DEFINE n == Len(history)
  <2> SUFFICES ASSUME Faithful, NEW k \in Repeats PROVE k \in SuicidalMoves
    BY DEF NoRepetition
  <2>1. /\ history \in Seq(MoveType) /\ initial \in SavedType /\ n \in Nat
        /\ DOMAIN history = 1 .. n
    BY <1>3 DEF Inv, Types
  <2>2. PICK T : Leads(T, initial, history)
    BY <1>3 DEF Inv, Trajectory
  <2>3. \A j \in 0 .. n : Boards[j] = T[j].board
    <3> TAKE j \in 0 .. n
    <3> DEFINE head == SubSeq(history, 1, j)
               H == [i \in 0 .. j |-> T[i]]
               J == Replay(initial, {}, head)
    <3>1. Leads(H, initial, head) /\ head \in Seq(MoveType) /\ Len(head) = j
      BY <2>1, <2>2, LeadsHead
    <3>2. H[j] = T[j]
      BY <2>1
    <3>3. {} \in HashType
      BY DEF HashType
    <3> HIDE DEF H, head
    <3>4. Saved(J) = T[j]
      BY <2>1, <3>1, <3>2, <3>3, ReplayFollows
    <3>5. Saved(J).board = J.board
      BY DEF Saved
    <3>6. Boards[j] = J.board
      BY DEF Boards, head
    <3> QED BY <3>4, <3>5, <3>6
  <2>4. /\ k \in 1 .. n /\ game.ko \in {"PSK", "SSK"} /\ history[k].pos # NoMove
        /\ Boards[k] \in IF game.ko = "PSK" THEN {Boards[j] : j \in 0 .. k - 1}
                         ELSE {Boards[j - 1] : j \in {j \in 1 .. k - 1 : history[j].color = Other(history[k].color)}}
    BY <2>1 DEF Repeats
  <2>5. /\ k \in 0 .. n /\ k - 1 \in 0 .. n /\ \A j \in 0 .. k - 1 : j \in 0 .. n
        /\ \A j \in 1 .. k - 1 : j - 1 \in 0 .. n
    BY <2>1, <2>4
  <2>6. T[k].board \in Excluded(game.ko, T, history, k)
    <3>1. Boards[k] = T[k].board
      BY <2>3, <2>5
    <3>2. CASE game.ko = "PSK"
      <4>1. PICK j \in 0 .. k - 1 : Boards[k] = Boards[j]
        BY <2>4, <3>2
      <4>2. Boards[j] = T[j].board
        BY <2>3, <2>5
      <4> QED BY <3>1, <3>2, <4>1, <4>2 DEF Excluded
    <3>3. CASE game.ko # "PSK"
      <4>1. PICK j \in 1 .. k - 1 : history[j].color = Other(history[k].color) /\ Boards[k] = Boards[j - 1]
        BY <2>4, <3>3
      <4>2. Boards[j - 1] = T[j - 1].board
        BY <2>3, <2>5
      <4> QED BY <3>1, <3>3, <4>1, <4>2 DEF Excluded
    <3> QED BY <3>2, <3>3
  <2>7. Remembered(game.ko, T, history)
    BY <1>3, <2>2, <2>4 DEF Superko
  <2>8. IsSuicide(T[k - 1].board, history[k].pos, history[k].color)
    BY <2>4, <2>6, <2>7 DEF Remembered
  <2>9. IsSuicide(Boards[k - 1], history[k].pos, history[k].color)
    BY <2>3, <2>5, <2>8
  <2> QED BY <2>1, <2>4, <2>9 DEF SuicidalMoves
<1> QED BY <1>1, <1>2, <1>3, Invariance, PTL DEF Spec

-----------------------------------------------------------------------------
(* The shapes of the board.                                                *)

Shaped(S) == NoDeadStrings(S.board) /\ KoIsSurrounded(S)

(* No move along a trajectory spoils them.                                 *)
LEMMA ShapesAlong ==
  ASSUME NEW S \in SavedType, Shaped(S), NEW moves \in Seq(MoveType), NEW T, Leads(T, S, moves),
         NEW n \in 0 .. Len(moves)
  PROVE  Shaped(T[n])
<1> DEFINE G == {k \in 0 .. Len(moves) : Shaped(T[k])}
<1> SUFFICES ASSUME n \notin G PROVE FALSE
  OBVIOUS
<1>1. Len(moves) \in Nat /\ T \in [0 .. Len(moves) -> SavedType] /\ T[0] = S
  BY DEF Leads
<1>2. PICK k \in 0 .. Len(moves) : k \notin G /\ \A i \in 0 .. k - 1 : i \in G
  <2>1. \E k \in 0 .. Len(moves) : k \notin G
    OBVIOUS
  <2> HIDE DEF G
  <2> QED BY <1>1, <2>1, Steps!FirstGap
<1>3. CASE k = 0
  BY <1>1, <1>2, <1>3
<1>4. CASE k # 0
  <2>1. k \in 1 .. Len(moves) /\ k - 1 \in 0 .. k - 1 /\ k - 1 \in 0 .. Len(moves)
    BY <1>1, <1>2, <1>4
  <2>2. Shaped(T[k - 1])
    BY <1>2, <2>1
  <2>3. T[k - 1] \in SavedType /\ moves[k] \in MoveType
    BY <1>1, <2>1
  <2>4. /\ T[k] = After(T[k - 1], moves[k])
        /\ moves[k].pos # NoMove => T[k - 1].board[moves[k].pos] = "empty"
    BY <2>1 DEF Leads
  <2>5. /\ T[k].board = NextBoard(T[k - 1].board, moves[k].pos, moves[k].color)
        /\ T[k].ko = NextKo(T[k - 1].board, moves[k].pos, moves[k].color)
    BY <2>4 DEF After
  <2>6. /\ T[k - 1].board \in BoardType
        /\ moves[k].pos \in Points \cup {NoMove} /\ moves[k].color \in Colors
    BY <2>3 DEF SavedType, MoveType
  <2>7. Shaped(T[k])
    BY <2>2, <2>4, <2>5, <2>6, NextShape DEF Shaped
  <2> QED BY <1>2, <2>7
<1> QED BY <1>3, <1>4

(* The tests of suicide and ko, in every position of every game: the setup *)
(* stones come with liberties and without a ko, and no move, undo or       *)
(* collapse of the history makes a string without liberties or a ko point  *)
(* that is not surrounded.                                                 *)
THEOREM ShapesAreSoundAlways == Spec => []ShapesAreSound
<1> DEFINE Base == Shaped(initial)
<1>1. Init => Base
  <2> SUFFICES ASSUME Init PROVE Base
    OBVIOUS
  <2>1. initial.board = game.board /\ initial.ko = NoMove
    BY Parts DEF Init, Saved
  <2>2. NoDeadStrings(game.board)
    BY GameAssumption DEF Init
  <2> QED BY <2>1, <2>2 DEF Shaped, KoIsSurrounded
<1>2. Inv /\ Base /\ [Next]_vars => Base'
  <2> SUFFICES ASSUME Inv, Base, [Next]_vars PROVE Base'
    OBVIOUS
  <2>1. ASSUME NEW p \in Points \cup {NoMove}, NEW c \in Colors, Play(p, c) PROVE Base'
    <3>1. initial' = Ready.initial
      BY <2>1 DEF Play, PlayMove, Played, Ready
    <3>2. PICK T : \E n \in 0 .. Len(history) : Leads(T, initial, history) /\ Ready.initial = T[n]
      BY ReadyFacts
    <3>3. PICK n \in 0 .. Len(history) : Leads(T, initial, history) /\ Ready.initial = T[n]
      BY <3>2
    <3>4. initial \in SavedType /\ history \in Seq(MoveType)
      BY DEF Inv, Types
    <3>5. Shaped(T[n])
      BY <3>3, <3>4, ShapesAlong
    <3> QED BY <3>1, <3>3, <3>5
  <2>2. CASE ResetEngine
    BY <2>2 DEF ResetEngine
  <2>3. ASSUME NEW n \in 1 .. Len(history), UndoMove(n) PROVE Base'
    BY <2>3 DEF UndoMove
  <2>4. ASSUME NEW J, Setup(J), J.ko = NoMove PROVE Base'
    <3>1. initial'.board = J.board /\ initial'.ko = NoMove /\ NoDeadStrings(J.board)
      BY <2>4 DEF Setup, Saved
    <3> QED BY <3>1 DEF Shaped, KoIsSurrounded
  <2>5. ASSUME NEW p \in Points, NEW c \in Colors, AddStone(p, c) PROVE Base'
    <3>1. Setup(StonePut(pos, p, c)) /\ StonePut(pos, p, c).ko = NoMove
      BY <2>5, Parts DEF AddStone, Setup, StonePut
    <3> QED BY <2>4, <3>1
  <2>6. ASSUME NEW p \in Points, RemoveStone(p) PROVE Base'
    <3>1. Setup(StoneTaken(pos, p)) /\ StoneTaken(pos, p).ko = NoMove
      BY <2>6, Parts DEF RemoveStone, Setup, StoneTaken
    <3> QED BY <2>4, <3>1
  <2>7. CASE UNCHANGED vars
    BY <2>7 DEF vars
  <2> QED BY <2>1, <2>2, <2>3, <2>5, <2>6, <2>7 DEF Next
<1>3. Inv /\ Base => ShapesAreSound
  <2> SUFFICES ASSUME Inv, Base PROVE ShapesAreSound
    OBVIOUS
  <2>1. initial \in SavedType /\ history \in Seq(MoveType) /\ Len(history) \in Nat /\ pos \in PositionType
    BY DEF Inv, Types
  <2>2. PICK T : Leads(T, initial, history) /\ T[Len(history)] = Saved(pos)
    BY DEF Inv, Trajectory
  <2>3. Shaped(Saved(pos))
    <3>1. Len(history) \in 0 .. Len(history)
      BY <2>1
    <3>2. Shaped(T[Len(history)])
      BY <2>1, <2>2, <3>1, ShapesAlong
    <3> QED BY <2>2, <3>2
  <2>4. NoDeadStrings(pos.board) /\ KoIsSurrounded(pos)
    BY <2>3 DEF Shaped, Saved, KoIsSurrounded
  <2>5. pos.board \in BoardType
    BY <2>1, PositionParts
  <2> QED BY <2>4, <2>5, SuicideTest DEF ShapesAreSound
<1> HIDE DEF Base
<1> QED BY <1>1, <1>2, <1>3, Invariance, PTL DEF Spec

-----------------------------------------------------------------------------
(* Part two: UnconditionalLife.  Chains and regions first.                 *)

(* The parts of BensonVerdict by name.                                     *)
Rest(board, c) == [p \in Points |-> IF board[p] = c THEN "empty" ELSE "other"]
Chains(board, c) == {StringAt(board, p) : p \in Stones(board, c)}
Regions(board, c) == {StringAt(Rest(board, c), p) : p \in Points \ Stones(board, c)}
Touching(S) == UNION {Neighbors[p] : p \in S}

IsVital(board, region, chain) ==
    /\ Touching(region) \cap chain # {}
    /\ region \cap Stones(board, "empty") \subseteq Touching(chain)

LEMMA ChainFacts ==
  ASSUME NEW board, NEW c, NEW k \in Chains(board, c)
  PROVE  /\ k \subseteq Stones(board, c) /\ k \subseteq Points
         /\ Closed(Stones(board, c), k)
         /\ \A p \in k : k = StringAt(board, p)
<1>1. PICK p \in Stones(board, c) : k = StringAt(board, p)
  BY DEF Chains
<1>2. p \in Points /\ board[p] = c
  BY <1>1 DEF Stones
<1>3. k \subseteq Stones(board, c) /\ Closed(Stones(board, c), k)
  BY <1>1, <1>2, StringFacts, StringIsClosed
<1>4. \A q \in k : k = StringAt(board, q)
  BY <1>1, <1>2, StringsPartition
<1> QED BY <1>3, <1>4 DEF Stones

LEMMA ChainOf ==
  ASSUME NEW board, NEW c, NEW p \in Stones(board, c)
  PROVE  StringAt(board, p) \in Chains(board, c) /\ p \in StringAt(board, p)
BY StringFacts DEF Chains, Stones

LEMMA RegionFacts ==
  ASSUME NEW board, NEW c, NEW r \in Regions(board, c)
  PROVE  /\ r \subseteq Points \ Stones(board, c) /\ r # {}
         /\ Closed(Points \ Stones(board, c), r)
         /\ \A s \in Regions(board, c) : r \cap s # {} => r = s
<1> DEFINE rest == Rest(board, c)
<1>1. \A p \in Points : rest[p] = IF board[p] = c THEN "empty" ELSE "other"
  BY DEF Rest
<1> HIDE DEF rest
<1>2. Points \ Stones(board, c) = Stones(rest, "other")
  BY <1>1 DEF Stones
<1>3. \A s \in Regions(board, c) : \E p \in Points : rest[p] = "other" /\ s = StringAt(rest, p)
  BY <1>1 DEF Regions, Stones, rest
<1>4. PICK p \in Points : rest[p] = "other" /\ r = StringAt(rest, p)
  BY <1>3
<1>5. r \subseteq Points \ Stones(board, c) /\ p \in r /\ Closed(Points \ Stones(board, c), r)
  BY <1>2, <1>4, StringFacts, StringIsClosed
<1>6. ASSUME NEW s \in Regions(board, c), r \cap s # {} PROVE r = s
  <2>1. PICK q \in Points : s = StringAt(rest, q)
    BY <1>3
  <2>2. PICK x \in r : x \in s
    BY <1>6
  <2>3. StringAt(rest, x) = r
    BY <1>4, <2>2, StringsPartition
  <2>4. StringAt(rest, x) = s
    BY <2>1, <2>2, StringsPartition
  <2> QED BY <2>3, <2>4
<1> QED BY <1>5, <1>6

LEMMA FinitelyMany ==
  ASSUME NEW board, NEW c
  PROVE  /\ IsFiniteSet(Chains(board, c)) /\ Cardinality(Chains(board, c)) \in Nat
         /\ IsFiniteSet(Regions(board, c))
<1>1. Chains(board, c) \in SUBSET SUBSET Points
  BY ChainFacts
<1>2. Regions(board, c) \in SUBSET SUBSET Points
  BY RegionFacts
<1>3. IsFiniteSet(SUBSET Points)
  BY PointsAssumption, FS_SUBSET
<1> QED BY <1>1, <1>2, <1>3, FS_Subset, FS_CardinalityType

LEMMA TwoOf ==
  ASSUME NEW S, IsFiniteSet(S), Cardinality(S) >= 2
  PROVE  \E x, y \in S : x # y
<1> SUFFICES ASSUME \A x, y \in S : x = y PROVE FALSE
  OBVIOUS
<1>1. CASE S = {}
  BY <1>1, FS_EmptySet
<1>2. CASE S # {}
  <2>1. PICK x \in S : TRUE
    BY <1>2
  <2>2. S = {x}
    BY <2>1
  <2>3. Cardinality(S) = 1
    BY <2>2, FS_Singleton
  <2> QED BY <2>3
<1> QED BY <1>1, <1>2

-----------------------------------------------------------------------------
(* The rounds of mc_benson_color end in chains and regions that keep each  *)
(* other alive.                                                            *)

(* A sweep: the chains with two vital regions left, and the regions that   *)
(* no other chain borders.                                                 *)
TwoVital(board, before) ==
    {k \in before.chains : Cardinality({r \in before.regions : IsVital(board, r, k)}) >= 2}

Sweep(board, c, before) ==
    [chains |-> TwoVital(board, before),
     regions |-> {r \in before.regions :
                     \A k \in Chains(board, c) \ TwoVital(board, before) : Touching(r) \cap k = {}}]

RoundType(board, c) == [chains : SUBSET Chains(board, c), regions : SUBSET Regions(board, c)]

Rounds(g, n, board, c) ==
    /\ g \in [0 .. n -> RoundType(board, c)]
    /\ g[0] = [chains |-> Chains(board, c), regions |-> Regions(board, c)]
    /\ \A i \in 1 .. n : g[i] = Sweep(board, c, g[i - 1])

VerdictOf(board, X, R) ==
    [alive |-> UNION X, territory |-> UNION {r \in R : \E k \in X : IsVital(board, r, k)}]

LEMMA RoundsAre ==
  ASSUME NEW board, NEW c, NEW n, n = Cardinality(Chains(board, c))
  PROVE  \E g : Rounds(g, n, board, c) /\ BensonVerdict(board, c) = VerdictOf(board, g[n].chains, g[n].regions)
<1> DEFINE A == RoundType(board, c)
           start == [chains |-> Chains(board, c), regions |-> Regions(board, c)]
           step == [i \in 1 .. n |-> [b \in A |-> Sweep(board, c, b)]]
           rounds(f) == [i \in 0 .. n |-> IF i = 0 THEN start ELSE Sweep(board, c, f[i - 1])]
<1>1. n \in Nat /\ start \in A
  BY FinitelyMany DEF RoundType
<1>2. step \in [1 .. n -> [A -> A]]
  <2> SUFFICES ASSUME NEW b \in A PROVE Sweep(board, c, b) \in A
    OBVIOUS
  <2> QED BY DEF RoundType, Sweep, TwoVital
<1>3. \A i \in 1 .. n, b \in A : step[i][b] = Sweep(board, c, b)
  OBVIOUS
<1>4. LET g == CHOOSE f : f = rounds(f)
      IN BensonVerdict(board, c) = VerdictOf(board, g[n].chains, g[n].regions)
  BY DEF BensonVerdict, VerdictOf, Sweep, TwoVital, IsVital, Touching, Chains, Regions, Rest
<1> HIDE DEF A, step, start, rounds
<1>5. PICK f : Steps!Started(f, n, A, start) /\ Steps!Stepped(f, n, step)
  BY <1>1, <1>2, Steps!Stepwise
<1>6. f = rounds(f)
  <2>1. \A i \in 0 .. n : f[i] = IF i = 0 THEN start ELSE Sweep(board, c, f[i - 1])
    <3> TAKE i \in 0 .. n
    <3>1. CASE i = 0
      BY <1>5, <3>1 DEF Steps!Started
    <3>2. CASE i # 0
      <4>1. i \in 1 .. n /\ i - 1 \in 0 .. n
        BY <1>1, <3>2
      <4>2. f[i - 1] \in A /\ f[i] = step[i][f[i - 1]]
        BY <1>5, <4>1 DEF Steps!Started, Steps!Stepped
      <4> QED BY <1>3, <3>2, <4>1, <4>2
    <3> QED BY <3>1, <3>2
  <2>2. f = [i \in 0 .. n |-> f[i]]
    BY <1>5 DEF Steps!Started
  <2> QED BY <2>1, <2>2 DEF rounds
<1>7. PICK g : g = rounds(g) /\ BensonVerdict(board, c) = VerdictOf(board, g[n].chains, g[n].regions)
  <2>1. (CHOOSE g : g = rounds(g)) = rounds(CHOOSE g : g = rounds(g))
    BY <1>6, Zenon
  <2> QED BY <1>4, <2>1
<1>8. \A i \in 0 .. n : g[i] = IF i = 0 THEN start ELSE Sweep(board, c, g[i - 1])
  BY <1>7 DEF rounds
<1>9. \A i \in 1 .. n : g[i] = Sweep(board, c, g[i - 1])
  <2> TAKE i \in 1 .. n
  <2>1. i \in 0 .. n /\ i # 0
    BY <1>1
  <2> QED BY <1>8, <2>1
<1>10. g = [i \in 0 .. n |-> g[i]]
  BY <1>7 DEF rounds
<1> DEFINE G == {i \in 0 .. n : g[i] \in A}
<1>11. ASSUME NEW i0 \in 0 .. n, i0 \notin G PROVE FALSE
  <2>1. PICK i \in 0 .. n : i \notin G /\ \A j \in 0 .. i - 1 : j \in G
    <3>1. \E i \in 0 .. n : i \notin G
      BY <1>11
    <3> HIDE DEF G
    <3> QED BY <1>1, <3>1, Steps!FirstGap
  <2>2. CASE i = 0
    BY <1>1, <1>8, <2>1, <2>2
  <2>3. CASE i # 0
    <3>1. i - 1 \in 0 .. i - 1 /\ i \in 1 .. n
      BY <1>1, <2>1, <2>3
    <3>2. g[i - 1] \in A
      BY <2>1, <3>1
    <3>3. g[i] = step[i][g[i - 1]]
      BY <1>3, <1>9, <3>1, <3>2
    <3>4. g[i] \in A
      BY <1>2, <3>1, <3>2, <3>3
    <3> QED BY <2>1, <3>4
  <2> QED BY <2>2, <2>3
<1>12. g \in [0 .. n -> A] /\ g[0] = start
  <2>1. \A i \in 0 .. n : g[i] \in A
    BY <1>11
  <2>2. 0 \in 0 .. n
    BY <1>1
  <2> QED BY <1>8, <1>10, <2>1, <2>2
<1> QED BY <1>7, <1>9, <1>12 DEF Rounds, A, start

(* What the rounds end in: every chain has two vital regions, and every    *)
(* chain that borders a region is among them.                              *)
KeepEachOther(board, c, X, R) ==
    /\ X \subseteq Chains(board, c) /\ R \subseteq Regions(board, c)
    /\ \A k \in X : \E r, s \in R : r # s /\ IsVital(board, r, k) /\ IsVital(board, s, k)
    /\ \A r \in R, k \in Chains(board, c) : Touching(r) \cap k # {} => k \in X

(* A round that changes nothing leaves what keeps each other.              *)
LEMMA FixedRound ==
  ASSUME NEW board, NEW c, NEW b \in RoundType(board, c), b = Sweep(board, c, b)
  PROVE  KeepEachOther(board, c, b.chains, b.regions)
<1>1. /\ b.chains \subseteq Chains(board, c) /\ b.regions \subseteq Regions(board, c)
  BY DEF RoundType
<1>2. /\ b.chains = TwoVital(board, b)
      /\ b.regions = {r \in b.regions :
                        \A k \in Chains(board, c) \ TwoVital(board, b) : Touching(r) \cap k = {}}
  BY DEF Sweep
<1>3. ASSUME NEW k \in b.chains
      PROVE  \E r, s \in b.regions : r # s /\ IsVital(board, r, k) /\ IsVital(board, s, k)
  <2> DEFINE V == {r \in b.regions : IsVital(board, r, k)}
  <2>1. Cardinality(V) >= 2
    BY <1>2, <1>3 DEF TwoVital
  <2>2. IsFiniteSet(V)
    BY <1>1, FinitelyMany, FS_Subset
  <2> HIDE DEF V
  <2>3. \E r, s \in V : r # s
    BY <2>1, <2>2, TwoOf
  <2> QED BY <2>3 DEF V
<1> QED BY <1>1, <1>2, <1>3 DEF KeepEachOther

(* The chains that are left become fewer, or nothing changes any more.     *)
LEMMA RoundsShrink ==
  ASSUME NEW board, NEW c, NEW n, n = Cardinality(Chains(board, c)), NEW g, Rounds(g, n, board, c)
  PROVE  g[n].chains = {} \/ \E j \in 0 .. n - 1 : g[j + 1].chains = g[j].chains
<1>1. n \in Nat
  BY FinitelyMany
<1>2. \A i \in 0 .. n : /\ g[i].chains \subseteq Chains(board, c) /\ IsFiniteSet(g[i].chains)
                        /\ Cardinality(g[i].chains) \in Nat
  <2> TAKE i \in 0 .. n
  <2>1. g[i] \in RoundType(board, c)
    BY DEF Rounds
  <2>2. g[i].chains \in SUBSET Chains(board, c)
    BY <2>1 DEF RoundType
  <2> QED BY <2>2, FinitelyMany, FS_Subset, FS_CardinalityType
<1> SUFFICES ASSUME \A j \in 0 .. n - 1 : g[j + 1].chains # g[j].chains
             PROVE  g[n].chains = {}
  OBVIOUS
<1> DEFINE G == {m \in 0 .. n : Cardinality(g[m].chains) + m <= n}
<1>3. n \in G
  <2> SUFFICES ASSUME n \notin G PROVE FALSE
    OBVIOUS
  <2>1. PICK m \in 0 .. n : m \notin G /\ \A i \in 0 .. m - 1 : i \in G
    <3>1. \E m \in 0 .. n : m \notin G
      BY <1>1
    <3> HIDE DEF G
    <3> QED BY <1>1, <3>1, Steps!FirstGap
  <2>2. CASE m = 0
    <3>1. g[0].chains = Chains(board, c)
      BY DEF Rounds
    <3>2. Cardinality(g[m].chains) + m <= n
      BY <1>1, <2>2, <3>1
    <3> QED BY <2>1, <3>2
  <2>3. CASE m # 0
    <3>1. m - 1 \in 0 .. m - 1 /\ m \in 1 .. n /\ m - 1 \in 0 .. n - 1 /\ m - 1 \in 0 .. n /\ (m - 1) + 1 = m
      BY <1>1, <2>1, <2>3
    <3>2. g[m].chains \in SUBSET g[m - 1].chains
      <4>1. g[m] = Sweep(board, c, g[m - 1])
        BY <3>1 DEF Rounds
      <4>2. g[m].chains = TwoVital(board, g[m - 1])
        BY <4>1 DEF Sweep
      <4> QED BY <4>2 DEF TwoVital
    <3>3. g[m].chains # g[m - 1].chains
      BY <3>1
    <3>4. /\ Cardinality(g[m].chains) <= Cardinality(g[m - 1].chains)
          /\ Cardinality(g[m].chains) # Cardinality(g[m - 1].chains)
      BY <1>2, <3>1, <3>2, <3>3, FS_Subset
    <3>5. Cardinality(g[m].chains) \in Nat /\ Cardinality(g[m - 1].chains) \in Nat
      BY <1>2, <3>1
    <3>6. Cardinality(g[m - 1].chains) + (m - 1) <= n
      BY <2>1, <3>1
    <3>7. Cardinality(g[m].chains) + m <= n
      BY <1>1, <2>1, <3>4, <3>5, <3>6
    <3> QED BY <2>1, <3>7
  <2> QED BY <2>2, <2>3
<1>4. n \in 0 .. n
  BY <1>1
<1>5. Cardinality(g[n].chains) = 0
  <2>1. Cardinality(g[n].chains) \in Nat /\ Cardinality(g[n].chains) + n <= n
    BY <1>2, <1>3, <1>4
  <2> QED BY <1>1, <2>1
<1> QED BY <1>2, <1>4, <1>5, FS_EmptySet

(* From the first round that keeps the chains on, all rounds are the same. *)
LEMMA RoundsSettle ==
  ASSUME NEW board, NEW c, NEW n \in Nat, NEW g, Rounds(g, n, board, c),
         NEW j \in 0 .. n - 1, g[j + 1].chains = g[j].chains
  PROVE  g[n] = Sweep(board, c, g[n])
<1>1. j \in 0 .. n /\ j + 1 \in 1 .. n /\ (j + 1) - 1 = j
  OBVIOUS
<1>2. g[j] \in RoundType(board, c) /\ g[j + 1] \in RoundType(board, c) /\ g[j + 1] = Sweep(board, c, g[j])
  BY <1>1 DEF Rounds
<1>3. TwoVital(board, g[j]) = g[j].chains
  BY <1>2 DEF Sweep
<1>4. \A r \in g[j].regions : \A k \in Chains(board, c) \ g[j].chains : Touching(r) \cap k = {}
  <2>1. CASE j = 0
    BY <2>1 DEF Rounds
  <2>2. CASE j # 0
    <3>1. j \in 1 .. n /\ j - 1 \in 0 .. n
      BY <2>2
    <3>2. g[j] = Sweep(board, c, g[j - 1])
      BY <3>1 DEF Rounds
    <3> QED BY <3>2 DEF Sweep
  <2> QED BY <2>1, <2>2
<1>5. Sweep(board, c, g[j]) = g[j]
  <2>1. {r \in g[j].regions : \A k \in Chains(board, c) \ g[j].chains : Touching(r) \cap k = {}} = g[j].regions
    BY <1>4
  <2>2. g[j] = [chains |-> g[j].chains, regions |-> g[j].regions]
    BY <1>2 DEF RoundType
  <2> QED BY <1>3, <2>1, <2>2 DEF Sweep
<1> DEFINE G == {m \in 0 .. n : m < j \/ g[m] = g[j]}
<1>6. n \in G
  <2> SUFFICES ASSUME n \notin G PROVE FALSE
    OBVIOUS
  <2>1. PICK m \in 0 .. n : m \notin G /\ \A i \in 0 .. m - 1 : i \in G
    <3>1. \E m \in 0 .. n : m \notin G
      OBVIOUS
    <3> HIDE DEF G
    <3> QED BY <3>1, Steps!FirstGap
  <2>2. m > j
    BY <2>1
  <2>3. m - 1 \in 0 .. m - 1 /\ m \in 1 .. n /\ ~(m - 1 < j)
    BY <2>1, <2>2
  <2>4. g[m - 1] = g[j]
    BY <2>1, <2>3
  <2>5. g[m] = Sweep(board, c, g[m - 1])
    BY <2>3 DEF Rounds
  <2> QED BY <1>5, <2>1, <2>4, <2>5
<1>7. g[n] = g[j]
  BY <1>6
<1> QED BY <1>5, <1>7

LEMMA BensonKeeps ==
  ASSUME NEW board, NEW c
  PROVE  \E X, R : KeepEachOther(board, c, X, R) /\ BensonVerdict(board, c) = VerdictOf(board, X, R)
<1> DEFINE n == Cardinality(Chains(board, c))
<1>1. n \in Nat
  BY FinitelyMany
<1>2. PICK g : Rounds(g, n, board, c) /\ BensonVerdict(board, c) = VerdictOf(board, g[n].chains, g[n].regions)
  BY RoundsAre
<1>3. g[n] \in RoundType(board, c)
  BY <1>1, <1>2 DEF Rounds
<1>4. CASE g[n].chains = {}
  <2>1. KeepEachOther(board, c, {}, {})
    BY DEF KeepEachOther
  <2>2. VerdictOf(board, g[n].chains, g[n].regions) = VerdictOf(board, {}, {})
    BY <1>4 DEF VerdictOf
  <2> QED BY <1>2, <2>1, <2>2
<1>5. CASE \E j \in 0 .. n - 1 : g[j + 1].chains = g[j].chains
  <2> HIDE DEF n
  <2>1. g[n] = Sweep(board, c, g[n])
    BY <1>1, <1>2, <1>5, RoundsSettle
  <2>2. KeepEachOther(board, c, g[n].chains, g[n].regions)
    BY <1>3, <2>1, FixedRound
  <2> QED BY <1>2, <2>2
<1>6. g[n].chains = {} \/ \E j \in 0 .. n - 1 : g[j + 1].chains = g[j].chains
  <2> HIDE DEF n
  <2> QED BY <1>2, RoundsShrink DEF n
<1> QED BY <1>4, <1>5, <1>6

-----------------------------------------------------------------------------
(* What a sequence of moves of the opponent, color passing, cannot change. *)

(* now is reached from a board on which X and R keep each other: the       *)
(* opponent's stones are never taken, color makes none, and X is there.    *)
Reached(from, now, c, X) ==
    /\ now \in BoardType /\ NoDeadStrings(now)
    /\ \A p \in Points : from[p] = Other(c) => now[p] = Other(c)
    /\ \A p \in Points : now[p] = c => from[p] = c
    /\ \A k \in X : \A p \in k : now[p] = c

(* An empty point next to a chain that stands is a liberty of its string.  *)
LEMMA StandingChain ==
  ASSUME NEW from, NEW now, NEW c, NEW X, Reached(from, now, c, X),
         NEW k \in X, k \in Chains(from, c), NEW p \in k
  PROVE  /\ k \subseteq StringAt(now, p)
         /\ \A l \in Points : now[l] = "empty" /\ l \in Touching(k) => l \in Liberties(now, p)
<1>1. /\ k \subseteq Stones(from, c) /\ k \subseteq Points /\ Closed(Stones(from, c), k)
      /\ k = StringAt(from, p) /\ p \in Points /\ from[p] = c
  BY ChainFacts DEF Stones
<1>2. \A q \in k : now[q] = c
  BY DEF Reached
<1>3. p \in StringAt(now, p) /\ Closed(Stones(now, c), StringAt(now, p))
  BY <1>1, <1>2, StringFacts, StringIsClosed
<1> DEFINE Y == k \cap StringAt(now, p)
<1>4. p \in Y /\ Closed(Stones(from, from[p]), Y)
  BY <1>1, <1>2, <1>3 DEF Closed, Stones
<1>5. StringAt(from, p) \subseteq Y
  BY <1>1, <1>4, StringIsLeast
<1>6. k \subseteq StringAt(now, p)
  BY <1>1, <1>5
<1>7. ASSUME NEW l \in Points, now[l] = "empty", l \in Touching(k)
      PROVE  l \in Liberties(now, p)
  <2>1. PICK q \in k : l \in Neighbors[q]
    BY <1>7 DEF Touching
  <2>2. q \in Neighbors[l]
    BY <1>1, <2>1, PointsAssumption
  <2> QED BY <1>6, <1>7, <2>1, <2>2, LibertyIs
<1> QED BY <1>6, <1>7

(* An opponent's string that touches a region is inside it: what is around *)
(* the region are chains that stand.                                       *)
LEMMA Inside ==
  ASSUME NEW from, NEW now, NEW c \in Colors, NEW X, NEW R, KeepEachOther(from, c, X, R),
         Reached(from, now, c, X), NEW r \in R, NEW p \in r, now[p] = Other(c)
  PROVE  StringAt(now, p) \subseteq r
<1>1. /\ r \in Regions(from, c) /\ r \subseteq Points \ Stones(from, c)
      /\ Closed(Points \ Stones(from, c), r) /\ p \in Points
  BY RegionFacts DEF KeepEachOther
<1>2. Other(c) # c
  BY OthersColor
<1>3. Closed(Stones(now, Other(c)), r)
  <2> SUFFICES ASSUME NEW q \in Points, now[q] = Other(c), NEW y \in r, y \in Neighbors[q]
               PROVE  q \in r
    BY DEF Closed, Stones
  <2>1. CASE from[q] # c
    BY <1>1, <2>1 DEF Closed, Stones
  <2>2. CASE from[q] = c
    <3>1. q \in Neighbors[y]
      BY <1>1, PointsAssumption
    <3> DEFINE k == StringAt(from, q)
    <3>2. k \in Chains(from, c) /\ q \in k
      BY <2>2, ChainOf DEF Stones
    <3>3. Touching(r) \cap k # {}
      BY <3>1, <3>2 DEF Touching
    <3>4. k \in X
      BY <3>2, <3>3 DEF KeepEachOther
    <3> QED BY <1>2, <3>2, <3>4 DEF Reached
  <2> QED BY <2>1, <2>2
<1> QED BY <1>1, <1>3, StringIsLeast

(* A point next to a region and outside it is a stone of a chain that      *)
(* stands.                                                                 *)
LEMMA Border ==
  ASSUME NEW from, NEW c, NEW X, NEW R, KeepEachOther(from, c, X, R),
         NEW r \in R, NEW p \in Touching(r), p \notin r
  PROVE  p \in Points /\ \E k \in X : k \in Chains(from, c) /\ p \in k
<1>1. /\ r \in Regions(from, c) /\ r \subseteq Points
      /\ Closed(Points \ Stones(from, c), r)
  BY RegionFacts DEF KeepEachOther
<1>2. PICK y \in r : p \in Neighbors[y]
  BY DEF Touching
<1>3. p \in Points /\ y \in Neighbors[p]
  BY <1>1, <1>2, PointsAssumption
<1>4. p \in Stones(from, c)
  BY <1>1, <1>3 DEF Closed
<1> DEFINE k == StringAt(from, p)
<1>5. k \in Chains(from, c) /\ p \in k
  BY <1>4, ChainOf
<1>6. k \in X
  BY <1>5 DEF KeepEachOther
<1> QED BY <1>3, <1>5, <1>6

(* However the opponent has filled it, a vital region has a liberty of its *)
(* chain: the opponent's last string in it would have none.                *)
LEMMA RegionHasRoom ==
  ASSUME NEW from, NEW now, NEW c \in Colors, NEW X, NEW R, KeepEachOther(from, c, X, R),
         Reached(from, now, c, X), NEW k \in X, NEW r \in R, IsVital(from, r, k), from \in BoardType
  PROVE  \E e \in r : e \in Points /\ now[e] = "empty" /\ e \in Touching(k)
<1>1. /\ r \in Regions(from, c) /\ r \subseteq Points \ Stones(from, c) /\ r # {}
  BY RegionFacts DEF KeepEachOther
<1>2. Other(c) # c /\ Other(c) \in Colors /\ \A d \in Colors : d = c \/ d = Other(c)
  BY OthersColor
<1> SUFFICES ASSUME \A e \in r : ~(now[e] = "empty" /\ e \in Touching(k))
             PROVE  FALSE
  BY <1>1
<1>3. \A e \in r : now[e] = Other(c)
  <2> SUFFICES ASSUME NEW e \in r, now[e] # Other(c) PROVE FALSE
    OBVIOUS
  <2>1. e \in Points /\ from[e] # c
    BY <1>1 DEF Stones
  <2>2. now[e] # c /\ from[e] # Other(c)
    BY <2>1 DEF Reached
  <2>3. now[e] = "empty" /\ from[e] = "empty"
    BY <1>2, <2>1, <2>2 DEF Reached, BoardType
  <2>4. e \in Touching(k)
    BY <2>1, <2>3 DEF IsVital, Stones
  <2> QED BY <2>3, <2>4
<1>4. PICK p \in r : TRUE
  BY <1>1
<1>5. p \in Points /\ StringAt(now, p) \subseteq r
  BY <1>1, <1>3, <1>4, Inside
<1>6. PICK l \in Liberties(now, p) : TRUE
  BY <1>2, <1>3, <1>5 DEF Reached, NoDeadStrings
<1>7. PICK q \in StringAt(now, p) : q \in Neighbors[l] /\ l \in Points /\ now[l] = "empty"
  BY <1>6, LibertyIs
<1>8. l \in Touching(r) /\ l \notin r
  <2>1. q \in r /\ q \in Points
    BY <1>1, <1>5
  <2>2. l \in Neighbors[q]
    BY <1>7, <2>1, PointsAssumption
  <2>3. now[l] # Other(c)
    BY <1>2, <1>7 DEF Colors
  <2> QED BY <1>3, <2>1, <2>2, <2>3 DEF Touching
<1>9. PICK h \in X : l \in h
  BY <1>8, Border
<1>10. now[l] = c
  BY <1>9 DEF Reached
<1> QED BY <1>7, <1>10 DEF Colors

(* A move of the opponent takes no chain of X: it could fill the last      *)
(* liberty of one of two regions only.                                     *)
LEMMA MoveReaches ==
  ASSUME NEW from \in BoardType, NEW now, NEW c \in Colors, NEW X, NEW R, KeepEachOther(from, c, X, R),
         Reached(from, now, c, X), NEW loc \in Points, now[loc] = "empty",
         ~IsSuicide(now, loc, Other(c))
  PROVE  Reached(from, BoardAfter(now, loc, Other(c)), c, X)
<1> DEFINE o == Other(c)
           taken == CapturedBy(now, loc, o)
           after == BoardAfter(now, loc, o)
<1>1. o \in Colors /\ o # c /\ Other(o) = c /\ c # "empty" /\ o # "empty"
  BY OthersColor
<1>2. now \in BoardType /\ NoDeadStrings(now)
  BY DEF Reached
<1>3. \A p \in Points : after[p] = IF p \in taken THEN "empty" ELSE IF p = loc THEN o ELSE now[p]
  BY <1>2 DEF BoardAfter, Cleared, Put, BoardType
<1>4. taken \subseteq Stones(now, c)
  BY <1>1, TakenFacts
<1>5. after \in BoardType /\ NoDeadStrings(after)
  <2>1. after \in [Points -> Colors \cup {"empty"}]
    <3>1. after = [p \in Points |-> after[p]]
      BY DEF BoardAfter, Cleared
    <3>2. \A p \in Points : after[p] \in Colors \cup {"empty"}
      BY <1>1, <1>2, <1>3 DEF BoardType
    <3> HIDE DEF after
    <3> QED BY <3>1, <3>2
  <2>2. NoDeadStrings(after)
    BY <1>1, <1>2, PlayShape
  <2> QED BY <2>1, <2>2 DEF BoardType
<1> HIDE DEF o, taken, after
<1>6. ASSUME NEW k \in X, NEW p \in k, p \in taken PROVE FALSE
  <2>1. k \in Chains(from, c) /\ p \in Points /\ k \subseteq Points
    BY ChainFacts DEF KeepEachOther
  <2>2. PICK q \in Neighbors[loc] : now[q] = c /\ Liberties(now, q) = {loc} /\ p \in StringAt(now, q)
    BY <1>1, <1>6 DEF CapturedBy, taken
  <2>3. Liberties(now, p) = {loc}
    <3>1. q \in Points
      BY PointsAssumption
    <3> QED BY <2>2, <3>1, StringsPartition DEF Liberties
  <2>4. PICK r, s \in R : r # s /\ IsVital(from, r, k) /\ IsVital(from, s, k)
    BY DEF KeepEachOther
  <2>5. r \cap s = {}
    BY <2>4, RegionFacts DEF KeepEachOther
  <2>6. PICK d \in R : IsVital(from, d, k) /\ loc \notin d
    BY <2>4, <2>5
  <2>7. PICK e \in d : e \in Points /\ now[e] = "empty" /\ e \in Touching(k)
    BY <2>6, RegionHasRoom
  <2>8. e \in Liberties(now, p)
    BY <2>1, <2>7, StandingChain
  <2> QED BY <2>3, <2>6, <2>7, <2>8
<1>7. ASSUME NEW p \in Points, from[p] = o PROVE after[p] = o
  BY <1>1, <1>3, <1>4, <1>7 DEF Reached, Stones, o
<1>8. ASSUME NEW p \in Points, after[p] = c PROVE from[p] = c
  BY <1>1, <1>3, <1>8 DEF Reached
<1>9. ASSUME NEW k \in X, NEW p \in k PROVE after[p] = c
  <2>1. p \in Points
    BY ChainFacts DEF KeepEachOther
  <2>2. now[p] = c
    BY DEF Reached
  <2> QED BY <1>1, <1>3, <1>6, <2>1, <2>2
<1> QED BY <1>5, <1>7, <1>8, <1>9 DEF Reached, o, after

(* A chain of the opponent in a vital region has no vital region itself:   *)
(* whatever it borders holds a chain of X, and with it the liberty that    *)
(* this chain has in a region elsewhere.                                   *)
LEMMA NoLifeInside ==
  ASSUME NEW from \in BoardType, NEW now, NEW c \in Colors, NEW X, NEW R, KeepEachOther(from, c, X, R),
         Reached(from, now, c, X), NEW r \in R, NEW k \in X, IsVital(from, r, k),
         NEW K \in Chains(now, Other(c)), NEW x \in K, x \in r,
         NEW T \in Regions(now, Other(c))
  PROVE  ~IsVital(now, T, K)
<1> DEFINE o == Other(c)
<1>1. o \in Colors /\ o # c /\ c # "empty" /\ o # "empty" /\ \A d \in Colors : d = c \/ d = o
  BY OthersColor
<1>2. /\ K \subseteq Stones(now, o) /\ K = StringAt(now, x) /\ x \in Points /\ now[x] = o
  BY ChainFacts DEF Stones
<1>3. K \subseteq r
  BY <1>2, Inside
<1>4. /\ r \in Regions(from, c) /\ r \subseteq Points \ Stones(from, c)
      /\ Closed(Points \ Stones(from, c), r)
  BY RegionFacts DEF KeepEachOther
<1>5. T \subseteq Points \ Stones(now, o) /\ Closed(Points \ Stones(now, o), T)
  BY RegionFacts
<1> SUFFICES ASSUME IsVital(now, T, K) PROVE FALSE
  OBVIOUS
<1>6. PICK t \in T, y \in K : t \in Neighbors[y]
  <2>1. PICK t \in T, y \in K : y \in Neighbors[t]
    BY DEF IsVital, Touching
  <2> QED BY <1>2, <1>5, <2>1, PointsAssumption DEF Stones
<1>7. ASSUME NEW h \in X, NEW p \in h, p \in T PROVE h \subseteq T
  <2>1. h \in Chains(from, c)
    BY DEF KeepEachOther
  <2>2. h \subseteq Points /\ h = StringAt(from, p) /\ p \in Points /\ from[p] = c
    BY <2>1, ChainFacts DEF Stones
  <2>3. Closed(Stones(from, from[p]), h \cap T)
    <3> SUFFICES ASSUME NEW q \in Stones(from, c), NEW z \in h \cap T, z \in Neighbors[q]
                 PROVE  q \in h \cap T
      BY <2>2 DEF Closed
    <3>1. q \in h
      BY <2>1, ChainFacts DEF Closed
    <3>2. q \in Points \ Stones(now, o)
      BY <1>1, <2>2, <3>1 DEF Reached, Stones
    <3> QED BY <1>5, <3>1, <3>2 DEF Closed
  <2>4. StringAt(from, p) \subseteq h \cap T
    BY <1>7, <2>2, <2>3, StringIsLeast
  <2> QED BY <2>2, <2>4
<1>8. PICK h \in X : h \subseteq T
  <2>1. CASE t \in r
    <3>1. t \in Points /\ now[t] # o /\ from[t] # c
      BY <1>4, <1>5, <2>1 DEF Stones
    <3>2. now[t] = "empty" /\ from[t] = "empty"
      BY <1>1, <3>1 DEF Reached, BoardType, o
    <3>3. PICK z \in k : t \in Neighbors[z]
      BY <2>1, <3>1, <3>2 DEF IsVital, Touching, Stones
    <3>4. z \in Points /\ now[z] = c
      BY ChainFacts DEF KeepEachOther, Reached
    <3>5. t \in Neighbors[z] /\ z \in Points \ Stones(now, o)
      BY <1>1, <3>3, <3>4 DEF Stones
    <3>6. z \in T
      BY <1>5, <3>5 DEF Closed
    <3> QED BY <1>7, <3>6
  <2>2. CASE t \notin r
    <3>1. t \in Touching(r)
      BY <1>3, <1>6 DEF Touching
    <3>2. PICK h \in X : t \in h
      BY <2>2, <3>1, Border
    <3> QED BY <1>7, <3>2
  <2> QED BY <2>1, <2>2
<1>9. PICK s \in R : s # r /\ IsVital(from, s, h)
  BY DEF KeepEachOther
<1>10. PICK e \in s : e \in Points /\ now[e] = "empty" /\ e \in Touching(h)
  BY <1>9, RegionHasRoom
<1>11. e \in T
  <2>1. PICK z \in h : e \in Neighbors[z]
    BY <1>10 DEF Touching
  <2>2. z \in T /\ z \in Points
    BY <1>5, <1>8, <2>1
  <2>3. z \in Neighbors[e]
    BY <1>10, <2>1, <2>2, PointsAssumption
  <2>4. e \in Points \ Stones(now, o)
    BY <1>1, <1>10 DEF Stones
  <2> QED BY <1>5, <2>2, <2>3, <2>4 DEF Closed
<1>12. PICK z \in K : e \in Neighbors[z]
  BY <1>10, <1>11 DEF IsVital, Touching, Stones
<1>13. e \in r
  <2>1. z \in r /\ z \in Points
    BY <1>3, <1>4, <1>12
  <2>2. z \in Neighbors[e]
    BY <1>10, <1>12, <2>1, PointsAssumption
  <2>3. e \in Points \ Stones(from, c)
    BY RegionFacts DEF KeepEachOther
  <2> QED BY <1>4, <2>1, <2>2, <2>3 DEF Closed
<1>14. r \cap s # {} /\ s \in Regions(from, c)
  BY <1>13 DEF KeepEachOther
<1> QED BY <1>4, <1>9, <1>14, RegionFacts

-----------------------------------------------------------------------------
(* The invariant: after the analysis the board is one that was reached     *)
(* from the one analyzed, for all chains and regions that kept each other  *)
(* there.                                                                  *)
IsPosition(Q) == Q = PositionOf(Q.board, Q.ko, Q.captured, Q.hash)

Analyzed ==
    /\ verdict.from.board \in BoardType
    /\ verdict.benson = BensonVerdict(verdict.from.board, color)
    /\ \A X \in SUBSET Chains(verdict.from.board, color), R \in SUBSET Regions(verdict.from.board, color) :
          KeepEachOther(verdict.from.board, color, X, R) => Reached(verdict.from.board, P.board, color, X)

LifeInv ==
    /\ color \in Colors
    /\ IsPosition(P) /\ P.board \in BoardType /\ NoDeadStrings(P.board)
    /\ verdict = NotYet \/ Analyzed

LEMMA LifeInvInit == LifeInit => LifeInv
<1> SUFFICES ASSUME LifeInit PROVE LifeInv
  OBVIOUS
<1>1. PICK start \in StartPositions :
         P = [board |-> start.board, ko |-> start.ko, captured |-> [d \in Colors |-> 0],
              hash |-> HashRecalc(start.board, start.ko)]
  BY DEF LifeInit
<1>2. P.board = start.board /\ IsPosition(P)
  BY <1>1 DEF IsPosition, PositionOf
<1> QED BY <1>2, LifeAssumption DEF LifeInit, LifeInv, BoardType

(* A move that ignores the ko, or none.                                    *)
LEMMA TryKoIs ==
  ASSUME NEW Q, IsPosition(Q), NEW loc, NEW c, NEW S, S = TryKo(Q, loc, c)
  PROVE  \/ S = Q
         \/ /\ Q.board[loc] = "empty" /\ ~IsSuicide(Q.board, loc, c)
            /\ IsPosition(S) /\ S.board = BoardAfter(Q.board, loc, c)
<1>1. CASE Q.board[loc] # "empty" \/ IsSuicide(Q.board, loc, c)
  BY <1>1 DEF TryKo
<1>2. CASE Q.board[loc] = "empty" /\ ~IsSuicide(Q.board, loc, c)
  <2> PICK b, k, cap, h : b = Q.board /\ k = Q.ko /\ cap = Q.captured /\ h = Q.hash
    OBVIOUS
  <2>1. Q = PositionOf(b, k, cap, h)
    BY DEF IsPosition
  <2>2. KoCleared(Q) = PositionOf(b, NoMove, cap, SymDiff(h, KoPart(k)))
    BY <2>1, KoClearedIs
  <2>3. PICK k2, cap2, h2 : DoPlayMove(KoCleared(Q), loc, c) = PositionOf(BoardAfter(b, loc, c), k2, cap2, h2)
    BY <2>2, DoPlayMoveIs
  <2>4. S = PositionOf(BoardAfter(b, loc, c), k2, cap2, h2)
    BY <1>2, <2>3 DEF TryKo
  <2>5. IsPosition(S) /\ S.board = BoardAfter(b, loc, c)
    BY <2>4, Parts DEF IsPosition
  <2> QED BY <1>2, <2>5
<1> QED BY <1>1, <1>2

(* The board that was analyzed is reached from itself.                     *)
LEMMA ReachedAtOnce ==
  ASSUME NEW b \in BoardType, NoDeadStrings(b), NEW c, NEW X, NEW R, KeepEachOther(b, c, X, R)
  PROVE  Reached(b, b, c, X)
<1>1. \A k \in X : \A p \in k : b[p] = c
  BY ChainFacts DEF KeepEachOther, Stones
<1> QED BY <1>1 DEF Reached

LEMMA LifeInvStep == LifeInv /\ [LifeNext]_lifeVars => LifeInv'
<1> SUFFICES ASSUME LifeInv, [LifeNext]_lifeVars PROVE LifeInv'
  OBVIOUS
<1>1. ASSUME Analyze PROVE LifeInv'
  <2>1. P' = P /\ color' = color
    BY <1>1 DEF Analyze
  <2>2. verdict'.from = P /\ verdict'.benson = BensonVerdict(P.board, color)
    BY <1>1 DEF Analyze
  <2>3. P.board \in BoardType /\ NoDeadStrings(P.board)
    BY DEF LifeInv
  <2>4. \A X, R : KeepEachOther(P.board, color, X, R) => Reached(P.board, P.board, color, X)
    BY <2>3, ReachedAtOnce
  <2>5. Analyzed'
    BY <2>1, <2>2, <2>3, <2>4 DEF Analyzed
  <2> QED BY <2>1, <2>5 DEF LifeInv
<1>2. ASSUME OpponentPlaysOn PROVE LifeInv'
  <2>1. verdict' = verdict /\ color' = color /\ color \in Colors /\ Other(color) \in Colors
    BY <1>2, OthersColor DEF OpponentPlaysOn, LifeInv
  <2>2. verdict.done
    BY <1>2 DEF OpponentPlaysOn
  <2>3. Analyzed
    BY <2>2 DEF LifeInv, NotYet
  <2>4. PICK loc \in Points : P' = TryKo(P, loc, Other(color)) /\ P' # P
    BY <1>2 DEF OpponentPlaysOn
  <2>5. /\ P.board[loc] = "empty" /\ ~IsSuicide(P.board, loc, Other(color))
        /\ IsPosition(P') /\ P'.board = BoardAfter(P.board, loc, Other(color))
    BY <2>4, TryKoIs DEF LifeInv
  <2>6. P.board \in BoardType /\ NoDeadStrings(P.board)
    BY DEF LifeInv
  <2> DEFINE from == verdict.from.board
  <2>7. ASSUME NEW X \in SUBSET Chains(from, color), NEW R \in SUBSET Regions(from, color),
               KeepEachOther(from, color, X, R)
        PROVE  Reached(from, P'.board, color, X)
    BY <2>1, <2>3, <2>5, <2>7, MoveReaches DEF Analyzed
  <2>8. Analyzed'
    BY <2>1, <2>3, <2>7 DEF Analyzed
  <2>9. P'.board \in BoardType /\ NoDeadStrings(P'.board)
    <3>1. NoDeadStrings(P'.board)
      BY <2>1, <2>5, <2>6, PlayShape
    <3>2. P'.board \in BoardType
      BY <2>1, <2>5, <2>6 DEF BoardAfter, Cleared, Put, BoardType
    <3> QED BY <3>1, <3>2
  <2> QED BY <2>1, <2>5, <2>8, <2>9 DEF LifeInv
<1>3. CASE UNCHANGED lifeVars
  BY <1>3 DEF lifeVars, LifeInv, Analyzed, IsPosition
<1> QED BY <1>1, <1>2, <1>3 DEF LifeNext

(* Whatever the opponent plays, and however often, the board is one that   *)
(* was reached from the one analyzed.                                      *)
THEOREM LifeInvariance == LifeSpec => []LifeInv
<1> QED BY LifeInvInit, LifeInvStep, PTL DEF LifeSpec

(* What the invariant says of the verdict.                                 *)
LEMMA VerdictStands ==
  ASSUME LifeInv, verdict.done
  PROVE  \E X, R : /\ KeepEachOther(verdict.from.board, color, X, R)
                   /\ Reached(verdict.from.board, P.board, color, X)
                   /\ verdict.benson = VerdictOf(verdict.from.board, X, R)
                   /\ verdict.from.board \in BoardType
<1>1. Analyzed
  BY DEF LifeInv, NotYet
<1> PICK from : from = verdict.from.board
  OBVIOUS
<1>2. PICK X, R : KeepEachOther(from, color, X, R) /\ BensonVerdict(from, color) = VerdictOf(from, X, R)
  BY BensonKeeps
<1>3. X \in SUBSET Chains(from, color) /\ R \in SUBSET Regions(from, color)
  BY <1>2 DEF KeepEachOther
<1> QED BY <1>1, <1>2, <1>3 DEF Analyzed

(* "Mark owner[loc]=c for colour c's pass-alive stones": no move of the    *)
(* opponent takes a stone that mc_benson_color calls alive.                *)
BensonCannotBeCaptured == verdict.done => \A p \in verdict.benson.alive : P.board[p] = color

THEOREM BensonCannotBeCapturedAlways == LifeSpec => []BensonCannotBeCaptured
<1>1. LifeInv => BensonCannotBeCaptured
  <2> SUFFICES ASSUME LifeInv, verdict.done, NEW p \in verdict.benson.alive PROVE P.board[p] = color
    BY DEF BensonCannotBeCaptured
  <2>1. PICK X, R : /\ Reached(verdict.from.board, P.board, color, X)
                    /\ verdict.benson = VerdictOf(verdict.from.board, X, R)
    BY VerdictStands
  <2>2. PICK k \in X : p \in k
    BY <2>1 DEF VerdictOf
  <2> QED BY <2>1, <2>2 DEF Reached
<1> QED BY <1>1, LifeInvariance, PTL

(* What the two algorithms agree on, unconditional_life by playing and     *)
(* mc_benson_color by counting, cannot be captured.                        *)
THEOREM AliveCannotBeCapturedAlways == LifeSpec => [](AlgorithmsAgree => AliveCannotBeCaptured)
<1>1. BensonCannotBeCaptured /\ AlgorithmsAgree => AliveCannotBeCaptured
  BY DEF BensonCannotBeCaptured, AlgorithmsAgree, AliveCannotBeCaptured
<1> QED BY <1>1, BensonCannotBeCapturedAlways, PTL

(* "plus their enclosed territory": however the opponent plays there, no   *)
(* string of his on it is alive in the same sense.                         *)
BensonTerritoryStaysDead ==
    verdict.done => verdict.benson.territory \cap BensonVerdict(P.board, Other(color)).alive = {}

THEOREM BensonTerritoryStaysDeadAlways == LifeSpec => []BensonTerritoryStaysDead
<1>1. LifeInv => BensonTerritoryStaysDead
  <2> SUFFICES ASSUME LifeInv, verdict.done, NEW x \in verdict.benson.territory,
                      x \in BensonVerdict(P.board, Other(color)).alive
               PROVE  FALSE
    BY DEF BensonTerritoryStaysDead
  <2> PICK from, now : from = verdict.from.board /\ now = P.board
    OBVIOUS
  <2>1. PICK X, R : /\ KeepEachOther(from, color, X, R) /\ Reached(from, now, color, X)
                    /\ verdict.benson = VerdictOf(from, X, R) /\ from \in BoardType
    BY VerdictStands
  <2>2. PICK r \in R, k \in X : x \in r /\ IsVital(from, r, k)
    BY <2>1 DEF VerdictOf
  <2>3. PICK Y, S : /\ KeepEachOther(now, Other(color), Y, S)
                    /\ BensonVerdict(now, Other(color)) = VerdictOf(now, Y, S)
    BY BensonKeeps
  <2>4. PICK K \in Y : x \in K
    BY <2>3 DEF VerdictOf
  <2>5. PICK T \in S : IsVital(now, T, K)
    BY <2>3, <2>4 DEF KeepEachOther
  <2>6. K \in Chains(now, Other(color)) /\ T \in Regions(now, Other(color)) /\ color \in Colors
    BY <2>3, <2>4, <2>5 DEF KeepEachOther, LifeInv
  <2> QED BY <2>1, <2>2, <2>4, <2>5, <2>6, NoLifeInside
<1> QED BY <1>1, LifeInvariance, PTL

-----------------------------------------------------------------------------
(* Part three: McBoard.  Rings that are read both ways, as the liberty     *)
(* edges of a string are; no edges, no first one.                          *)
Looped(next, prev, f, E) ==
    IF E = {} THEN f = NoEdge
    ELSE Ring(next, f, E) /\ \A x \in E : prev[next[x]] = x

LEMMA LoopedSame ==
  ASSUME NEW next, NEW prev, NEW f, NEW E, Looped(next, prev, f, E), NEW next2, NEW prev2,
         \A x \in E : next2[x] = next[x] /\ prev2[x] = prev[x]
  PROVE  Looped(next2, prev2, f, E)
<1>1. CASE E = {}
  BY <1>1 DEF Looped
<1>2. CASE E # {}
  <2>1. Ring(next, f, E) /\ f \in E /\ \A x \in E : prev[next[x]] = x /\ next[x] \in E
    BY <1>2 DEF Looped, Ring, Onward
  <2>2. Ring(next2, f, E)
    BY <2>1, RingSame
  <2>3. \A x \in E : prev2[next2[x]] = x
    BY <2>1
  <2> QED BY <1>2, <2>2, <2>3 DEF Looped
<1> QED BY <1>1, <1>2

(* Every member of a ring comes after one.                                 *)
LEMMA RingBefore ==
  ASSUME NEW next, NEW o, NEW S, Ring(next, o, S), NEW q \in S
  PROVE  \E p \in S : next[p] = q
<1> SUFFICES ASSUME \A p \in S : next[p] # q PROVE FALSE
  OBVIOUS
<1> DEFINE Y == S \ {q}
<1>1. Onward(next, Y)
  BY DEF Ring, Onward
<1>2. Y # {}
  BY DEF Ring, Onward
<1>3. Y = S
  BY <1>1, <1>2 DEF Ring
<1> QED BY <1>3

LEMMA LoopedOne ==
  ASSUME NEW next, NEW prev, NEW e, next[e] = e, prev[e] = e
  PROVE  Looped(next, prev, e, {e})
<1>1. Ring(next, e, {e})
  BY RingOfOne
<1> QED BY <1>1 DEF Looped

(* Two rings joined, a member put in, a member left out.                   *)
Spliced(next, prev, f1, f2, E, next2, prev2) ==
    /\ next2[f1] = next[f2] /\ next2[f2] = next[f1] /\ \A x \in E : x \notin {f1, f2} => next2[x] = next[x]
    /\ prev2[next[f1]] = f2 /\ prev2[next[f2]] = f1
    /\ \A x \in E : x \notin {next[f1], next[f2]} => prev2[x] = prev[x]

Inserted(next, prev, f, E, e, next2, prev2) ==
    /\ next2[e] = next[f] /\ next2[f] = e /\ \A x \in E : x # f => next2[x] = next[x]
    /\ prev2[e] = f /\ prev2[next[f]] = e /\ \A x \in E : x # next[f] => prev2[x] = prev[x]

Deleted(next, prev, E, e, next2, prev2) ==
    /\ next2[prev[e]] = next[e] /\ \A x \in E : x # prev[e] => next2[x] = next[x]
    /\ prev2[next[e]] = prev[e] /\ \A x \in E : x # next[e] => prev2[x] = prev[x]

LEMMA LoopedJoin ==
  ASSUME NEW next, NEW prev, NEW f1, NEW E1, NEW f2, NEW E2, E1 # {}, E2 # {}, E1 \cap E2 = {},
         Looped(next, prev, f1, E1), Looped(next, prev, f2, E2), NEW next2, NEW prev2,
         Spliced(next, prev, f1, f2, E1 \cup E2, next2, prev2), NEW f \in E1 \cup E2
  PROVE  Looped(next2, prev2, f, E1 \cup E2)
<1> USE DEF Spliced
<1>1. /\ Ring(next, f1, E1) /\ f1 \in E1 /\ \A x \in E1 : prev[next[x]] = x /\ next[x] \in E1
      /\ Ring(next, f2, E2) /\ f2 \in E2 /\ \A x \in E2 : prev[next[x]] = x /\ next[x] \in E2
  BY DEF Looped, Ring, Onward
<1>2. Ring(next2, f, E1 \cup E2)
  BY <1>1, RingsLinked
<1>3. ASSUME NEW x \in E1 \cup E2 PROVE prev2[next2[x]] = x
  <2>1. CASE x = f1 \/ x = f2
    BY <2>1
  <2>2. CASE x # f1 /\ x # f2
    <3>1. next2[x] = next[x] /\ next[x] \in E1 \cup E2 /\ prev[next[x]] = x
      BY <1>1, <2>2
    <3>2. next[x] # next[f1] /\ next[x] # next[f2]
      BY <1>1, <2>2, <3>1
    <3> QED BY <3>1, <3>2
  <2> QED BY <2>1, <2>2
<1> QED BY <1>2, <1>3 DEF Looped

LEMMA LoopedInsert ==
  ASSUME NEW next, NEW prev, NEW f, NEW E, E # {}, Looped(next, prev, f, E), NEW e, e \notin E,
         NEW next2, NEW prev2, Inserted(next, prev, f, E, e, next2, prev2)
  PROVE  Looped(next2, prev2, f, E \cup {e})
<1> DEFINE n == [x \in E \cup {e} |-> IF x = e THEN e ELSE next[x]]
           p == [x \in E \cup {e} |-> IF x = e THEN e ELSE prev[x]]
<1>1. Ring(next, f, E) /\ f \in E /\ \A x \in E : next[x] \in E
  BY DEF Looped, Ring, Onward
<1>2. Looped(n, p, f, E)
  <2>1. \A x \in E : n[x] = next[x] /\ p[x] = prev[x]
    OBVIOUS
  <2> HIDE DEF n, p
  <2> QED BY <2>1, LoopedSame
<1>3. n[e] = e /\ p[e] = e /\ \A x \in E : n[x] = next[x] /\ p[x] = prev[x]
  OBVIOUS
<1> HIDE DEF n, p
<1>4. Looped(n, p, e, {e})
  BY <1>3, LoopedOne
<1>5. E \cap {e} = {} /\ {e} # {} /\ f \in E \cup {e}
  BY <1>1
<1>6. Spliced(n, p, f, e, E \cup {e}, next2, prev2)
  BY <1>1, <1>3 DEF Spliced, Inserted
<1> QED BY <1>2, <1>4, <1>5, <1>6, LoopedJoin

LEMMA LoopedDelete ==
  ASSUME NEW next, NEW prev, NEW f, NEW E, Looped(next, prev, f, E), NEW e \in E, next[e] # e,
         NEW next2, NEW prev2, Deleted(next, prev, E, e, next2, prev2),
         NEW g, g = IF f = e THEN next[e] ELSE f
  PROVE  Looped(next2, prev2, g, E \ {e}) /\ E \ {e} # {}
<1> USE DEF Deleted
<1>1. Ring(next, f, E) /\ f \in E /\ \A x \in E : prev[next[x]] = x /\ next[x] \in E
  BY DEF Looped, Ring, Onward
<1>2. prev[e] \in E /\ next[prev[e]] = e /\ prev[e] # e
  <2>1. PICK p \in E : next[p] = e
    BY <1>1, RingBefore
  <2> QED BY <1>1, <2>1
<1> DEFINE F == E \ {e}
<1>3. g \in F /\ Onward(next2, F)
  <2>1. ASSUME NEW x \in F PROVE next2[x] \in F
    <3>1. CASE x = prev[e]
      BY <1>1, <3>1
    <3>2. CASE x # prev[e]
      <4>1. next2[x] = next[x] /\ next[x] \in E /\ next[x] # e
        BY <1>1, <1>2, <3>2
      <4> QED BY <4>1
    <3> QED BY <3>1, <3>2
  <2> QED BY <1>1, <2>1 DEF Onward
<1>4. ASSUME NEW Y \in SUBSET F, Y # {}, Onward(next2, Y) PROVE Y = F
  <2>1. CASE prev[e] \in Y
    <3> DEFINE Z == Y \cup {e}
    <3>1. Onward(next, Z)
      <4>1. ASSUME NEW x \in Z PROVE next[x] \in Z
        <5>1. CASE x = e
          BY <1>4, <2>1, <5>1 DEF Onward
        <5>2. CASE x = prev[e]
          BY <1>2, <5>2
        <5>3. CASE x # e /\ x # prev[e]
          BY <1>4, <5>3 DEF Onward
        <5> QED BY <5>1, <5>2, <5>3
      <4> QED BY <4>1 DEF Onward
    <3>2. Z = E
      BY <1>1, <3>1 DEF Ring
    <3> QED BY <3>2
  <2>2. CASE prev[e] \notin Y
    <3>1. Onward(next, Y)
      BY <1>4, <2>2 DEF Onward
    <3>2. Y = E
      BY <1>1, <1>4, <3>1 DEF Ring
    <3> QED BY <3>2
  <2> QED BY <2>1, <2>2
<1>5. ASSUME NEW x \in F PROVE prev2[next2[x]] = x
  <2>1. CASE x = prev[e]
    BY <2>1
  <2>2. CASE x # prev[e]
    <3>1. next2[x] = next[x] /\ next[x] \in E /\ prev[next[x]] = x /\ x # e
      BY <1>1, <2>2
    <3>2. next[x] # next[e]
      BY <1>1, <3>1
    <3> QED BY <3>1, <3>2
  <2> QED BY <2>1, <2>2
<1> QED BY <1>3, <1>4, <1>5 DEF Looped, Ring

(* The parts of an mc_board.                                               *)
McFields == {"board", "ko", "hash", "queue", "ref", "next", "first", "nextE", "prevE", "seen", "context", "values"}
Record(m) == m = [f \in McFields |-> m[f]]

McShape(m) ==
    /\ Record(m) /\ m.board \in BoardType
    /\ m.ref \in [Points -> Points \cup {NoMove}] /\ m.next \in [Points -> Points]
    /\ m.first \in [Points -> Edges \cup {NoEdge}]
    /\ m.nextE \in [Edges -> Edges] /\ m.prevE \in [Edges -> Edges]
    /\ m.seen \in [Points -> SUBSET (Points \X Colors)]

(* K differs from m in the parts F only.                                   *)
SameBut(F, m, K) == Record(K) /\ \A f \in McFields \ F : K[f] = m[f]

LEMMA ShapeKept ==
  ASSUME NEW m, McShape(m), NEW K, SameBut({"ko", "hash", "queue", "context", "values"}, m, K)
  PROVE  McShape(K)
BY DEF McShape, SameBut, McFields

LEMMA EdgeFacts ==
  ASSUME NEW e
  PROVE  e \in Edges <=> e = <<e[1], e[2]>> /\ e[1] \in Points /\ e[2] \in Neighbors[e[1]]
BY DEF Edges

LEMMA EdgePoints ==
  ASSUME NEW e \in Edges
  PROVE  e = <<e[1], e[2]>> /\ e[1] \in Points /\ e[2] \in Points /\ e[2] \in Neighbors[e[1]] /\ e[1] \in Neighbors[e[2]]
<1>1. e = <<e[1], e[2]>> /\ e[1] \in Points /\ e[2] \in Neighbors[e[1]]
  BY EdgeFacts
<1> QED BY <1>1, PointsAssumption

LEMMA EdgesFinite == IsFiniteSet(Edges) /\ NoEdge \notin Edges
<1>1. Edges \subseteq Points \X Points
  BY PointsAssumption DEF Edges
<1>2. IsFiniteSet(Points \X Points)
  BY PointsAssumption, FS_Product
<1>3. IsFiniteSet(Edges)
  BY <1>1, <1>2, FS_Subset
<1>4. \A e \in Edges : e[1] # NoMove
  BY EdgePoints, PointsAssumption
<1>5. NoEdge[1] = NoMove
  BY DEF NoEdge
<1> QED BY <1>3, <1>4, <1>5

LEMMA EnqueuedIs ==
  ASSUME NEW m, Record(m), NEW S, NEW K, K = Enqueued(m, S)
  PROVE  SameBut({"queue"}, m, K) /\ K.queue = m.queue \cup S
BY DEF Enqueued, Record, SameBut, McFields

LEMMA QueueMaxTwoIs ==
  ASSUME NEW m, Record(m), NEW str, NEW K, K = QueueMaxTwoLiberties(m, str)
  PROVE  /\ SameBut({"queue"}, m, K) /\ m.queue \subseteq K.queue
         /\ Cardinality(LibertiesFrom(m, str)) <= 2 => K.queue = m.queue \cup LibertiesFrom(m, str)
<1>1. CASE Cardinality(LibertiesFrom(m, str)) <= 2
  BY <1>1, EnqueuedIs DEF QueueMaxTwoLiberties
<1>2. CASE ~(Cardinality(LibertiesFrom(m, str)) <= 2)
  BY <1>2 DEF QueueMaxTwoLiberties, SameBut, Record
<1> QED BY <1>1, <1>2

(* The liberty edges of the stones with reference r, of the edges X.       *)
Hung(m, X, r) == {e \in X : m.ref[e[2]] = r}
Live(m) == {p \in Points : m.board[p] # "empty"}
Together(m, p) == {q \in Live(m) : m.ref[q] = m.ref[p]}

StonesWired(m) ==
    \A p \in Live(m) : m.ref[p] \in Together(m, p) /\ Ring(m.next, p, Together(m, p))
EdgesWired(m, X) ==
    /\ X \in SUBSET Edges /\ \A e \in X : e[2] \in Live(m)
    /\ \A p \in Live(m) : /\ m.ref[p] \in Points
                          /\ Looped(m.nextE, m.prevE, m.first[m.ref[p]], Hung(m, X, m.ref[p]))

(* mc_add_liberty_edge hangs one edge on the ring of its stone.            *)
AddEdgeTo(m, r, e, K) ==
    LET f == m.first[r] IN
    /\ SameBut({"first", "nextE", "prevE"}, m, K) /\ McShape(K)
    /\ f = NoEdge => /\ K.first = [m.first EXCEPT ![r] = e]
                     /\ K.nextE = [m.nextE EXCEPT ![e] = e] /\ K.prevE = [m.prevE EXCEPT ![e] = e]
    /\ f # NoEdge => /\ K.first = m.first /\ K.nextE = [m.nextE EXCEPT ![e] = m.nextE[f], ![f] = e]
                     /\ K.prevE = [m.prevE EXCEPT ![e] = f, ![m.nextE[f]] = e]

LEMMA AddEdgeIs ==
  ASSUME NEW m, McShape(m), NEW loc, NEW lib, NEW e, e = <<lib, loc>>, e \in Edges,
         NEW r, r = m.ref[loc], r \in Points, NEW K, K = AddEdge(m, loc, lib)
  PROVE  AddEdgeTo(m, r, e, K)
<1> DEFINE f == m.first[r]
<1>1. f \in Edges \cup {NoEdge} /\ Record(m)
  BY DEF McShape
<1>2. CASE f = NoEdge
  <2>1. K = [m EXCEPT !.first[r] = e, !.nextE[e] = e, !.prevE[e] = e]
    BY <1>2 DEF AddEdge
  <2>2. SameBut({"first", "nextE", "prevE"}, m, K)
    BY <1>1, <2>1 DEF SameBut, Record, McFields
  <2>3. /\ K.first = [m.first EXCEPT ![r] = e]
        /\ K.nextE = [m.nextE EXCEPT ![e] = e] /\ K.prevE = [m.prevE EXCEPT ![e] = e]
    BY <1>1, <2>1 DEF Record, McFields
  <2>4. McShape(K)
    BY <2>2, <2>3 DEF McShape, SameBut, McFields
  <2> QED BY <1>2, <2>2, <2>3, <2>4 DEF AddEdgeTo
<1>3. CASE f # NoEdge
  <2>1. K = [m EXCEPT !.nextE = [@ EXCEPT ![e] = m.nextE[f], ![f] = e],
                      !.prevE = [@ EXCEPT ![e] = f, ![m.nextE[f]] = e]]
    BY <1>3 DEF AddEdge
  <2>2. SameBut({"first", "nextE", "prevE"}, m, K)
    BY <1>1, <2>1 DEF SameBut, Record, McFields
  <2>3. /\ K.first = m.first /\ K.nextE = [m.nextE EXCEPT ![e] = m.nextE[f], ![f] = e]
        /\ K.prevE = [m.prevE EXCEPT ![e] = f, ![m.nextE[f]] = e]
    BY <1>1, <2>1 DEF Record, McFields
  <2>4. f \in Edges /\ m.nextE \in [Edges -> Edges] /\ m.prevE \in [Edges -> Edges]
    BY <1>1, <1>3 DEF McShape
  <2>5. m.nextE[f] \in Edges
    BY <2>4
  <2> HIDE DEF f
  <2>6. K.nextE \in [Edges -> Edges] /\ K.prevE \in [Edges -> Edges]
    BY <2>3, <2>4, <2>5
  <2>7. McShape(K)
    BY <2>2, <2>3, <2>6 DEF McShape, SameBut, McFields
  <2> QED BY <1>3, <2>2, <2>3, <2>7 DEF AddEdgeTo, f
<1> QED BY <1>2, <1>3

LEMMA AddEdgeWires ==
  ASSUME NEW m, McShape(m), NEW X, EdgesWired(m, X), NEW e \in Edges, e \notin X, e[2] \in Live(m),
         NEW r, r = m.ref[e[2]], NEW K, AddEdgeTo(m, r, e, K)
  PROVE  EdgesWired(K, X \cup {e})
<1> DEFINE f == m.first[r]
           E == Hung(m, X, r)
           n == m.nextE
           p == m.prevE
<1>1. K.ref = m.ref /\ K.board = m.board /\ Live(K) = Live(m)
  BY DEF AddEdgeTo, SameBut, McFields, Live
<1>2. \A q \in Live(m) : m.ref[q] \in Points /\ Looped(n, p, m.first[m.ref[q]], Hung(m, X, m.ref[q]))
  BY DEF EdgesWired
<1>3. e[2] \in Live(m) /\ X \in SUBSET Edges /\ Looped(n, p, f, E) /\ e \notin E /\ E \in SUBSET Edges
  BY <1>2 DEF EdgesWired, Hung
<1>4. n \in [Edges -> Edges] /\ p \in [Edges -> Edges]
  BY DEF McShape
<1>5. E = {} <=> f = NoEdge
  BY <1>3, EdgesFinite DEF Looped, Ring
<1>6. ASSUME NEW q \in Live(m), m.ref[q] # r
      PROVE  Looped(K.nextE, K.prevE, K.first[m.ref[q]], Hung(K, X \cup {e}, m.ref[q]))
  <2> DEFINE E2 == Hung(m, X, m.ref[q])
  <2>1. Hung(K, X \cup {e}, m.ref[q]) = E2
    BY <1>1, <1>6 DEF Hung
  <2>2. Looped(n, p, m.first[m.ref[q]], E2) /\ E2 \cap E = {} /\ e \notin E2 /\ E2 \in SUBSET Edges
    BY <1>2, <1>3, <1>6 DEF Hung
  <2>3. K.first[m.ref[q]] = m.first[m.ref[q]]
    BY <1>2, <1>6 DEF AddEdgeTo, McShape
  <2>4. ASSUME NEW x \in E2 PROVE K.nextE[x] = n[x] /\ K.prevE[x] = p[x]
    <3>1. CASE f = NoEdge
      BY <1>4, <2>2, <2>4, <3>1 DEF AddEdgeTo
    <3>2. CASE f # NoEdge
      <4>1. f \in E /\ n[f] \in E
        BY <1>3, <1>5, <3>2 DEF Looped, Ring, Onward
      <4>2. x # e /\ x # f /\ x # n[f] /\ x \in Edges
        BY <2>2, <2>4, <4>1
      <4> QED BY <1>4, <3>2, <4>2 DEF AddEdgeTo
    <3> QED BY <3>1, <3>2
  <2> HIDE DEF E2, n, p
  <2>5. Looped(K.nextE, K.prevE, m.first[m.ref[q]], E2)
    BY <2>2, <2>4, LoopedSame
  <2> QED BY <2>1, <2>3, <2>5
<1>7. Hung(K, X \cup {e}, r) = E \cup {e}
  BY <1>1 DEF Hung
<1>8. Looped(K.nextE, K.prevE, K.first[r], E \cup {e})
  <2>1. CASE f = NoEdge
    <3>1. K.nextE[e] = e /\ K.prevE[e] = e
      BY <1>4, <2>1 DEF AddEdgeTo
    <3>2. Looped(K.nextE, K.prevE, e, {e})
      BY <3>1, LoopedOne
    <3>3. K.first[r] = e
      BY <1>2, <2>1 DEF AddEdgeTo, McShape
    <3> QED BY <1>5, <2>1, <3>2, <3>3
  <2>2. CASE f # NoEdge
    <3>1. E # {} /\ f \in E /\ n[f] \in E
      BY <1>3, <1>5, <2>2 DEF Looped, Ring, Onward
    <3>2. K.first[r] = f /\ K.nextE = [n EXCEPT ![e] = n[f], ![f] = e] /\ K.prevE = [p EXCEPT ![e] = f, ![n[f]] = e]
      BY <2>2 DEF AddEdgeTo
    <3>3. f # e /\ n[f] # e /\ f \in Edges /\ n[f] \in Edges
      BY <1>3, <3>1
    <3> HIDE DEF f, E, n, p
    <3>4. Inserted(n, p, f, E, e, K.nextE, K.prevE)
      BY <1>3, <1>4, <3>2, <3>3 DEF Inserted
    <3>5. Looped(K.nextE, K.prevE, f, E \cup {e})
      BY <1>3, <3>1, <3>4, LoopedInsert
    <3> QED BY <3>2, <3>5
  <2> QED BY <2>1, <2>2
<1>9. X \cup {e} \in SUBSET Edges /\ \A x \in X \cup {e} : x[2] \in Live(K)
  BY <1>1, <1>3 DEF EdgesWired
<1>10. \A q \in Live(K) : K.ref[q] \in Points /\ Looped(K.nextE, K.prevE, K.first[K.ref[q]], Hung(K, X \cup {e}, K.ref[q]))
  BY <1>1, <1>2, <1>6, <1>7, <1>8
<1> QED BY <1>9, <1>10 DEF EdgesWired

(* mc_remove_liberty_edge takes one off, and finds out when it was the     *)
(* last one.                                                               *)
LEMMA RemoveEdgeWires ==
  ASSUME NEW m, McShape(m), NEW X, EdgesWired(m, X), NEW e \in X, NEW r, r = m.ref[e[2]],
         NEW K, K = RemoveEdge(m, e[2], e[1])
  PROVE  /\ SameBut({"first", "nextE", "prevE"}, m, K) /\ McShape(K) /\ EdgesWired(K, X \ {e})
         /\ LastEdge(m, e[2], e[1]) <=> Hung(m, X, r) = {e}
<1> DEFINE f == m.first[r]
           E == Hung(m, X, r)
           n == m.nextE
           p == m.prevE
           last == LastEdge(m, e[2], e[1])
<1>1. /\ e \in Edges /\ e = <<e[1], e[2]>> /\ e[2] \in Live(m) /\ X \in SUBSET Edges /\ Record(m)
      /\ n \in [Edges -> Edges] /\ p \in [Edges -> Edges]
  BY EdgePoints DEF EdgesWired, McShape
<1>2. \A q \in Live(m) : m.ref[q] \in Points /\ Looped(n, p, m.first[m.ref[q]], Hung(m, X, m.ref[q]))
  BY DEF EdgesWired
<1>3. Looped(n, p, f, E) /\ e \in E /\ E \in SUBSET Edges /\ r \in Points
  BY <1>1, <1>2 DEF Hung
<1>4. Ring(n, f, E) /\ f \in E /\ \A x \in E : n[x] \in E /\ p[n[x]] = x
  BY <1>3 DEF Looped, Ring, Onward
<1>5. last <=> n[e] = e
  BY <1>1 DEF LastEdge
<1>6. n[e] = e <=> E = {e}
  <2>1. ASSUME n[e] = e PROVE E = {e}
    <3>1. Onward(n, {e}) /\ {e} \in SUBSET E
      BY <1>3, <2>1 DEF Onward
    <3> QED BY <1>4, <3>1 DEF Ring
  <2>2. ASSUME E = {e} PROVE n[e] = e
    BY <1>4, <2>2
  <2> QED BY <2>1, <2>2
<1>7. p[e] \in E /\ n[p[e]] = e
  <2>1. PICK q \in E : n[q] = e
    BY <1>3, <1>4, RingBefore
  <2> QED BY <1>4, <2>1
<1>8. CASE n[e] = e
  <2>1. K = [m EXCEPT !.first[r] = NoEdge]
    BY <1>1, <1>5, <1>8 DEF RemoveEdge
  <2>2. SameBut({"first", "nextE", "prevE"}, m, K) /\ K.first = [m.first EXCEPT ![r] = NoEdge]
        /\ K.nextE = n /\ K.prevE = p
    BY <1>1, <2>1 DEF SameBut, Record, McFields
  <2>3. McShape(K)
    BY <2>2 DEF McShape, SameBut, McFields
  <2>4. K.ref = m.ref /\ Live(K) = Live(m)
    BY <2>2 DEF SameBut, McFields, Live
  <2>5. ASSUME NEW q \in Live(m)
        PROVE  Looped(K.nextE, K.prevE, K.first[m.ref[q]], Hung(K, X \ {e}, m.ref[q]))
    <3>1. CASE m.ref[q] = r
      <4>1. Hung(K, X \ {e}, r) = {}
        BY <1>6, <1>8, <2>4 DEF Hung
      <4>2. K.first[r] = NoEdge
        BY <1>3, <2>2 DEF McShape
      <4> QED BY <3>1, <4>1, <4>2 DEF Looped
    <3>2. CASE m.ref[q] # r
      <4>1. Hung(K, X \ {e}, m.ref[q]) = Hung(m, X, m.ref[q])
        BY <2>4, <3>2 DEF Hung
      <4>2. K.first[m.ref[q]] = m.first[m.ref[q]]
        BY <1>2, <2>2, <3>2 DEF McShape
      <4> QED BY <1>2, <2>2, <4>1, <4>2
    <3> QED BY <3>1, <3>2
  <2>6. EdgesWired(K, X \ {e})
    BY <1>2, <2>4, <2>5 DEF EdgesWired
  <2> QED BY <1>5, <1>6, <2>2, <2>3, <2>6
<1>9. CASE n[e] # e
  <2> DEFINE g == IF f = e THEN n[e] ELSE f
  <2>1. K = [m EXCEPT !.nextE[p[e]] = n[e], !.prevE[n[e]] = p[e], !.first[r] = g]
    <3>1. K = [m EXCEPT !.nextE[p[e]] = n[e], !.prevE[n[e]] = p[e], !.first[r] = IF @ = e THEN n[e] ELSE @]
      BY <1>1, <1>5, <1>9 DEF RemoveEdge
    <3>2. [m.first EXCEPT ![r] = IF @ = e THEN n[e] ELSE @] = [m.first EXCEPT ![r] = g]
      OBVIOUS
    <3>3. [m EXCEPT !.nextE[p[e]] = n[e], !.prevE[n[e]] = p[e], !.first[r] = IF @ = e THEN n[e] ELSE @]
          = [m EXCEPT !.nextE[p[e]] = n[e], !.prevE[n[e]] = p[e], !.first[r] = g]
      BY <1>1 DEF Record, McFields
    <3> QED BY <3>1, <3>3
  <2>2. g \in Edges /\ n[e] \in Edges /\ p[e] \in Edges
    BY <1>1, <1>3, <1>4, <1>7
  <2> HIDE DEF g
  <2>3. /\ SameBut({"first", "nextE", "prevE"}, m, K) /\ K.first = [m.first EXCEPT ![r] = g]
        /\ K.nextE = [n EXCEPT ![p[e]] = n[e]] /\ K.prevE = [p EXCEPT ![n[e]] = p[e]]
    BY <1>1, <2>1 DEF SameBut, Record, McFields
  <2>4. K.nextE \in [Edges -> Edges] /\ K.prevE \in [Edges -> Edges] /\ K.first \in [Points -> Edges \cup {NoEdge}]
    <3>1. m.first \in [Points -> Edges \cup {NoEdge}]
      BY DEF McShape
    <3>2. K.first \in [Points -> Edges \cup {NoEdge}]
      BY <2>2, <2>3, <3>1
    <3> HIDE DEF n, p
    <3>3. K.nextE \in [Edges -> Edges]
      BY <1>1, <2>2, <2>3
    <3>4. K.prevE \in [Edges -> Edges]
      BY <1>1, <2>2, <2>3
    <3> QED BY <3>2, <3>3, <3>4
  <2>5. McShape(K)
    BY <2>2, <2>3, <2>4 DEF McShape, SameBut, McFields
  <2>6. K.ref = m.ref /\ Live(K) = Live(m)
    BY <2>3 DEF SameBut, McFields, Live
  <2>7. Looped(K.nextE, K.prevE, g, E \ {e})
    <3>1. Deleted(n, p, E, e, K.nextE, K.prevE)
      BY <1>1, <1>3, <2>2, <2>3 DEF Deleted
    <3>2. g = IF f = e THEN n[e] ELSE f
      BY DEF g
    <3> HIDE DEF n, p, f, E
    <3> QED BY <1>3, <1>9, <3>1, <3>2, LoopedDelete
  <2>8. ASSUME NEW q \in Live(m)
        PROVE  Looped(K.nextE, K.prevE, K.first[m.ref[q]], Hung(K, X \ {e}, m.ref[q]))
    <3>1. CASE m.ref[q] = r
      <4>1. Hung(K, X \ {e}, r) = E \ {e}
        BY <2>6 DEF Hung
      <4>2. K.first[r] = g
        BY <1>3, <2>3 DEF McShape
      <4> QED BY <2>7, <3>1, <4>1, <4>2
    <3>2. CASE m.ref[q] # r
      <4> DEFINE E2 == Hung(m, X, m.ref[q])
      <4>1. Hung(K, X \ {e}, m.ref[q]) = E2 /\ E2 \cap E = {} /\ E2 \in SUBSET Edges
        BY <1>1, <2>6, <3>2 DEF Hung
      <4>2. K.first[m.ref[q]] = m.first[m.ref[q]]
        BY <1>2, <2>3, <3>2 DEF McShape
      <4>3. \A x \in E2 : K.nextE[x] = n[x] /\ K.prevE[x] = p[x]
        BY <1>1, <1>4, <1>7, <1>3, <2>3, <4>1
      <4>4. Looped(n, p, m.first[m.ref[q]], E2)
        BY <1>2
      <4> HIDE DEF E2, n, p
      <4>5. Looped(K.nextE, K.prevE, m.first[m.ref[q]], E2)
        BY <4>3, <4>4, LoopedSame
      <4> QED BY <4>1, <4>2, <4>5
    <3> QED BY <3>1, <3>2
  <2>9. EdgesWired(K, X \ {e})
    BY <1>1, <1>2, <2>6, <2>8 DEF EdgesWired
  <2> QED BY <1>5, <1>6, <1>9, <2>3, <2>5, <2>9
<1> QED BY <1>8, <1>9

LEMMA AlongIs ==
  ASSUME NEW D, IsFiniteSet(D), NEW next, DOMAIN next = D, NEW o, NEW S \in SUBSET D, Ring(next, o, S)
  PROVE  /\ ToSet(Along(next, o)) = S
         /\ \E k \in 1 .. Cardinality(D) : k \in Nat /\ Round(Along(next, o), next, o, S, k)
<1>1. Along(next, o) = Path(next, o, Cardinality(D))
  BY DEF Along, Path
<1>2. PICK k \in 1 .. Cardinality(D) : k \in Nat /\ Round(Along(next, o), next, o, S, k)
  BY <1>1, PathIs
<1>3. ToSet(Along(next, o)) = S
  BY <1>2 DEF Round, ToSet
<1> QED BY <1>2, <1>3

Bridged(next, a, b, S, next2) ==
    next2[a] = next[b] /\ next2[b] = next[a] /\ \A x \in S : x \notin {a, b} => next2[x] = next[x]

LEMMA RingJoin ==
  ASSUME NEW next, NEW S1, NEW S2, NEW a \in S1, NEW b \in S2, Ring(next, a, S1), Ring(next, b, S2),
         S1 \cap S2 = {}, NEW next2, Bridged(next, a, b, S1 \cup S2, next2), NEW o \in S1 \cup S2
  PROVE  Ring(next2, o, S1 \cup S2)
BY RingsLinked DEF Bridged

(* mc_join_strings: the stones of a get the reference of b, both rings of  *)
(* stones and both rings of edges become one.                              *)
LEMMA JoinWires ==
  ASSUME NEW m, McShape(m), StonesWired(m), NEW X, EdgesWired(m, X), NEW a \in Live(m), NEW b \in Live(m),
         m.ref[a] # m.ref[b], Hung(m, X, m.ref[b]) # {}, NEW K, K = JoinStrings(m, a, b)
  PROVE  /\ SameBut({"ref", "next", "nextE", "prevE"}, m, K) /\ McShape(K)
         /\ \A q \in Points : K.ref[q] = IF q \in Together(m, a) THEN m.ref[b] ELSE m.ref[q]
         /\ StonesWired(K) /\ EdgesWired(K, X)
<1> DEFINE r1 == m.ref[a]
           r2 == m.ref[b]
           f1 == m.first[r1]
           f2 == m.first[r2]
           S1 == Together(m, a)
           S2 == Together(m, b)
           E1 == Hung(m, X, r1)
           E2 == Hung(m, X, r2)
           n == m.nextE
           p == m.prevE
           ref2 == [q \in Points |-> IF q \in S1 THEN r2 ELSE m.ref[q]]
           next2 == [m.next EXCEPT ![a] = m.next[b], ![b] = m.next[a]]
<1>1. /\ Record(m) /\ n \in [Edges -> Edges] /\ p \in [Edges -> Edges] /\ X \in SUBSET Edges
      /\ m.next \in [Points -> Points] /\ m.first \in [Points -> Edges \cup {NoEdge}]
      /\ a \in Points /\ b \in Points /\ m.ref \in [Points -> Points \cup {NoMove}]
  BY DEF McShape, EdgesWired, Live
<1>2. \A q \in Live(m) : m.ref[q] \in Points /\ Looped(n, p, m.first[m.ref[q]], Hung(m, X, m.ref[q]))
  BY DEF EdgesWired
<1>3. \A q \in Live(m) : m.ref[q] \in Together(m, q) /\ Ring(m.next, q, Together(m, q))
  BY DEF StonesWired
<1>4. ToSet(Along(m.next, a)) = S1
  <2>1. S1 \in SUBSET Points /\ DOMAIN m.next = Points /\ Ring(m.next, a, S1)
    BY <1>1, <1>3 DEF Together, Live
  <2> HIDE DEF S1
  <2> QED BY <2>1, PointsAssumption, AlongIs
<1>5. Looped(n, p, f1, E1) /\ Looped(n, p, f2, E2) /\ E1 \in SUBSET Edges /\ E2 \in SUBSET Edges /\ E1 \cap E2 = {} /\ E2 # {}
  <2>1. Looped(n, p, f1, E1) /\ Looped(n, p, f2, E2)
    BY <1>2
  <2>2. E1 \in SUBSET Edges /\ E2 \in SUBSET Edges /\ E1 \cap E2 = {}
    BY <1>1 DEF Hung
  <2>3. E2 # {}
    OBVIOUS
  <2> HIDE DEF n, p, f1, f2, E1, E2
  <2> QED BY <2>1, <2>2, <2>3
<1>6. (f1 = NoEdge <=> E1 = {}) /\ (f1 # NoEdge => f1 \in E1 /\ n[f1] \in E1) /\ f2 \in E2 /\ n[f2] \in E2
  <2>1. E1 # {} => f1 \in E1 /\ n[f1] \in E1
    BY <1>5 DEF Looped, Ring, Onward
  <2>2. f2 \in E2 /\ n[f2] \in E2
    BY <1>5 DEF Looped, Ring, Onward
  <2>3. E1 = {} => f1 = NoEdge
    BY <1>5 DEF Looped
  <2> QED BY <1>5, <2>1, <2>2, <2>3, EdgesFinite
<1> DEFINE n2 == IF f1 = NoEdge THEN n ELSE [n EXCEPT ![f1] = n[f2], ![f2] = n[f1]]
           p2 == IF f1 = NoEdge THEN p ELSE [p EXCEPT ![n[f1]] = f2, ![n[f2]] = f1]
<1>7. /\ SameBut({"ref", "next", "nextE", "prevE"}, m, K)
      /\ K.ref = ref2 /\ K.next = next2 /\ K.nextE = n2 /\ K.prevE = p2
  <2> DEFINE J == [m EXCEPT !.ref = [q \in Points |-> IF q \in S1 THEN r2 ELSE @[q]],
                            !.next = [@ EXCEPT ![a] = m.next[b], ![b] = m.next[a]]]
  <2>1. K = IF f1 = NoEdge THEN J
            ELSE [J EXCEPT !.nextE = [@ EXCEPT ![f1] = n[f2], ![f2] = n[f1]],
                           !.prevE = [@ EXCEPT ![n[f1]] = f2, ![n[f2]] = f1]]
    BY <1>4 DEF JoinStrings
  <2>2. /\ Record(J) /\ J.ref = ref2 /\ J.next = next2
        /\ \A f \in McFields \ {"ref", "next"} : J[f] = m[f]
    BY <1>1 DEF Record, McFields
  <2>3. "nextE" \in McFields /\ "prevE" \in McFields /\ "ref" \in McFields /\ "next" \in McFields
    BY DEF McFields
  <2> HIDE DEF J, ref2, next2, S1, r2, f1, f2
  <2>4. CASE f1 = NoEdge
    BY <2>1, <2>2, <2>3, <2>4 DEF SameBut
  <2>5. CASE f1 # NoEdge
    <3>1. K = [J EXCEPT !.nextE = [@ EXCEPT ![f1] = n[f2], ![f2] = n[f1]],
                        !.prevE = [@ EXCEPT ![n[f1]] = f2, ![n[f2]] = f1]]
      BY <2>1, <2>5
    <3>2. J.nextE = n /\ J.prevE = p
      BY <2>2, <2>3
    <3>3. K.nextE = n2 /\ K.prevE = p2
      BY <2>2, <2>3, <2>5, <3>1, <3>2 DEF Record
    <3>4. Record(K) /\ \A f \in McFields \ {"nextE", "prevE"} : K[f] = J[f]
      BY <2>2, <3>1 DEF Record, McFields
    <3> QED BY <2>2, <2>3, <3>3, <3>4 DEF SameBut
  <2> QED BY <2>4, <2>5
<1>8. Live(K) = Live(m) /\ K.first = m.first /\ K.board = m.board
  BY <1>7 DEF SameBut, McFields, Live
<1>9. n2 \in [Edges -> Edges] /\ p2 \in [Edges -> Edges] /\ ref2 \in [Points -> Points \cup {NoMove}]
      /\ next2 \in [Points -> Points]
  <2>1. ref2 \in [Points -> Points \cup {NoMove}]
    BY <1>1, <1>2
  <2>2. m.next[a] \in Points /\ m.next[b] \in Points
    BY <1>1
  <2>3. next2 \in [Points -> Points]
    BY <1>1, <2>2
  <2>4. f1 # NoEdge => f1 \in Edges /\ f2 \in Edges /\ n[f1] \in Edges /\ n[f2] \in Edges
    BY <1>5, <1>6
  <2> HIDE DEF f1, f2, n, p
  <2>5. n2 \in [Edges -> Edges]
    BY <1>1, <2>4
  <2>6. p2 \in [Edges -> Edges]
    BY <1>1, <2>4
  <2> QED BY <2>1, <2>3, <2>5, <2>6
<1>10. McShape(K)
  <2> HIDE DEF n2, p2, ref2, next2
  <2> QED BY <1>7, <1>8, <1>9 DEF McShape, SameBut, McFields
<1>11. \A q \in Points : K.ref[q] = IF q \in S1 THEN r2 ELSE m.ref[q]
  BY <1>7
<1>12. StonesWired(K)
  <2>1. ASSUME NEW q \in S1 \cup S2 PROVE Together(K, q) = S1 \cup S2 /\ K.ref[q] \in S2
    <3>1. K.ref[q] = r2 /\ q \in Points
      BY <1>11 DEF Together, Live
    <3>2. \A x \in Live(m) : K.ref[x] = r2 <=> x \in S1 \cup S2
      BY <1>11 DEF Together, Live
    <3>3. r2 \in S2
      BY <1>3
    <3> HIDE DEF r2, S1, S2
    <3>4. S1 \cup S2 \subseteq Live(m)
      BY DEF Together, S1, S2
    <3> QED BY <1>8, <3>1, <3>2, <3>3, <3>4 DEF Together
  <2>2. ASSUME NEW q \in S1 \cup S2 PROVE Ring(K.next, q, S1 \cup S2)
    <3>1. Ring(m.next, a, S1) /\ Ring(m.next, b, S2) /\ a \in S1 /\ b \in S2 /\ S1 \cap S2 = {}
      BY <1>3 DEF Together
    <3>2. S1 \in SUBSET Points /\ S2 \in SUBSET Points /\ a # b
      BY DEF Together, Live
    <3> HIDE DEF S1, S2
    <3>3. Bridged(m.next, a, b, S1 \cup S2, K.next)
      BY <1>1, <1>7, <3>2 DEF Bridged
    <3> QED BY <2>2, <3>1, <3>3, RingJoin
  <2>3. ASSUME NEW q \in Live(m), q \notin S1 \cup S2
        PROVE  Together(K, q) = Together(m, q) /\ K.ref[q] = m.ref[q] /\ Ring(K.next, q, Together(m, q))
    <3>1. q \in Points /\ K.ref[q] = m.ref[q] /\ m.ref[q] # r1 /\ m.ref[q] # r2
      BY <1>11, <2>3 DEF Together, Live
    <3>2. Together(K, q) = Together(m, q)
      BY <1>8, <1>11, <3>1 DEF Together, Live
    <3>3. \A x \in Together(m, q) : x \in Points /\ x # a /\ x # b
      BY <3>1 DEF Together, Live
    <3>4. \A x \in Together(m, q) : K.next[x] = m.next[x]
      BY <1>1, <1>7, <3>3
    <3>5. q \in Together(m, q) /\ Ring(m.next, q, Together(m, q))
      BY <1>3 DEF Together
    <3> QED BY <3>1, <3>2, <3>4, <3>5, RingSame
  <2>4. ASSUME NEW q \in Live(m) PROVE K.ref[q] \in Together(K, q) /\ Ring(K.next, q, Together(K, q))
    <3>1. CASE q \in S1 \cup S2
      <4> HIDE DEF S1, S2
      <4> QED BY <2>1, <2>2, <3>1
    <3>2. CASE q \notin S1 \cup S2
      <4> HIDE DEF S1, S2
      <4> QED BY <1>3, <2>3, <3>2
    <3> QED BY <3>1, <3>2
  <2> QED BY <1>8, <2>4 DEF StonesWired
<1>13. EdgesWired(K, X)
  <2>0. \A q \in S1 : q \in Live(m) /\ m.ref[q] = r1
    BY DEF Together
  <2>1. \A e \in X : e[2] \in Points /\ e[2] \in Live(m)
    BY DEF EdgesWired, Live
  <2>2. Hung(K, X, r2) = E1 \cup E2
    <3>1. \A e \in X : K.ref[e[2]] = r2 <=> m.ref[e[2]] = r1 \/ m.ref[e[2]] = r2
      BY <1>11, <2>1 DEF Together
    <3> QED BY <3>1 DEF Hung
  <2>3. ASSUME NEW q \in Live(m) PROVE K.ref[q] \in Points /\ K.ref[q] # r1
    BY <1>2, <1>11, <2>3 DEF Together, Live
  <2>4. Looped(K.nextE, K.prevE, f2, E1 \cup E2)
    <3>1. CASE f1 = NoEdge
      BY <1>5, <1>6, <1>7, <3>1
    <3>2. CASE f1 # NoEdge
      <4>1. K.nextE = [n EXCEPT ![f1] = n[f2], ![f2] = n[f1]] /\ K.prevE = [p EXCEPT ![n[f1]] = f2, ![n[f2]] = f1]
        BY <1>7, <3>2
      <4>2. E1 # {} /\ f1 \in E1 /\ n[f1] \in E1 /\ f2 \in E1 \cup E2
        BY <1>6, <3>2
      <4> HIDE DEF f1, f2, E1, E2, n, p
      <4>3. f1 # f2 /\ n[f1] # n[f2] /\ {f1, f2, n[f1], n[f2]} \subseteq Edges
        BY <1>5, <1>6, <4>2
      <4>4. Spliced(n, p, f1, f2, E1 \cup E2, K.nextE, K.prevE)
        BY <1>1, <1>5, <4>1, <4>3 DEF Spliced
      <4> QED BY <1>5, <4>2, <4>4, LoopedJoin
    <3> QED BY <3>1, <3>2
  <2>5. ASSUME NEW q \in Live(m), K.ref[q] # r2
        PROVE  Looped(K.nextE, K.prevE, m.first[K.ref[q]], Hung(K, X, K.ref[q]))
    <3> DEFINE E == Hung(m, X, m.ref[q])
    <3>1. K.ref[q] = m.ref[q] /\ m.ref[q] # r1 /\ m.ref[q] # r2
      BY <1>11, <2>3, <2>5 DEF Live
    <3>2. Hung(K, X, m.ref[q]) = E
      BY <1>11, <2>0, <2>1, <3>1 DEF Hung
    <3>3. Looped(n, p, m.first[m.ref[q]], E) /\ E \cap E1 = {} /\ E \cap E2 = {} /\ E \in SUBSET Edges
      BY <1>1, <1>2, <3>1 DEF Hung
    <3> HIDE DEF E, f1, f2, E1, E2, n, p
    <3>4. \A x \in E : K.nextE[x] = n[x] /\ K.prevE[x] = p[x]
      BY <1>1, <1>5, <1>6, <1>7, <3>3
    <3>5. Looped(K.nextE, K.prevE, m.first[m.ref[q]], E)
      BY <3>3, <3>4, LoopedSame
    <3> QED BY <3>1, <3>2, <3>5
  <2>6. ASSUME NEW q \in Live(m)
        PROVE  K.ref[q] \in Points /\ Looped(K.nextE, K.prevE, K.first[K.ref[q]], Hung(K, X, K.ref[q]))
    <3> HIDE DEF r2, f2, E1, E2
    <3> QED BY <1>8, <2>2, <2>3, <2>4, <2>5 DEF f2
  <2> QED BY <1>1, <1>8, <2>1, <2>6 DEF EdgesWired
<1> QED BY <1>7, <1>10, <1>11, <1>12, <1>13

-----------------------------------------------------------------------------
(* The loops over the neighbors of a point.                                *)
LEMMA SameButSelf ==
  ASSUME NEW m, Record(m), NEW F
  PROVE  SameBut(F, m, m)
BY DEF SameBut

LEMMA SameButOn ==
  ASSUME NEW m, NEW v, NEW w, NEW F, NEW G, SameBut(F, m, v), SameBut(G, v, w)
  PROVE  SameBut(F \cup G, m, w)
BY DEF SameBut

Done(seq, k) == {seq[i] : i \in 1 .. k}

LEMMA ListFacts ==
  ASSUME NEW seq \in Seq(Points), IsInjective(seq), NEW S, S = ToSet(seq), NEW n, n = Len(seq)
  PROVE  /\ n \in Nat /\ DOMAIN seq = 1 .. n /\ Done(seq, n) = S /\ Done(seq, 0) = {}
         /\ \A k \in 1 .. n : /\ seq[k] \in S /\ seq[k] \notin Done(seq, k - 1)
                              /\ Done(seq, k) = Done(seq, k - 1) \cup {seq[k]} /\ Done(seq, k) \subseteq S
<1>1. seq \in Seq(Points) /\ IsInjective(seq) /\ ToSet(seq) = S
  OBVIOUS
<1>2. n \in Nat /\ DOMAIN seq = 1 .. n
  BY <1>1
<1>3. Done(seq, n) = S /\ Done(seq, 0) = {}
  BY <1>1, <1>2 DEF Done, ToSet
<1>4. \A i, j \in 1 .. n : seq[i] = seq[j] => i = j
  BY <1>1, <1>2 DEF IsInjective
<1>5. ASSUME NEW k \in 1 .. n
      PROVE  /\ seq[k] \in S /\ seq[k] \notin Done(seq, k - 1)
             /\ Done(seq, k) = Done(seq, k - 1) \cup {seq[k]} /\ Done(seq, k) \subseteq S
  <2>1. \A i \in 1 .. k - 1 : i \in 1 .. n /\ i # k
    BY <1>2
  <2>2. \A i \in 1 .. k : i \in 1 .. k - 1 \/ i = k
    BY <1>2
  <2>3. \A i \in 1 .. k : i \in 1 .. n
    BY <1>2
  <2>4. seq[k] \in S
    BY <1>3 DEF Done
  <2>5. seq[k] \notin Done(seq, k - 1)
    BY <1>4, <2>1 DEF Done
  <2>6. Done(seq, k) = Done(seq, k - 1) \cup {seq[k]}
    <3>1. k \in 1 .. k /\ \A i \in 1 .. k - 1 : i \in 1 .. k
      BY <1>2
    <3> QED BY <2>2, <3>1 DEF Done
  <2>7. Done(seq, k) \subseteq S
    BY <1>3, <2>3 DEF Done
  <2> QED BY <2>4, <2>5, <2>6, <2>7
<1> QED BY <1>2, <1>3, <1>5

LEMMA AroundFacts ==
  ASSUME NEW p \in Points, NEW seq, seq = Around[p], NEW n, n = Len(seq)
  PROVE  /\ n \in Nat /\ DOMAIN seq = 1 .. n /\ Done(seq, n) = Neighbors[p] /\ Done(seq, 0) = {}
         /\ \A k \in 1 .. n : /\ seq[k] \in Neighbors[p] /\ seq[k] \notin Done(seq, k - 1)
                              /\ Done(seq, k) = Done(seq, k - 1) \cup {seq[k]} /\ Done(seq, k) \subseteq Neighbors[p]
<1>1. seq \in Seq(Points) /\ IsInjective(seq) /\ Neighbors[p] = ToSet(seq)
  BY McAssumption
<1> QED BY <1>1, ListFacts

Wired(m, X) == McShape(m) /\ StonesWired(m) /\ EdgesWired(m, X)

LEMMA WiredSame ==
  ASSUME NEW m, NEW X, Wired(m, X), NEW K, SameBut({"ko", "hash", "queue", "context", "values"}, m, K)
  PROVE  Wired(K, X)
<1>1. McShape(K)
  BY ShapeKept DEF Wired
<1>2. K.board = m.board /\ K.ref = m.ref /\ K.next = m.next /\ K.first = m.first /\ K.nextE = m.nextE /\ K.prevE = m.prevE
  BY DEF SameBut, McFields
<1>3. Live(K) = Live(m) /\ \A p : Together(K, p) = Together(m, p)
  BY <1>2 DEF Live, Together
<1>4. \A r : Hung(K, X, r) = Hung(m, X, r)
  BY <1>2 DEF Hung
<1>5. StonesWired(K)
  BY <1>2, <1>3 DEF Wired, StonesWired
<1>6. EdgesWired(K, X)
  BY <1>2, <1>3, <1>4 DEF Wired, EdgesWired
<1> QED BY <1>1, <1>5, <1>6 DEF Wired

(* Where the stones and their rings stay, so does what they are told by.   *)
LEMMA StonesSame ==
  ASSUME NEW m, StonesWired(m), NEW K, K.board = m.board, K.ref = m.ref, K.next = m.next
  PROVE  StonesWired(K) /\ Live(K) = Live(m) /\ \A p : Together(K, p) = Together(m, p)
<1>1. Live(K) = Live(m) /\ \A p : Together(K, p) = Together(m, p)
  BY DEF Live, Together
<1> QED BY <1>1 DEF StonesWired

LEMMA AddEdgeKeeps ==
  ASSUME NEW m, NEW X, Wired(m, X), NEW loc \in Live(m), NEW lib \in Neighbors[loc], <<lib, loc>> \notin X,
         NEW K, K = AddEdge(m, loc, lib)
  PROVE  SameBut({"first", "nextE", "prevE"}, m, K) /\ Wired(K, X \cup {<<lib, loc>>})
<1> DEFINE e == <<lib, loc>>
           r == m.ref[loc]
<1>1. e \in Edges /\ e[1] = lib /\ e[2] = loc
  <2>1. loc \in Points /\ lib \in Points /\ loc \in Neighbors[lib]
    BY PointsAssumption DEF Live
  <2> QED BY <2>1, EdgeFacts
<1>2. r \in Points /\ McShape(m) /\ EdgesWired(m, X) /\ StonesWired(m)
  BY DEF Wired, EdgesWired
<1> HIDE DEF r
<1>3. AddEdgeTo(m, r, e, K)
  <2>1. r = m.ref[loc] /\ e = <<lib, loc>>
    BY DEF r
  <2> HIDE DEF e
  <2> QED BY <1>1, <1>2, <2>1, AddEdgeIs
<1>4. EdgesWired(K, X \cup {e})
  <2>1. e \notin X /\ e[2] \in Live(m) /\ r = m.ref[e[2]]
    BY DEF r
  <2> HIDE DEF e
  <2> QED BY <1>1, <1>2, <1>3, <2>1, AddEdgeWires
<1>5. SameBut({"first", "nextE", "prevE"}, m, K) /\ McShape(K)
  BY <1>3 DEF AddEdgeTo
<1>6. StonesWired(K)
  <2>1. K.board = m.board /\ K.ref = m.ref /\ K.next = m.next
    BY <1>5 DEF SameBut, McFields
  <2> QED BY <1>2, <2>1, StonesSame
<1> QED BY <1>4, <1>5, <1>6 DEF Wired

-----------------------------------------------------------------------------
(* The edges of the stones of a board.                                     *)
BoardEdges(b) == {e \in Edges : b[e[2]] # "empty" /\ b[e[1]] = "empty"}

LEMMA BoardEdgeIs ==
  ASSUME NEW b, NEW p \in Points, NEW q \in Neighbors[p]
  PROVE  /\ <<p, q>> \in Edges /\ <<q, p>> \in Edges /\ q \in Points
         /\ <<p, q>> \in BoardEdges(b) <=> b[q] # "empty" /\ b[p] = "empty"
<1>1. q \in Points /\ p \in Neighbors[q]
  BY PointsAssumption
<1>2. <<p, q>> \in Edges /\ <<q, p>> \in Edges
  BY <1>1, EdgeFacts
<1> QED BY <1>1, <1>2 DEF BoardEdges

(* A stone is put, alone in its ring and without edges.                    *)
StoneSet(m, loc, side, h, s) ==
    [m EXCEPT !.board[loc] = side, !.hash = h, !.next[loc] = loc, !.ref[loc] = loc,
              !.first[loc] = NoEdge, !.seen = s]
PutParts == {"board", "hash", "next", "ref", "first", "seen"}

LEMMA StoneWires ==
  ASSUME NEW m, NEW X, Wired(m, X), NEW loc \in Points, m.board[loc] = "empty", NEW side \in Colors,
         NEW h, NEW s \in [Points -> SUBSET (Points \X Colors)],
         NEW K, K = StoneSet(m, loc, side, h, s)
  PROVE  /\ SameBut(PutParts, m, K) /\ K.board = Put(m.board, loc, side) /\ K.hash = h /\ K.seen = s
         /\ Wired(K, X) /\ Live(K) = Live(m) \cup {loc}
         /\ Together(K, loc) = {loc} /\ \A p \in Live(m) : Together(K, p) = Together(m, p)
<1>1. /\ Record(m) /\ McShape(m) /\ m.board \in BoardType /\ side # "empty"
      /\ m.ref \in [Points -> Points \cup {NoMove}] /\ m.next \in [Points -> Points]
      /\ m.first \in [Points -> Edges \cup {NoEdge}]
  BY OthersColor DEF Wired, McShape
<1>2. SameBut(PutParts, m, K)
  BY <1>1 DEF StoneSet, SameBut, Record, McFields, PutParts
<1>3. /\ K.board = [m.board EXCEPT ![loc] = side] /\ K.hash = h /\ K.next = [m.next EXCEPT ![loc] = loc]
      /\ K.ref = [m.ref EXCEPT ![loc] = loc] /\ K.first = [m.first EXCEPT ![loc] = NoEdge] /\ K.seen = s
  BY <1>1 DEF StoneSet, Record, McFields
<1>4. McShape(K)
  <2>1. K.board \in BoardType
    BY <1>1, <1>3 DEF BoardType
  <2>2. K.next \in [Points -> Points] /\ K.ref \in [Points -> Points \cup {NoMove}]
    BY <1>1, <1>3
  <2>3. K.first \in [Points -> Edges \cup {NoEdge}]
    BY <1>1, <1>3
  <2> QED BY <1>1, <1>2, <1>3, <2>1, <2>2, <2>3 DEF McShape, SameBut, McFields, PutParts
<1>5. /\ Live(K) = Live(m) \cup {loc} /\ loc \notin Live(m)
      /\ \A p \in Live(m) : K.ref[p] = m.ref[p] /\ K.next[p] = m.next[p] /\ p # loc /\ m.ref[p] \in Live(m)
  <2>1. \A p \in Points : K.board[p] = IF p = loc THEN side ELSE m.board[p]
    BY <1>1, <1>3 DEF BoardType
  <2>2. Live(K) = Live(m) \cup {loc} /\ loc \notin Live(m)
    BY <1>1, <2>1 DEF Live
  <2>3. \A p \in Live(m) : m.ref[p] \in Live(m)
    BY DEF Wired, StonesWired, Together
  <2>4. \A p \in Live(m) : p \in Points /\ p # loc
    BY <2>2 DEF Live
  <2> QED BY <1>1, <1>3, <2>2, <2>3, <2>4
<1>6. Together(K, loc) = {loc}
  <2>1. K.ref[loc] = loc
    BY <1>1, <1>3
  <2>2. \A p \in Live(m) : K.ref[p] # loc
    BY <1>5
  <2> QED BY <1>5, <2>1, <2>2 DEF Together
<1>7. ASSUME NEW p \in Live(m) PROVE Together(K, p) = Together(m, p)
  <2>1. K.ref[loc] = loc /\ K.ref[p] = m.ref[p] /\ m.ref[p] # loc
    BY <1>1, <1>3, <1>5
  <2> QED BY <1>5, <2>1 DEF Together
<1>8. StonesWired(K)
  <2>1. ASSUME NEW p \in Live(m) PROVE K.ref[p] \in Together(K, p) /\ Ring(K.next, p, Together(K, p))
    <3>1. m.ref[p] \in Together(m, p) /\ Ring(m.next, p, Together(m, p))
      BY DEF Wired, StonesWired
    <3>2. \A q \in Together(m, p) : K.next[q] = m.next[q]
      BY <1>5 DEF Together
    <3>3. p \in Together(m, p)
      BY DEF Together
    <3>4. Ring(K.next, p, Together(m, p))
      BY <3>1, <3>2, <3>3, RingSame
    <3> QED BY <1>5, <1>7, <3>1, <3>4
  <2>2. K.ref[loc] \in Together(K, loc) /\ Ring(K.next, loc, Together(K, loc))
    <3>1. K.ref[loc] = loc /\ K.next[loc] = loc
      BY <1>1, <1>3
    <3>2. Ring(K.next, loc, {loc})
      BY <3>1, RingOfOne
    <3> QED BY <1>6, <3>1, <3>2
  <2> QED BY <1>5, <2>1, <2>2 DEF StonesWired
<1>9. EdgesWired(K, X)
  <2>1. EdgesWired(m, X) /\ K.nextE = m.nextE /\ K.prevE = m.prevE
    BY <1>2 DEF Wired, SameBut, PutParts, McFields
  <2>2. \A e \in X : e[2] \in Live(m)
    BY <2>1 DEF EdgesWired
  <2>3. K.ref[loc] = loc /\ K.first[loc] = NoEdge
    BY <1>1, <1>3
  <2>4. Hung(K, X, loc) = {}
    <3>1. \A e \in X : K.ref[e[2]] # loc
      BY <1>5, <2>2
    <3> QED BY <3>1 DEF Hung
  <2>5. Looped(K.nextE, K.prevE, K.first[loc], Hung(K, X, loc))
    BY <2>3, <2>4 DEF Looped
  <2>6. ASSUME NEW p \in Live(m)
        PROVE  K.ref[p] \in Points /\ Looped(K.nextE, K.prevE, K.first[K.ref[p]], Hung(K, X, K.ref[p]))
    <3>1. m.ref[p] \in Points /\ Looped(m.nextE, m.prevE, m.first[m.ref[p]], Hung(m, X, m.ref[p]))
      BY <2>1 DEF EdgesWired
    <3>2. K.ref[p] = m.ref[p] /\ m.ref[p] # loc
      BY <1>5
    <3>3. K.first[m.ref[p]] = m.first[m.ref[p]]
      BY <1>1, <1>3, <3>1, <3>2
    <3>4. Hung(K, X, m.ref[p]) = Hung(m, X, m.ref[p])
      BY <1>5, <2>2 DEF Hung
    <3> QED BY <2>1, <3>1, <3>2, <3>3, <3>4
  <2>7. X \in SUBSET Edges /\ \A e \in X : e[2] \in Live(K)
    BY <1>5, <2>1, <2>2 DEF EdgesWired
  <2>8. \A p \in Live(K) : K.ref[p] \in Points /\ Looped(K.nextE, K.prevE, K.first[K.ref[p]], Hung(K, X, K.ref[p]))
    BY <1>5, <2>3, <2>5, <2>6
  <2> QED BY <2>7, <2>8 DEF EdgesWired
<1>10. K.board = Put(m.board, loc, side)
  BY <1>3 DEF Put
<1> QED BY <1>2, <1>3, <1>4, <1>5, <1>6, <1>7, <1>8, <1>9, <1>10 DEF Wired

PutTurn(loc, b, c, n, q) == IF n.board[q] = "empty" THEN AddEdge(Enqueued(n, {q}), loc, q) ELSE n
Empty(b, S) == {q \in S : b[q] = "empty"}
EdgesFrom(S, loc) == {<<q, loc>> : q \in S}
PutHolds(loc, X, b, base, seq, k, v) ==
    /\ SameBut({"queue", "first", "nextE", "prevE"}, base, v)
    /\ Wired(v, X \cup EdgesFrom(Empty(b, Done(seq, k)), loc))
    /\ Empty(b, Done(seq, k)) \subseteq v.queue
Puts == INSTANCE Recursion WITH Turn <- PutTurn, Holds <- PutHolds

(* The first loop of mc_play_move: the new stone gets its empty neighbors. *)
LEMMA PutEdges ==
  ASSUME NEW loc \in Points, NEW base, NEW X, Wired(base, X), loc \in Live(base),
         NEW b, b = base.board, \A e \in X : e[2] # loc, NEW K, K = Puts!Loop(loc, X, b, base, Around[loc])
  PROVE  /\ SameBut({"queue", "first", "nextE", "prevE"}, base, K)
         /\ Wired(K, X \cup EdgesFrom(Empty(b, Neighbors[loc]), loc))
         /\ Empty(b, Neighbors[loc]) \subseteq K.queue
<1> DEFINE seq == Around[loc]
           n == Len(seq)
<1>1. /\ n \in Nat /\ DOMAIN seq = 1 .. n /\ Done(seq, n) = Neighbors[loc] /\ Done(seq, 0) = {}
      /\ \A k \in 1 .. n : /\ seq[k] \in Neighbors[loc] /\ seq[k] \notin Done(seq, k - 1)
                           /\ Done(seq, k) = Done(seq, k - 1) \cup {seq[k]} /\ Done(seq, k) \subseteq Neighbors[loc]
  BY AroundFacts
<1> HIDE DEF n
<1>2. PutHolds(loc, X, b, base, seq, 0, base)
  <2>1. Empty(b, Done(seq, 0)) = {} /\ EdgesFrom({}, loc) = {}
    BY <1>1 DEF Empty, EdgesFrom
  <2>2. X \cup {} = X /\ Record(base)
    BY DEF Wired, McShape
  <2> QED BY <2>1, <2>2, SameButSelf DEF PutHolds
<1>3. ASSUME NEW k \in 1 .. n, NEW v, PutHolds(loc, X, b, base, seq, k - 1, v)
      PROVE  /\ k \in DOMAIN seq => PutHolds(loc, X, b, base, seq, k, PutTurn(loc, X, b, v, seq[k]))
             /\ k \notin DOMAIN seq => PutHolds(loc, X, b, base, seq, k, v)
  <2> DEFINE q == seq[k]
             w == PutTurn(loc, X, b, v, q)
             D == Done(seq, k - 1)
             Y == X \cup EdgesFrom(Empty(b, D), loc)
  <2>1. q \in Neighbors[loc] /\ q \notin D /\ Done(seq, k) = D \cup {q}
    BY <1>1
  <2>2. SameBut({"queue", "first", "nextE", "prevE"}, base, v) /\ Wired(v, Y) /\ Empty(b, D) \subseteq v.queue
    BY <1>3 DEF PutHolds
  <2>3. v.board = b /\ loc \in Live(v) /\ Record(v)
    BY <2>2 DEF SameBut, McFields, Live
  <2>4. CASE b[q] = "empty"
    <3> DEFINE u == Enqueued(v, {q})
    <3>1. SameBut({"queue"}, v, u) /\ u.queue = v.queue \cup {q}
      BY <2>3, EnqueuedIs
    <3> HIDE DEF u, q, D
    <3>2. w = AddEdge(u, loc, q)
      BY <2>3, <2>4 DEF PutTurn, u
    <3> HIDE DEF w
    <3>3. Wired(u, Y)
      <4>1. SameBut({"ko", "hash", "queue", "context", "values"}, v, u)
        BY <3>1 DEF SameBut
      <4> HIDE DEF Y
      <4> QED BY <2>2, <4>1, WiredSame
    <3>4. <<q, loc>> \notin Y
      <4>1. <<q, loc>> \notin X
        <5>1. <<q, loc>>[2] = loc
          OBVIOUS
        <5> QED BY <5>1
      <4>2. <<q, loc>> \notin EdgesFrom(Empty(b, D), loc)
        BY <2>1 DEF EdgesFrom, Empty
      <4> QED BY <4>1, <4>2
    <3>5. loc \in Live(u)
      BY <2>3, <3>1 DEF SameBut, McFields, Live
    <3>6. SameBut({"first", "nextE", "prevE"}, u, w) /\ Wired(w, Y \cup {<<q, loc>>})
      <4> HIDE DEF Y
      <4> QED BY <2>1, <3>2, <3>3, <3>4, <3>5, AddEdgeKeeps
    <3>7. Empty(b, D \cup {q}) = Empty(b, D) \cup {q}
      BY <2>4 DEF Empty
    <3>8. Y \cup {<<q, loc>>} = X \cup EdgesFrom(Empty(b, D \cup {q}), loc)
      BY <3>7 DEF EdgesFrom
    <3>9. SameBut({"queue", "first", "nextE", "prevE"}, base, w) /\ w.queue = v.queue \cup {q}
      BY <2>2, <3>1, <3>6 DEF SameBut, McFields
    <3>10. PutHolds(loc, X, b, base, seq, k, w)
      BY <2>1, <2>2, <3>6, <3>7, <3>8, <3>9 DEF PutHolds
    <3> QED BY <1>1, <3>10 DEF w, q
  <2>5. CASE b[q] # "empty"
    <3>1. w = v
      BY <2>3, <2>5 DEF PutTurn
    <3>2. Empty(b, D \cup {q}) = Empty(b, D)
      BY <2>5 DEF Empty
    <3>3. PutHolds(loc, X, b, base, seq, k, w)
      BY <2>1, <2>2, <3>1, <3>2 DEF PutHolds
    <3> QED BY <1>1, <3>3
  <2> QED BY <2>4, <2>5
<1>4. PutHolds(loc, X, b, base, seq, n, K)
  BY <1>1, <1>2, <1>3, Puts!LoopKeeps
<1> QED BY <1>1, <1>4 DEF PutHolds

(* The board m holds b, and its edges and its hash are those of b.         *)
Holding(m, b) == b = m.board /\ Wired(m, BoardEdges(b)) /\ m.hash = BoardHash(b)

StoneIsPut(m, b, loc, side, K) ==
    /\ SameBut(PutParts \cup {"queue", "nextE", "prevE"}, m, K)
    /\ K.board = Put(b, loc, side) /\ K.hash = BoardHash(Put(b, loc, side))
    /\ Wired(K, BoardEdges(b) \cup EdgesFrom(Empty(b, Neighbors[loc]), loc))
    /\ Empty(b, Neighbors[loc]) \subseteq K.queue
    /\ Live(K) = Live(m) \cup {loc}
    /\ Together(K, loc) = {loc} /\ \A p \in Live(m) : Together(K, p) = Together(m, p)

LEMMA PutStoneWires ==
  ASSUME NEW m, NEW b, Holding(m, b), NEW loc \in Points, b[loc] = "empty", NEW side \in Colors,
         NEW K, K = PutStone(m, loc, side)
  PROVE  StoneIsPut(m, b, loc, side, K)
<1> USE DEF Holding
<1> DEFINE h == SymDiff(m.hash, {StoneHash(loc, side)})
           s == [q \in Points |-> IF q \in Vicinity(loc) THEN m.seen[q] \cup {<<loc, side>>} ELSE m.seen[q]]
           put == StoneSet(m, loc, side, h, s)
           X == BoardEdges(b)
<1>1. K = Puts!Loop(loc, X, put.board, put, Around[loc])
  BY DEF StoneSet, PutStone, PutTurn, FoldLeft, MapThenFoldSet, Max, Puts!Greatest, Puts!Loop, Puts!Rest, Puts!RestOver
<1>2. s \in [Points -> SUBSET (Points \X Colors)]
  <2>1. m.seen \in [Points -> SUBSET (Points \X Colors)]
    BY DEF Wired, McShape
  <2> QED BY <2>1
<1>3. /\ SameBut(PutParts, m, put) /\ put.board = Put(b, loc, side) /\ put.hash = h
      /\ Wired(put, X) /\ Live(put) = Live(m) \cup {loc}
      /\ Together(put, loc) = {loc} /\ \A p \in Live(m) : Together(put, p) = Together(m, p)
  <2> HIDE DEF h, s, X
  <2>1. Wired(m, X)
    BY DEF X
  <2> QED BY <1>2, <2>1, StoneWires
<1>4. put.hash = BoardHash(Put(b, loc, side))
  <2>1. b \in BoardType
    BY DEF Wired, McShape
  <2> QED BY <1>3, <2>1, PutHash
<1> HIDE DEF put, h, s
<1>5. \A e \in X : e[2] # loc
  BY DEF BoardEdges
<1>6. Empty(put.board, Neighbors[loc]) = Empty(b, Neighbors[loc])
  <2>1. \A q \in Neighbors[loc] : q \in Points /\ q # loc
    BY PointsAssumption
  <2>2. \A q \in Points : q # loc => put.board[q] = b[q]
    <3>1. b \in BoardType
      BY DEF Wired, McShape
    <3> QED BY <1>3, <3>1 DEF Put, BoardType
  <2> QED BY <2>1, <2>2 DEF Empty
<1>7. /\ SameBut({"queue", "first", "nextE", "prevE"}, put, K)
      /\ Wired(K, X \cup EdgesFrom(Empty(put.board, Neighbors[loc]), loc))
      /\ Empty(put.board, Neighbors[loc]) \subseteq K.queue
  <2>1. loc \in Live(put)
    BY <1>3
  <2> HIDE DEF X
  <2> QED BY <1>1, <1>3, <1>5, <2>1, PutEdges
<1>8. SameBut(PutParts \cup {"queue", "nextE", "prevE"}, m, K)
  <2>1. SameBut(PutParts \cup {"queue", "first", "nextE", "prevE"}, m, K)
    BY <1>3, <1>7, SameButOn
  <2>2. PutParts \cup {"queue", "first", "nextE", "prevE"} = PutParts \cup {"queue", "nextE", "prevE"}
    BY DEF PutParts
  <2> QED BY <2>1, <2>2
<1>9. K.board = put.board /\ K.hash = put.hash /\ K.ref = put.ref
  BY <1>7 DEF SameBut, McFields
<1>10. Live(K) = Live(put) /\ \A p : Together(K, p) = Together(put, p)
  BY <1>9 DEF Live, Together
<1> QED BY <1>3, <1>4, <1>6, <1>7, <1>8, <1>9, <1>10 DEF StoneIsPut

-----------------------------------------------------------------------------
(* The second loop: the new stone is joined with its own.                  *)
JoinParts == {"ref", "next", "first", "nextE", "prevE", "queue"}

LEMMA RemoveEdgeKeeps ==
  ASSUME NEW m, NEW X, Wired(m, X), NEW lib, NEW loc, <<lib, loc>> \in X, NEW K, K = RemoveEdge(m, loc, lib)
  PROVE  /\ SameBut({"first", "nextE", "prevE"}, m, K) /\ Wired(K, X \ {<<lib, loc>>})
         /\ Live(K) = Live(m) /\ \A p : Together(K, p) = Together(m, p)
         /\ LastEdge(m, loc, lib) <=> Hung(m, X, m.ref[loc]) = {<<lib, loc>>}
<1>1. PICK e \in X : e = <<lib, loc>> /\ e[1] = lib /\ e[2] = loc
  OBVIOUS
<1>2. /\ SameBut({"first", "nextE", "prevE"}, m, K) /\ McShape(K) /\ EdgesWired(K, X \ {e})
      /\ LastEdge(m, e[2], e[1]) <=> Hung(m, X, m.ref[e[2]]) = {e}
  <2>1. McShape(m) /\ EdgesWired(m, X) /\ K = RemoveEdge(m, e[2], e[1])
    BY <1>1 DEF Wired
  <2> QED BY <2>1, RemoveEdgeWires, Zenon
<1>3. K.board = m.board /\ K.ref = m.ref /\ K.next = m.next
  BY <1>2 DEF SameBut, McFields
<1>4. StonesWired(m)
  BY DEF Wired
<1>5. StonesWired(K) /\ Live(K) = Live(m) /\ \A p : Together(K, p) = Together(m, p)
  BY <1>3, <1>4, StonesSame
<1> QED BY <1>1, <1>2, <1>5 DEF Wired

LEMMA JoinedWires ==
  ASSUME NEW m, NEW X, Wired(m, X), NEW loc \in Live(m), NEW q \in Live(m), <<loc, q>> \in X,
         NEW K, K = Joined(m, loc, q)
  PROVE  /\ SameBut(JoinParts, m, K) /\ Wired(K, X \ {<<loc, q>>}) /\ m.queue \subseteq K.queue
         /\ Live(K) = Live(m) /\ Together(K, loc) = Together(m, loc) \cup Together(m, q)
         /\ \A p \in Live(m) : p \notin Together(m, loc) \cup Together(m, q) => Together(K, p) = Together(m, p)
<1> DEFINE e == <<loc, q>>
           others == LibertiesFrom(m, q) \ {loc}
           queued == IF Cardinality(others) = 1 THEN Enqueued(m, others) ELSE m
           J == IF m.ref[loc] = m.ref[q] THEN m ELSE JoinStrings(queued, loc, q)
<1>1. Record(m)
  BY DEF Wired, McShape
<1>2. SameBut({"queue"}, m, queued) /\ m.queue \subseteq queued.queue
  <2>1. SameBut({"queue"}, m, Enqueued(m, others)) /\ Enqueued(m, others).queue = m.queue \cup others
    BY <1>1, EnqueuedIs
  <2>2. SameBut({"queue"}, m, m)
    BY <1>1, SameButSelf
  <2> HIDE DEF others
  <2> QED BY <2>1, <2>2
<1>3. K = RemoveEdge(J, q, loc) /\ e[1] = loc /\ e[2] = q
  BY DEF Joined
<1> HIDE DEF queued
<1>4. /\ SameBut(JoinParts, m, J) /\ Wired(J, X) /\ m.queue \subseteq J.queue
      /\ Live(J) = Live(m) /\ Together(J, loc) = Together(m, loc) \cup Together(m, q)
      /\ \A p \in Live(m) : p \notin Together(m, loc) \cup Together(m, q) => Together(J, p) = Together(m, p)
  <2>1. CASE m.ref[loc] = m.ref[q]
    <3>1. J = m
      BY <2>1
    <3>2. Together(m, loc) = Together(m, q)
      BY <2>1 DEF Together
    <3>3. SameBut(JoinParts, m, m)
      BY <1>1, SameButSelf
    <3> QED BY <3>1, <3>2, <3>3
  <2>2. CASE m.ref[loc] # m.ref[q]
    <3>1. J = JoinStrings(queued, loc, q)
      BY <2>2
    <3> HIDE DEF J
    <3>2. Wired(queued, X)
      <4>1. SameBut({"ko", "hash", "queue", "context", "values"}, m, queued)
        BY <1>2 DEF SameBut
      <4> QED BY <4>1, WiredSame
    <3>3. queued.ref = m.ref /\ Live(queued) = Live(m) /\ \A p : Together(queued, p) = Together(m, p)
      BY <1>2 DEF SameBut, McFields, Live, Together
    <3>4. Hung(queued, X, queued.ref[q]) # {}
      BY DEF Hung
    <3>5. /\ SameBut({"ref", "next", "nextE", "prevE"}, queued, J) /\ McShape(J)
          /\ \A x \in Points : J.ref[x] = IF x \in Together(queued, loc) THEN queued.ref[q] ELSE queued.ref[x]
          /\ StonesWired(J) /\ EdgesWired(J, X)
      BY <2>2, <3>1, <3>2, <3>3, <3>4, JoinWires DEF Wired
    <3>6. Live(J) = Live(m) /\ m.queue \subseteq J.queue
      BY <1>2, <3>3, <3>5 DEF SameBut, McFields, Live
    <3>7. \A x \in Live(m) : x \in Points /\ J.ref[x] = IF m.ref[x] = m.ref[loc] THEN m.ref[q] ELSE m.ref[x]
      BY <3>3, <3>5 DEF Together, Live
    <3>8. Together(J, loc) = Together(m, loc) \cup Together(m, q)
      BY <3>6, <3>7 DEF Together
    <3>9. ASSUME NEW p \in Live(m), p \notin Together(m, loc) \cup Together(m, q)
          PROVE  Together(J, p) = Together(m, p)
      <4>1. m.ref[p] # m.ref[loc] /\ m.ref[p] # m.ref[q]
        BY <3>9 DEF Together
      <4> QED BY <3>6, <3>7, <4>1 DEF Together
    <3>10. SameBut(JoinParts, m, J)
      BY <1>2, <3>5 DEF SameBut, JoinParts
    <3> QED BY <3>5, <3>6, <3>8, <3>9, <3>10 DEF Wired
  <2> QED BY <2>1, <2>2
<1> HIDE DEF J
<1>5. /\ SameBut({"first", "nextE", "prevE"}, J, K) /\ Wired(K, X \ {e})
      /\ Live(K) = Live(J) /\ \A p : Together(K, p) = Together(J, p)
  BY <1>3, <1>4, RemoveEdgeKeeps
<1>6. SameBut(JoinParts, m, K) /\ K.queue = J.queue
  BY <1>4, <1>5 DEF SameBut, JoinParts, McFields
<1> QED BY <1>4, <1>5, <1>6

Owned(b, S, side) == {q \in S : b[q] = side}
EdgesTo(loc, S) == {<<loc, q>> : q \in S}
Grouped(b, S, loc) == {loc} \cup UNION {StringAt(b, q) : q \in S}

JoinTurn(loc, b, side, n, q) == IF n.board[q] = side THEN Joined(n, loc, q) ELSE n
JoinHolds(loc, b, side, base, seq, k, v) ==
    LET S == Owned(b, Done(seq, k), side) IN
    /\ SameBut(JoinParts, base, v) /\ base.queue \subseteq v.queue
    /\ Wired(v, (BoardEdges(b) \cup EdgesFrom(Empty(b, Neighbors[loc]), loc)) \ EdgesTo(loc, S))
    /\ Together(v, loc) = Grouped(b, S, loc)
    /\ \A p \in Points : b[p] # "empty" /\ p \notin Grouped(b, S, loc) => Together(v, p) = StringAt(b, p)
Joins == INSTANCE Recursion WITH Turn <- JoinTurn, Holds <- JoinHolds

LEMMA JoinOwnWires ==
  ASSUME NEW base, NEW b \in BoardType, NEW loc \in Points, b[loc] = "empty", NEW side \in Colors,
         base.board = Put(b, loc, side),
         Wired(base, BoardEdges(b) \cup EdgesFrom(Empty(b, Neighbors[loc]), loc)),
         Together(base, loc) = {loc}, \A p \in Points : b[p] # "empty" => Together(base, p) = StringAt(b, p),
         NEW K, K = JoinOwn(base, loc, side)
  PROVE  JoinHolds(loc, b, side, base, Around[loc], Len(Around[loc]), K)
<1> DEFINE seq == Around[loc]
           n == Len(seq)
           X == BoardEdges(b) \cup EdgesFrom(Empty(b, Neighbors[loc]), loc)
<1>0. K = Joins!Loop(loc, b, side, base, seq)
  BY DEF JoinOwn, JoinTurn, FoldLeft, MapThenFoldSet, Max, Joins!Greatest, Joins!Loop, Joins!Rest, Joins!RestOver
<1>1. /\ n \in Nat /\ DOMAIN seq = 1 .. n /\ Done(seq, n) = Neighbors[loc] /\ Done(seq, 0) = {}
      /\ \A k \in 1 .. n : /\ seq[k] \in Neighbors[loc] /\ seq[k] \notin Done(seq, k - 1)
                           /\ Done(seq, k) = Done(seq, k - 1) \cup {seq[k]} /\ Done(seq, k) \subseteq Neighbors[loc]
  BY AroundFacts
<1> HIDE DEF n
<1>2. JoinHolds(loc, b, side, base, seq, 0, base)
  <2>1. Owned(b, Done(seq, 0), side) = {}
    BY <1>1 DEF Owned
  <2>2. EdgesTo(loc, {}) = {} /\ Grouped(b, {}, loc) = {loc} /\ X \ {} = X
    BY DEF EdgesTo, Grouped
  <2>3. SameBut(JoinParts, base, base)
    BY SameButSelf DEF Wired, McShape
  <2> QED BY <2>1, <2>2, <2>3 DEF JoinHolds
<1>3. side # "empty" /\ \A p \in Points : Put(b, loc, side)[p] = IF p = loc THEN side ELSE b[p]
  BY OthersColor DEF Put, BoardType
<1>4. ASSUME NEW k \in 1 .. n, NEW v, JoinHolds(loc, b, side, base, seq, k - 1, v)
      PROVE  /\ k \in DOMAIN seq => JoinHolds(loc, b, side, base, seq, k, JoinTurn(loc, b, side, v, seq[k]))
             /\ k \notin DOMAIN seq => JoinHolds(loc, b, side, base, seq, k, v)
  <2> DEFINE q == seq[k]
             w == JoinTurn(loc, b, side, v, q)
             D == Done(seq, k - 1)
             S == Owned(b, D, side)
  <2>1. q \in Neighbors[loc] /\ q \notin D /\ Done(seq, k) = D \cup {q} /\ q \in Points /\ q # loc
    BY <1>1, PointsAssumption
  <2>2. /\ SameBut(JoinParts, base, v) /\ base.queue \subseteq v.queue
        /\ Wired(v, X \ EdgesTo(loc, S)) /\ Together(v, loc) = Grouped(b, S, loc)
        /\ \A p \in Points : b[p] # "empty" /\ p \notin Grouped(b, S, loc) => Together(v, p) = StringAt(b, p)
    BY <1>4 DEF JoinHolds
  <2>3. v.board = Put(b, loc, side)
    BY <2>2 DEF SameBut, McFields, JoinParts
  <2>4. loc \in Live(v) /\ \A p \in Points : p \in Live(v) <=> p = loc \/ b[p] # "empty"
    BY <1>3, <2>3 DEF Live
  <2>5. CASE b[q] = side
    <3> DEFINE Y == X \ EdgesTo(loc, S)
    <3>1. w = Joined(v, loc, q)
      BY <1>3, <2>1, <2>3, <2>5 DEF JoinTurn
    <3>2. <<loc, q>> \in Y
      <4>1. <<loc, q>> \in BoardEdges(b)
        BY <1>3, <2>1, <2>5, BoardEdgeIs
      <4>2. <<loc, q>> \notin EdgesTo(loc, S)
        BY <2>1 DEF EdgesTo, Owned
      <4> QED BY <4>1, <4>2
    <3>3. q \in Live(v)
      BY <1>3, <2>1, <2>4, <2>5
    <3>4. /\ SameBut(JoinParts, v, w) /\ Wired(w, Y \ {<<loc, q>>}) /\ v.queue \subseteq w.queue
          /\ Live(w) = Live(v) /\ Together(w, loc) = Together(v, loc) \cup Together(v, q)
          /\ \A p \in Live(v) : p \notin Together(v, loc) \cup Together(v, q) => Together(w, p) = Together(v, p)
      <4>1. Wired(v, Y) /\ loc \in Live(v)
        BY <2>2, <2>4
      <4> HIDE DEF Y, w, q
      <4> QED BY <3>1, <3>2, <3>3, <4>1, JoinedWires
    <3>5. Owned(b, Done(seq, k), side) = S \cup {q}
      BY <2>1, <2>5 DEF Owned
    <3>6. Y \ {<<loc, q>>} = X \ EdgesTo(loc, S \cup {q})
      BY DEF EdgesTo
    <3>7. Grouped(b, S \cup {q}, loc) = Grouped(b, S, loc) \cup StringAt(b, q)
      BY DEF Grouped
    <3>8. q \in StringAt(b, q)
      BY <2>1, StringFacts
    <3>9. Grouped(b, S, loc) \cup Together(v, q) = Grouped(b, S, loc) \cup StringAt(b, q)
      <4>1. CASE q \in Grouped(b, S, loc)
        <5>1. PICK r \in S : q \in StringAt(b, r)
          BY <2>1, <4>1 DEF Grouped
        <5>2. r \in Points
          BY <1>1, <2>1, PointsAssumption DEF Owned
        <5>3. StringAt(b, q) = StringAt(b, r)
          BY <5>1, <5>2, StringsPartition
        <5>4. StringAt(b, q) \subseteq Grouped(b, S, loc)
          BY <5>1, <5>3 DEF Grouped
        <5>5. Together(v, q) = Together(v, loc)
          BY <2>2, <4>1 DEF Together
        <5> QED BY <2>2, <5>4, <5>5
      <4>2. CASE q \notin Grouped(b, S, loc)
        BY <1>3, <2>1, <2>2, <2>5, <4>2
      <4> QED BY <4>1, <4>2
    <3>10. ASSUME NEW p \in Points, b[p] # "empty", p \notin Grouped(b, S \cup {q}, loc)
           PROVE  Together(w, p) = StringAt(b, p)
      <4>1. p \in Live(v) /\ p \notin Grouped(b, S, loc) /\ p \notin StringAt(b, q)
        BY <2>4, <3>7, <3>10
      <4>2. p \notin Together(v, loc) \cup Together(v, q)
        BY <2>2, <3>9, <4>1
      <4> QED BY <2>2, <3>4, <3>10, <4>1, <4>2
    <3>11. SameBut(JoinParts, base, w)
      <4>1. SameBut(JoinParts \cup JoinParts, base, w)
        BY <2>2, <3>4, SameButOn
      <4> QED BY <4>1
    <3>12. JoinHolds(loc, b, side, base, seq, k, w)
      <4>1. Together(w, loc) = Grouped(b, S \cup {q}, loc)
        BY <2>2, <3>4, <3>7, <3>9
      <4> HIDE DEF w, q, S, Y
      <4>2. base.queue \subseteq w.queue /\ Wired(w, X \ EdgesTo(loc, S \cup {q}))
        BY <2>2, <3>4, <3>6
      <4> QED BY <3>5, <3>10, <3>11, <4>1, <4>2 DEF JoinHolds
    <3> QED BY <1>1, <3>12
  <2>6. CASE b[q] # side
    <3>1. w = v
      BY <1>3, <2>1, <2>3, <2>6 DEF JoinTurn
    <3>2. Owned(b, Done(seq, k), side) = S
      BY <2>1, <2>6 DEF Owned
    <3>3. JoinHolds(loc, b, side, base, seq, k, w)
      BY <2>2, <3>1, <3>2 DEF JoinHolds
    <3> QED BY <1>1, <3>3
  <2> QED BY <2>5, <2>6
<1>5. JoinHolds(loc, b, side, base, seq, n, K)
  <2> HIDE DEF seq
  <2>1. JoinHolds(loc, b, side, base, seq, n, Joins!Loop(loc, b, side, base, seq))
    BY <1>1, <1>2, <1>4, Joins!LoopKeeps
  <2> QED BY <1>0, <2>1
<1> QED BY <1>5 DEF n

(* What they are joined to is the string of the new stone.                 *)
LEMMA GroupedIs ==
  ASSUME NEW b \in BoardType, NEW loc \in Points, b[loc] = "empty", NEW side \in Colors,
         NEW B, B = Put(b, loc, side)
  PROVE  /\ Grouped(b, Owned(b, Neighbors[loc], side), loc) = StringAt(B, loc)
         /\ \A p \in Points : b[p] # "empty" /\ p \notin StringAt(B, loc) => StringAt(b, p) = StringAt(B, p)
<1> DEFINE S == Owned(b, Neighbors[loc], side)
<1>1. /\ \A p \in Points : B[p] = IF p = loc THEN side ELSE b[p]
      /\ side # "empty" /\ Neighbors[loc] \subseteq Points /\ loc \notin Neighbors[loc]
  BY OthersColor, PointsAssumption DEF Put, BoardType
<1>2. ASSUME NEW q \in S PROVE StringAt(b, q) \subseteq StringAt(B, loc)
  <2>1. q \in Points /\ q # loc /\ b[q] = side /\ B[q] = side /\ loc \in Neighbors[q] /\ B[loc] = side
    BY <1>1, PointsAssumption DEF Owned
  <2>2. Closed(Stones(B, B[loc]), StringAt(B, loc)) /\ loc \in StringAt(B, loc)
    BY StringIsClosed, StringFacts
  <2>3. q \in StringAt(B, loc)
    BY <2>1, <2>2 DEF Closed, Stones
  <2>4. StringAt(B, q) = StringAt(B, loc)
    BY <2>3, StringsPartition
  <2>5. StringAt(b, q) \subseteq StringAt(B, q)
    BY <2>1, PutOwn
  <2> QED BY <2>4, <2>5
<1>3. Grouped(b, S, loc) \subseteq StringAt(B, loc)
  <2>1. loc \in StringAt(B, loc)
    BY StringFacts
  <2> HIDE DEF S
  <2> QED BY <1>2, <2>1 DEF Grouped
<1>4. ASSUME NEW r \in StringAt(B, loc) PROVE r \in Grouped(b, S, loc)
  <2>1. r = loc \/ \E q \in Neighbors[loc] : b[q] = side /\ r \in StringAt(b, q)
    BY <1>4, PutString
  <2> QED BY <2>1 DEF Grouped, Owned
<1>5. ASSUME NEW p \in Points, b[p] # "empty", p \notin StringAt(B, loc) PROVE StringAt(b, p) = StringAt(B, p)
  <2>1. b[p] = side \/ b[p] = Other(side)
    BY <1>5, OthersColor DEF BoardType
  <2>2. CASE b[p] = side
    BY <1>5, <2>2, PutOwn
  <2>3. CASE b[p] = Other(side)
    BY <2>3, PutOthers
  <2> QED BY <2>1, <2>2, <2>3
<1> QED BY <1>3, <1>4, <1>5

(* The edges that are left: those of the board, and the new stone as a     *)
(* liberty of the others next to it.                                       *)
Others(b, loc, side) == Owned(b, Neighbors[loc], Other(side))

LEMMA EdgesLeft ==
  ASSUME NEW b \in BoardType, NEW loc \in Points, b[loc] = "empty", NEW side \in Colors,
         NEW B, B = Put(b, loc, side)
  PROVE  (BoardEdges(b) \cup EdgesFrom(Empty(b, Neighbors[loc]), loc)) \ EdgesTo(loc, Owned(b, Neighbors[loc], side))
         = BoardEdges(B) \cup EdgesTo(loc, Others(b, loc, side))
<1> DEFINE L == (BoardEdges(b) \cup EdgesFrom(Empty(b, Neighbors[loc]), loc)) \ EdgesTo(loc, Owned(b, Neighbors[loc], side))
           R == BoardEdges(B) \cup EdgesTo(loc, Others(b, loc, side))
<1>1. /\ \A p \in Points : B[p] = IF p = loc THEN side ELSE b[p]
      /\ side # "empty" /\ Other(side) # "empty" /\ Neighbors[loc] \subseteq Points /\ loc \notin Neighbors[loc]
      /\ Other(side) # side /\ \A p \in Points : b[p] \in {"empty", side, Other(side)}
  BY OthersColor, PointsAssumption DEF Put, BoardType
<1>2. /\ \A e \in Edges : e = <<e[1], e[2]>> /\ e[1] \in Points /\ e[2] \in Points /\ e[2] \in Neighbors[e[1]] /\ e[1] \in Neighbors[e[2]]
  BY EdgePoints
<1>3. \A q \in Neighbors[loc] : <<q, loc>> \in Edges /\ <<loc, q>> \in Edges /\ q # loc
  BY <1>1, BoardEdgeIs
<1>4. L \subseteq Edges /\ R \subseteq Edges
  BY <1>3 DEF BoardEdges, EdgesFrom, EdgesTo, Others, Owned, Empty
<1>5. ASSUME NEW e \in Edges PROVE e \in L <=> e \in R
  <2>0. e = <<e[1], e[2]>> /\ e[1] \in Points /\ e[2] \in Points /\ e[2] \in Neighbors[e[1]] /\ e[1] \in Neighbors[e[2]]
    BY <1>2
  <2>1. e \in EdgesFrom(Empty(b, Neighbors[loc]), loc) <=> e[2] = loc /\ b[e[1]] = "empty"
    BY <2>0 DEF EdgesFrom, Empty
  <2>2. /\ e \in EdgesTo(loc, Owned(b, Neighbors[loc], side)) <=> e[1] = loc /\ b[e[2]] = side
        /\ e \in EdgesTo(loc, Others(b, loc, side)) <=> e[1] = loc /\ b[e[2]] = Other(side)
    BY <2>0 DEF EdgesTo, Owned, Others
  <2>3. e \in BoardEdges(b) <=> b[e[2]] # "empty" /\ b[e[1]] = "empty"
    BY DEF BoardEdges
  <2>4. e \in BoardEdges(B) <=> B[e[2]] # "empty" /\ B[e[1]] = "empty"
    BY DEF BoardEdges
  <2>5. e[1] # e[2]
    BY <2>0, PointsAssumption
  <2> QED BY <1>1, <2>0, <2>1, <2>2, <2>3, <2>4, <2>5
<1> HIDE DEF L, R
<1>6. L = R
  BY <1>4, <1>5
<1> QED BY <1>6 DEF L, R

(* After the two loops.                                                    *)
Joining(m, b, loc, side, B, K) ==
    /\ Holding(m, b) /\ \A p \in Points : b[p] # "empty" => Together(m, p) = StringAt(b, p)
    /\ loc \in Points /\ b[loc] = "empty" /\ side \in Colors
    /\ B = Put(b, loc, side) /\ K = JoinOwn(PutStone(m, loc, side), loc, side)
OwnIsJoined(m, b, loc, side, B, K) ==
    /\ SameBut(PutParts \cup {"queue", "nextE", "prevE"}, m, K)
    /\ K.board = B /\ K.hash = BoardHash(B)
    /\ Wired(K, BoardEdges(B) \cup EdgesTo(loc, Others(b, loc, side)))
    /\ Empty(b, Neighbors[loc]) \subseteq K.queue
    /\ \A p \in Points : B[p] # "empty" => Together(K, p) = StringAt(B, p)

LEMMA OwnJoined ==
  ASSUME NEW m, NEW b, NEW loc, NEW side, NEW B, NEW K, Joining(m, b, loc, side, B, K)
  PROVE  OwnIsJoined(m, b, loc, side, B, K)
<1> SUFFICES ASSUME Holding(m, b), \A p \in Points : b[p] # "empty" => Together(m, p) = StringAt(b, p),
                    loc \in Points, b[loc] = "empty", side \in Colors, B = Put(b, loc, side),
                    K = JoinOwn(PutStone(m, loc, side), loc, side)
             PROVE  OwnIsJoined(m, b, loc, side, B, K)
  BY DEF Joining
<1> DEFINE J == PutStone(m, loc, side)
<1>1. b \in BoardType /\ side # "empty" /\ \A p \in Points : B[p] = IF p = loc THEN side ELSE b[p]
  BY OthersColor DEF Put, BoardType, Holding, Wired, McShape
<1>2. /\ SameBut(PutParts \cup {"queue", "nextE", "prevE"}, m, J) /\ J.board = B /\ J.hash = BoardHash(B)
      /\ Wired(J, BoardEdges(b) \cup EdgesFrom(Empty(b, Neighbors[loc]), loc))
      /\ Empty(b, Neighbors[loc]) \subseteq J.queue
      /\ Together(J, loc) = {loc} /\ \A p \in Points : b[p] # "empty" => Together(J, p) = StringAt(b, p)
  <2>1. \A p \in Points : b[p] # "empty" => p \in Live(m)
    BY DEF Holding, Live
  <2>2. J = PutStone(m, loc, side)
    OBVIOUS
  <2> HIDE DEF J
  <2>3. StoneIsPut(m, b, loc, side, J)
    BY <2>2, PutStoneWires
  <2> QED BY <2>1, <2>3 DEF StoneIsPut
<1> DEFINE S == Owned(b, Neighbors[loc], side)
           n == Len(Around[loc])
<1> HIDE DEF J
<1>3. JoinHolds(loc, b, side, J, Around[loc], n, K)
  <2>1. K = JoinOwn(J, loc, side)
    BY DEF J
  <2> QED BY <1>1, <1>2, <2>1, JoinOwnWires
<1>4. Done(Around[loc], n) = Neighbors[loc]
  BY AroundFacts
<1>5. /\ SameBut(JoinParts, J, K) /\ J.queue \subseteq K.queue
      /\ Wired(K, (BoardEdges(b) \cup EdgesFrom(Empty(b, Neighbors[loc]), loc)) \ EdgesTo(loc, S))
      /\ Together(K, loc) = Grouped(b, S, loc)
      /\ \A p \in Points : b[p] # "empty" /\ p \notin Grouped(b, S, loc) => Together(K, p) = StringAt(b, p)
  BY <1>3, <1>4 DEF JoinHolds
<1>6. Wired(K, BoardEdges(B) \cup EdgesTo(loc, Others(b, loc, side)))
  BY <1>1, <1>5, EdgesLeft
<1>7. Together(K, loc) = StringAt(B, loc)
      /\ \A p \in Points : b[p] # "empty" /\ p \notin StringAt(B, loc) => Together(K, p) = StringAt(B, p)
  BY <1>1, <1>5, GroupedIs
<1>8. ASSUME NEW p \in Points, B[p] # "empty" PROVE Together(K, p) = StringAt(B, p)
  <2>1. CASE p \in StringAt(B, loc)
    <3>1. StringAt(B, p) = StringAt(B, loc)
      BY <2>1, StringsPartition
    <3>2. p \in Together(K, loc)
      BY <1>7, <2>1
    <3>3. Together(K, p) = Together(K, loc)
      BY <3>2 DEF Together
    <3> QED BY <1>7, <3>1, <3>3
  <2>2. CASE p \notin StringAt(B, loc)
    <3>1. loc \in StringAt(B, loc)
      BY StringFacts
    <3>2. b[p] # "empty"
      BY <1>1, <1>8, <2>2, <3>1
    <3> QED BY <1>7, <2>2, <3>2
  <2> QED BY <2>1, <2>2
<1>9. SameBut(PutParts \cup {"queue", "nextE", "prevE"}, m, K)
  <2>1. SameBut((PutParts \cup {"queue", "nextE", "prevE"}) \cup JoinParts, m, K)
    BY <1>2, <1>5, SameButOn
  <2>2. (PutParts \cup {"queue", "nextE", "prevE"}) \cup JoinParts = PutParts \cup {"queue", "nextE", "prevE"}
    BY DEF PutParts, JoinParts
  <2> QED BY <2>1, <2>2
<1>10. K.board = B /\ K.hash = BoardHash(B)
  BY <1>2, <1>5 DEF SameBut, JoinParts, McFields
<1> QED BY <1>2, <1>5, <1>6, <1>8, <1>9, <1>10 DEF OwnIsJoined

-----------------------------------------------------------------------------
(* Liberties as the edges tell them.                                       *)
LibsIn(m, X, x) == {e[1] : e \in Hung(m, X, m.ref[x])}
Laced(m, X) == McShape(m) /\ EdgesWired(m, X)

LEMMA LibertiesFromIs ==
  ASSUME NEW m, NEW X, Laced(m, X), NEW x \in Live(m)
  PROVE  /\ LibertiesFrom(m, x) = LibsIn(m, X, x)
         /\ \A e \in Hung(m, X, m.ref[x]) : LibertiesAlong(m, e) = LibsIn(m, X, x)
<1> DEFINE E == Hung(m, X, m.ref[x])
           f == m.first[m.ref[x]]
<1>1. E \in SUBSET Edges /\ Looped(m.nextE, m.prevE, f, E) /\ DOMAIN m.nextE = Edges
  BY DEF Laced, EdgesWired, Hung, McShape
<1> HIDE DEF E, f
<1>2. ASSUME E # {}, NEW e \in E PROVE LibertiesAlong(m, e) = {d[1] : d \in E}
  <2>1. Ring(m.nextE, f, E)
    BY <1>1, <1>2 DEF Looped
  <2>2. Ring(m.nextE, e, E)
    BY <2>1, RingSame
  <2>3. ToSet(Along(m.nextE, e)) = E
    BY <1>1, <2>2, EdgesFinite, AlongIs
  <2>4. e # NoEdge
    BY <1>1, EdgesFinite
  <2> QED BY <2>3, <2>4 DEF LibertiesAlong
<1>3. E # {} => f \in E
  BY <1>1 DEF Looped, Ring
<1>4. E = {} => LibertiesAlong(m, f) = {d[1] : d \in E}
  BY <1>1 DEF Looped, LibertiesAlong
<1>5. LibertiesAlong(m, f) = {d[1] : d \in E}
  BY <1>2, <1>3, <1>4
<1>6. \A e \in E : LibertiesAlong(m, e) = {d[1] : d \in E}
  BY <1>2
<1> QED BY <1>5, <1>6 DEF LibertiesFrom, LibsIn, E, f

LEMMA LibsFinite ==
  ASSUME NEW m, NEW X, Laced(m, X), NEW x, NEW p, LibsIn(m, X, x) = {p}
  PROVE  Cardinality(LibsIn(m, X, x)) = 1
BY FS_Singleton

(* What has one liberty only and is seen to have others is queued.         *)
Watch(F, m, X, K, Y) ==
    /\ m.queue \subseteq K.queue
    /\ \A y \in F : \A p : LibsIn(m, X, y) = {p} /\ LibsIn(K, Y, y) # {p} => p \in K.queue

LEMMA WatchOn ==
  ASSUME NEW F, NEW m, NEW X, NEW v, NEW Y, NEW w, NEW Z, Watch(F, m, X, v, Y), Watch(F, v, Y, w, Z)
  PROVE  Watch(F, m, X, w, Z)
BY DEF Watch

LEMMA WatchSame ==
  ASSUME NEW F, NEW m, NEW X, NEW K, NEW Y, m.queue \subseteq K.queue, \A y \in F : LibsIn(K, Y, y) = LibsIn(m, X, y)
  PROVE  Watch(F, m, X, K, Y)
BY DEF Watch

LEMMA LacedSame ==
  ASSUME NEW m, NEW X, Laced(m, X), NEW K, SameBut({"ko", "hash", "queue", "context", "values"}, m, K)
  PROVE  Laced(K, X) /\ Live(K) = Live(m) /\ \A x : LibsIn(K, X, x) = LibsIn(m, X, x)
<1>1. McShape(K)
  BY ShapeKept DEF Laced
<1>2. K.board = m.board /\ K.ref = m.ref /\ K.first = m.first /\ K.nextE = m.nextE /\ K.prevE = m.prevE
  BY DEF SameBut, McFields
<1>3. Live(K) = Live(m)
  BY <1>2 DEF Live
<1>4. \A r : Hung(K, X, r) = Hung(m, X, r)
  BY <1>2 DEF Hung
<1>5. EdgesWired(K, X)
  BY <1>2, <1>3, <1>4 DEF Laced, EdgesWired
<1>6. \A x : LibsIn(K, X, x) = LibsIn(m, X, x)
  BY <1>2, <1>4 DEF LibsIn
<1> QED BY <1>1, <1>3, <1>5, <1>6 DEF Laced

LEMMA AddEdgeLaces ==
  ASSUME NEW m, NEW X, Laced(m, X), NEW loc \in Live(m), NEW lib \in Neighbors[loc], <<lib, loc>> \notin X,
         NEW K, K = AddEdge(m, loc, lib)
  PROVE  SameBut({"first", "nextE", "prevE"}, m, K) /\ Laced(K, X \cup {<<lib, loc>>})
<1> DEFINE e == <<lib, loc>>
           r == m.ref[loc]
<1>1. e \in Edges /\ e[1] = lib /\ e[2] = loc
  <2>1. loc \in Points /\ lib \in Points /\ loc \in Neighbors[lib]
    BY PointsAssumption DEF Live
  <2> QED BY <2>1, EdgeFacts
<1>2. r \in Points /\ McShape(m) /\ EdgesWired(m, X)
  BY DEF Laced, EdgesWired
<1> HIDE DEF r
<1>3. AddEdgeTo(m, r, e, K)
  <2>1. r = m.ref[loc] /\ e = <<lib, loc>>
    BY DEF r
  <2> HIDE DEF e
  <2> QED BY <1>1, <1>2, <2>1, AddEdgeIs
<1>4. EdgesWired(K, X \cup {e})
  <2>1. e \notin X /\ e[2] \in Live(m) /\ r = m.ref[e[2]]
    BY DEF r
  <2> HIDE DEF e
  <2> QED BY <1>1, <1>2, <1>3, <2>1, AddEdgeWires
<1> QED BY <1>3, <1>4 DEF AddEdgeTo, Laced

(* A string gets a liberty where a stone is taken: until then it may have  *)
(* had two at most, which are queued.                                      *)
FreedParts == {"queue", "first", "nextE", "prevE"}

LEMMA FreedOne ==
  ASSUME NEW m, NEW X, Laced(m, X), NEW r \in Live(m), NEW t \in Neighbors[r], <<t, r>> \notin X, NEW F,
         NEW K, K = AddEdge(QueueMaxTwoLiberties(m, r), r, t)
  PROVE  /\ SameBut(FreedParts, m, K) /\ Laced(K, X \cup {<<t, r>>})
         /\ Watch(F, m, X, K, X \cup {<<t, r>>})
<1> DEFINE u == QueueMaxTwoLiberties(m, r)
           Y == X \cup {<<t, r>>}
<1>1. /\ SameBut({"queue"}, m, u) /\ m.queue \subseteq u.queue
      /\ Cardinality(LibertiesFrom(m, r)) <= 2 => u.queue = m.queue \cup LibertiesFrom(m, r)
  BY QueueMaxTwoIs DEF Laced, McShape
<1> HIDE DEF u
<1>2. Laced(u, X) /\ Live(u) = Live(m)
  <2>1. SameBut({"ko", "hash", "queue", "context", "values"}, m, u)
    BY <1>1 DEF SameBut
  <2> QED BY <2>1, LacedSame
<1>3. SameBut({"first", "nextE", "prevE"}, u, K) /\ Laced(K, Y)
  BY <1>2, AddEdgeLaces DEF u
<1>4. SameBut(FreedParts, m, K) /\ K.queue = u.queue /\ K.ref = m.ref
  BY <1>1, <1>3 DEF SameBut, FreedParts, McFields
<1>5. ASSUME NEW y \in F, NEW p, LibsIn(m, X, y) = {p}, LibsIn(K, Y, y) # {p} PROVE p \in K.queue
  <2>1. CASE m.ref[y] = m.ref[r]
    <3>1. LibsIn(m, X, r) = {p}
      BY <1>5, <2>1 DEF LibsIn
    <3>2. LibertiesFrom(m, r) = {p}
      BY <3>1, LibertiesFromIs
    <3>3. Cardinality({p}) = 1
      BY FS_Singleton
    <3> QED BY <1>1, <1>4, <3>2, <3>3
  <2>2. CASE m.ref[y] # m.ref[r]
    <3>1. Hung(K, Y, K.ref[y]) = Hung(m, X, m.ref[y])
      BY <1>4, <2>2 DEF Hung
    <3> QED BY <1>5, <3>1 DEF LibsIn
  <2> QED BY <2>1, <2>2
<1> QED BY <1>1, <1>3, <1>4, <1>5 DEF Watch

FreedTurn(t, friend, c, n, r) == IF n.board[r] = friend THEN AddEdge(QueueMaxTwoLiberties(n, r), r, t) ELSE n
FreedHolds(t, friend, X, base, seq, k, v) ==
    LET Y == X \cup EdgesTo(t, Owned(base.board, Done(seq, k), friend)) IN
    SameBut(FreedParts, base, v) /\ Laced(v, Y) /\ Watch(Points, base, X, v, Y)
Frees == INSTANCE Recursion WITH Turn <- FreedTurn, Holds <- FreedHolds

LEMMA FreedAll ==
  ASSUME NEW m, NEW X, Laced(m, X), NEW t \in Points, NEW friend \in Colors, \A e \in X : e[1] # t,
         NEW K, K = Frees!Loop(t, friend, X, m, Around[t])
  PROVE  FreedHolds(t, friend, X, m, Around[t], Len(Around[t]), K)
<1> DEFINE seq == Around[t]
           n == Len(seq)
           b == m.board
<1>1. /\ n \in Nat /\ DOMAIN seq = 1 .. n /\ Done(seq, n) = Neighbors[t] /\ Done(seq, 0) = {}
      /\ \A k \in 1 .. n : /\ seq[k] \in Neighbors[t] /\ seq[k] \notin Done(seq, k - 1)
                           /\ Done(seq, k) = Done(seq, k - 1) \cup {seq[k]} /\ Done(seq, k) \subseteq Neighbors[t]
  BY AroundFacts
<1> HIDE DEF n
<1>2. FreedHolds(t, friend, X, m, seq, 0, m)
  <2>1. X \cup EdgesTo(t, Owned(b, Done(seq, 0), friend)) = X
    BY <1>1 DEF Owned, EdgesTo
  <2>2. SameBut(FreedParts, m, m)
    BY SameButSelf DEF Laced, McShape
  <2>3. Watch(Points, m, X, m, X)
    BY WatchSame
  <2> QED BY <2>1, <2>2, <2>3 DEF FreedHolds
<1>3. ASSUME NEW k \in 1 .. n, NEW v, FreedHolds(t, friend, X, m, seq, k - 1, v)
      PROVE  /\ k \in DOMAIN seq => FreedHolds(t, friend, X, m, seq, k, FreedTurn(t, friend, X, v, seq[k]))
             /\ k \notin DOMAIN seq => FreedHolds(t, friend, X, m, seq, k, v)
  <2> DEFINE r == seq[k]
             w == FreedTurn(t, friend, X, v, r)
             D == Done(seq, k - 1)
             Y == X \cup EdgesTo(t, Owned(b, D, friend))
  <2>1. r \in Neighbors[t] /\ r \notin D /\ Done(seq, k) = D \cup {r} /\ r \in Points /\ t \in Neighbors[r]
    BY <1>1, PointsAssumption
  <2>2. SameBut(FreedParts, m, v) /\ Laced(v, Y) /\ Watch(Points, m, X, v, Y)
    BY <1>3 DEF FreedHolds
  <2>3. v.board = b
    BY <2>2 DEF SameBut, McFields, FreedParts
  <2>4. CASE b[r] = friend
    <3>1. w = AddEdge(QueueMaxTwoLiberties(v, r), r, t)
      BY <2>3, <2>4 DEF FreedTurn
    <3>2. r \in Live(v)
      BY <2>1, <2>3, <2>4, OthersColor DEF Live
    <3>3. <<t, r>> \notin Y
      <4>1. <<t, r>> \notin X
        <5>1. <<t, r>>[1] = t
          OBVIOUS
        <5> QED BY <5>1
      <4>2. <<t, r>> \notin EdgesTo(t, Owned(b, D, friend))
        BY <2>1 DEF EdgesTo, Owned
      <4> QED BY <4>1, <4>2
    <3> HIDE DEF w, Y, r
    <3>4. SameBut(FreedParts, v, w) /\ Laced(w, Y \cup {<<t, r>>}) /\ Watch(Points, v, Y, w, Y \cup {<<t, r>>})
      BY <2>1, <2>2, <3>1, <3>2, <3>3, FreedOne
    <3>5. Y \cup {<<t, r>>} = X \cup EdgesTo(t, Owned(b, Done(seq, k), friend))
      BY <2>1, <2>4 DEF Y, EdgesTo, Owned
    <3>6. SameBut(FreedParts, m, w)
      <4>1. SameBut(FreedParts \cup FreedParts, m, w)
        BY <2>2, <3>4, SameButOn
      <4> QED BY <4>1
    <3>7. Watch(Points, m, X, w, Y \cup {<<t, r>>})
      BY <2>2, <3>4, WatchOn
    <3>8. FreedHolds(t, friend, X, m, seq, k, w)
      BY <3>4, <3>5, <3>6, <3>7 DEF FreedHolds
    <3> QED BY <1>1, <3>8 DEF w, r
  <2>5. CASE b[r] # friend
    <3>1. w = v
      BY <2>3, <2>5 DEF FreedTurn
    <3>2. Owned(b, Done(seq, k), friend) = Owned(b, D, friend)
      BY <2>1, <2>5 DEF Owned
    <3>3. FreedHolds(t, friend, X, m, seq, k, w)
      BY <2>2, <3>1, <3>2 DEF FreedHolds
    <3> QED BY <1>1, <3>3
  <2> QED BY <2>4, <2>5
<1>4. FreedHolds(t, friend, X, m, seq, n, K)
  <2> HIDE DEF seq
  <2>1. FreedHolds(t, friend, X, m, seq, n, Frees!Loop(t, friend, X, m, seq))
    BY <1>1, <1>2, <1>3, Frees!LoopKeeps
  <2> QED BY <2>1 DEF seq
<1> QED BY <1>4 DEF n

TakeParts == FreedParts \cup {"board", "hash", "seen"}

StoneIsTaken(m, X, t, Y, K) ==
    /\ SameBut(TakeParts, m, K) /\ Laced(K, Y) /\ Watch(Points, m, X, K, Y)
    /\ K.board = Cleared(m.board, {t}) /\ K.hash = BoardHash(K.board)
    /\ {t} \cup Empty(m.board, Neighbors[t]) \subseteq K.queue

LEMMA TakeStoneIs ==
  ASSUME NEW m, NEW X, Laced(m, X), NEW t \in Points, NEW friend \in Colors, m.board[t] = Other(friend),
         \A e \in X : e[1] # t /\ e[2] # t, m.hash = BoardHash(m.board),
         NEW Y, Y = X \cup EdgesTo(t, Owned(m.board, Neighbors[t], friend))
  PROVE  StoneIsTaken(m, X, t, Y, TakeStone(m, t))
<1> DEFINE b == m.board
           J == Frees!Loop(t, Other(b[t]), X, m, Around[t])
           h == SymDiff(J.hash, {StoneHash(t, b[t])})
           s == [q \in Points |-> IF q \in Vicinity(t) THEN SymDiff(J.seen[q], {<<t, b[t]>>}) ELSE J.seen[q]]
           L == [J EXCEPT !.board[t] = "empty", !.hash = SymDiff(@, {StoneHash(t, b[t])}),
                          !.seen = [q \in Points |-> IF q \in Vicinity(t) THEN SymDiff(@[q], {<<t, b[t]>>}) ELSE @[q]]]
           S == {t} \cup {q \in Vicinity(t) : b[q] = "empty"}
           K == TakeStone(m, t)
<1>1. Other(b[t]) = friend /\ b[t] \in Colors
  BY OthersColor
<1>2. K = Enqueued(L, S)
  BY DEF TakeStone, FreedTurn, FoldLeft, MapThenFoldSet, Max, Frees!Greatest, Frees!Loop, Frees!Rest, Frees!RestOver
<1>3. SameBut(FreedParts, m, J) /\ Laced(J, Y) /\ Watch(Points, m, X, J, Y)
  <2> HIDE DEF J
  <2>1. FreedHolds(t, friend, X, m, Around[t], Len(Around[t]), J)
    BY <1>1, FreedAll DEF J
  <2>2. Done(Around[t], Len(Around[t])) = Neighbors[t]
    BY AroundFacts
  <2> QED BY <2>1, <2>2 DEF FreedHolds
<1> HIDE DEF J, S, K
<1>4. J.board = b /\ J.hash = m.hash /\ J.seen = m.seen /\ J.ref = m.ref /\ Record(J) /\ b \in BoardType
      /\ J.seen \in [Points -> SUBSET (Points \X Colors)]
  BY <1>3 DEF SameBut, McFields, FreedParts, Laced, McShape
<1>5. SameBut({"board", "hash", "seen"}, J, L) /\ L.board = [J.board EXCEPT ![t] = "empty"] /\ L.hash = h /\ L.seen = s
  <2>1. SameBut({"board", "hash", "seen"}, J, L)
    BY <1>4 DEF SameBut, Record, McFields
  <2>2. L.board = [J.board EXCEPT ![t] = "empty"] /\ L.hash = h
    BY <1>4 DEF Record, McFields
  <2>3. L.seen = s
    BY <1>4 DEF Record, McFields
  <2> QED BY <2>1, <2>2, <2>3
<1>6. s \in [Points -> SUBSET (Points \X Colors)]
  <2>1. \A q \in Points : J.seen[q] \in SUBSET (Points \X Colors) /\ <<t, b[t]>> \in Points \X Colors
    BY <1>1, <1>4
  <2>2. \A q \in Points : SymDiff(J.seen[q], {<<t, b[t]>>}) \in SUBSET (Points \X Colors)
    BY <2>1 DEF SymDiff
  <2> QED BY <2>1, <2>2
<1> HIDE DEF L, h, s
<1>7. L.board = Cleared(b, {t}) /\ L.board \in BoardType /\ L.hash = BoardHash(L.board)
  <2>1. L.board = Cleared(b, {t})
    BY <1>4, <1>5 DEF Cleared, BoardType
  <2>2. L.board \in BoardType
    BY <1>1, <1>4, <2>1, BoardTypes
  <2>3. StoneHashes(b, {t}) = {StoneHash(t, b[t])}
    BY DEF StoneHashes
  <2>4. SymDiff(BoardHash(b), StoneHashes(b, {t})) = BoardHash(Cleared(b, {t}))
    BY <1>1, <1>4, ClearedHash
  <2> QED BY <1>4, <1>5, <2>1, <2>2, <2>3, <2>4 DEF h
<1>8. SameBut({"queue"}, L, K) /\ K.queue = L.queue \cup S
  BY <1>2, <1>5, EnqueuedIs DEF SameBut
<1>9. SameBut(TakeParts, m, K) /\ K.board = L.board /\ K.hash = L.hash /\ K.seen = s /\ K.queue = J.queue \cup S
      /\ K.ref = m.ref /\ K.first = J.first /\ K.nextE = J.nextE /\ K.prevE = J.prevE /\ K.next = J.next
  <2>1. SameBut(TakeParts, m, K)
    BY <1>3, <1>5, <1>8 DEF SameBut, TakeParts, FreedParts
  <2> QED BY <1>4, <1>5, <1>8, <2>1 DEF SameBut, McFields
<1>10. McShape(K)
  <2>1. McShape(J)
    BY <1>3 DEF Laced
  <2> QED BY <1>4, <1>6, <1>7, <1>9, <2>1 DEF McShape, SameBut
<1>11. Live(K) = Live(m) \ {t} /\ Live(J) = Live(m)
  BY <1>4, <1>7, <1>9 DEF Live, Cleared
<1>12. \A r : Hung(K, Y, r) = Hung(J, Y, r)
  BY <1>4, <1>9 DEF Hung
<1>13. EdgesWired(K, Y)
  <2>1. EdgesWired(J, Y)
    BY <1>3 DEF Laced
  <2>2. ASSUME NEW e \in Y PROVE e[2] # t
    <3>1. CASE e \in X
      BY <3>1
    <3>2. CASE e \in EdgesTo(t, Owned(b, Neighbors[t], friend))
      BY <3>2, PointsAssumption DEF EdgesTo, Owned
    <3> QED BY <3>1, <3>2
  <2>3. Y \in SUBSET Edges /\ \A e \in Y : e[2] \in Live(K)
    BY <1>11, <2>1, <2>2 DEF EdgesWired
  <2>4. \A p \in Live(J) : J.ref[p] \in Points /\ Looped(J.nextE, J.prevE, J.first[J.ref[p]], Hung(J, Y, J.ref[p]))
    BY <2>1 DEF EdgesWired
  <2>5. \A p \in Live(K) : K.ref[p] \in Points /\ Looped(K.nextE, K.prevE, K.first[K.ref[p]], Hung(K, Y, K.ref[p]))
    <3>1. K.ref = J.ref /\ K.first = J.first /\ K.nextE = J.nextE /\ K.prevE = J.prevE
      BY <1>4, <1>9
    <3>2. \A p \in Live(K) : p \in Live(J)
      BY <1>11
    <3> QED BY <1>12, <2>4, <3>1, <3>2
  <2> QED BY <2>3, <2>5 DEF EdgesWired
<1>14. \A x : LibsIn(K, Y, x) = LibsIn(J, Y, x)
  BY <1>4, <1>9, <1>12 DEF LibsIn
<1>15. Watch(Points, m, X, K, Y)
  BY <1>3, <1>9, <1>14 DEF Watch
<1>16. {t} \cup Empty(b, Neighbors[t]) \subseteq K.queue
  BY <1>9 DEF S, Empty, Vicinity
<1> QED BY <1>7, <1>9, <1>10, <1>13, <1>15, <1>16 DEF Laced, StoneIsTaken, K

(* mc_remove_string: its stones are taken one by one; the edges they leave *)
(* are hung on the stones of the other color.                              *)
FreedEdges(b, T, friend) == {e \in Edges : e[1] \in T /\ b[e[2]] = friend}
Due(b, T) == T \cup {p \in Points : b[p] = "empty" /\ Neighbors[p] \cap T # {}}

CaptureTurn(a, b, c, n, t) == TakeStone(n, t)
CaptureHolds(X, friend, c, base, seq, k, v) ==
    LET T == Done(seq, k)
        Y == X \cup FreedEdges(base.board, T, friend)
    IN /\ SameBut(TakeParts, base, v) /\ Laced(v, Y) /\ Watch(Points, base, X, v, Y)
       /\ v.board = Cleared(base.board, T) /\ v.hash = BoardHash(v.board) /\ Due(base.board, T) \subseteq v.queue
Captures == INSTANCE Recursion WITH Turn <- CaptureTurn, Holds <- CaptureHolds

LEMMA FreedBy ==
  ASSUME NEW b \in BoardType, NEW T, NEW t \in Points, NEW friend \in Colors, \A x \in T : b[x] # friend,
         NEW v, v = Cleared(b, T)
  PROVE  /\ FreedEdges(b, T, friend) \cup EdgesTo(t, Owned(v, Neighbors[t], friend)) = FreedEdges(b, T \cup {t}, friend)
         /\ Cleared(v, {t}) = Cleared(b, T \cup {t})
         /\ Due(b, T \cup {t}) \subseteq Due(b, T) \cup {t} \cup Empty(v, Neighbors[t])
<1>1. \A x \in Points : v[x] = IF x \in T THEN "empty" ELSE b[x]
  BY DEF Cleared
<1>2. friend # "empty" /\ Neighbors[t] \subseteq Points
  BY OthersColor, PointsAssumption
<1>3. Owned(v, Neighbors[t], friend) = Owned(b, Neighbors[t], friend)
  BY <1>1, <1>2 DEF Owned
<1>4. EdgesTo(t, Owned(b, Neighbors[t], friend)) = FreedEdges(b, {t}, friend)
  <2>1. ASSUME NEW e \in EdgesTo(t, Owned(b, Neighbors[t], friend)) PROVE e \in FreedEdges(b, {t}, friend)
    <3>1. PICK q \in Neighbors[t] : e = <<t, q>> /\ b[q] = friend
      BY DEF EdgesTo, Owned
    <3>2. e \in Edges
      BY <3>1, BoardEdgeIs
    <3> QED BY <3>1, <3>2 DEF FreedEdges
  <2>2. ASSUME NEW e \in FreedEdges(b, {t}, friend) PROVE e \in EdgesTo(t, Owned(b, Neighbors[t], friend))
    <3>1. e \in Edges /\ e[1] = t /\ b[e[2]] = friend
      BY DEF FreedEdges
    <3>2. e = <<e[1], e[2]>> /\ e[2] \in Neighbors[e[1]]
      BY <3>1, EdgePoints
    <3> QED BY <3>1, <3>2 DEF EdgesTo, Owned
  <2> QED BY <2>1, <2>2
<1>5. FreedEdges(b, T, friend) \cup FreedEdges(b, {t}, friend) = FreedEdges(b, T \cup {t}, friend)
  BY DEF FreedEdges
<1>6. Cleared(v, {t}) = Cleared(b, T \cup {t})
  BY <1>1 DEF Cleared
<1>7. Due(b, T \cup {t}) \subseteq Due(b, T) \cup {t} \cup Empty(v, Neighbors[t])
  <2>1. ASSUME NEW p \in Points, b[p] = "empty", t \in Neighbors[p] PROVE p \in Empty(v, Neighbors[t])
    BY <1>1, <2>1, PointsAssumption DEF Empty
  <2> QED BY <2>1 DEF Due
<1> QED BY <1>3, <1>4, <1>5, <1>6, <1>7

LEMMA CaptureTurns ==
  ASSUME NEW m, NEW X, Laced(m, X), m.hash = BoardHash(m.board), NEW friend \in Colors,
         NEW n \in Nat, NEW seq, DOMAIN seq = 1 .. n, \A i, j \in 1 .. n : seq[i] = seq[j] => i = j,
         \A i \in 1 .. n : seq[i] \in Points /\ m.board[seq[i]] = Other(friend),
         \A e \in X : e[1] \notin Done(seq, n) /\ e[2] \notin Done(seq, n)
  PROVE  CaptureHolds(X, friend, 0, m, seq, n, FoldLeft(TakeStone, m, seq))
<1> DEFINE b == m.board
<1>1. b \in BoardType /\ Record(m)
  BY DEF Laced, McShape
<1>2. FoldLeft(TakeStone, m, seq) = Captures!Loop(X, friend, 0, m, seq)
  BY DEF CaptureTurn, FoldLeft, MapThenFoldSet, Max, Captures!Greatest, Captures!Loop, Captures!Rest, Captures!RestOver
<1>3. CaptureHolds(X, friend, 0, m, seq, 0, m)
  <2>1. Done(seq, 0) = {}
    BY DEF Done
  <2>2. FreedEdges(b, {}, friend) = {} /\ X \cup {} = X
    BY DEF FreedEdges
  <2>3. Cleared(b, {}) = b /\ Due(b, {}) = {}
    BY <1>1 DEF Cleared, Due, BoardType
  <2>4. SameBut(TakeParts, m, m) /\ Watch(Points, m, X, m, X)
    BY <1>1, SameButSelf, WatchSame
  <2> QED BY <2>1, <2>2, <2>3, <2>4 DEF CaptureHolds
<1>4. ASSUME NEW k \in 1 .. n, NEW v, CaptureHolds(X, friend, 0, m, seq, k - 1, v)
      PROVE  CaptureHolds(X, friend, 0, m, seq, k, CaptureTurn(X, friend, 0, v, seq[k]))
  <2> DEFINE t == seq[k]
             w == TakeStone(v, t)
             T == Done(seq, k - 1)
             Y == X \cup FreedEdges(b, T, friend)
             Z == Y \cup EdgesTo(t, Owned(v.board, Neighbors[t], friend))
  <2>1. /\ SameBut(TakeParts, m, v) /\ Laced(v, Y) /\ Watch(Points, m, X, v, Y)
        /\ v.board = Cleared(b, T) /\ v.hash = BoardHash(v.board) /\ Due(b, T) \subseteq v.queue
    BY <1>4 DEF CaptureHolds
  <2>2. t \in Points /\ b[t] = Other(friend) /\ t \notin T /\ Done(seq, k) = T \cup {t} /\ t \in Done(seq, n)
    <3>1. \A i \in 1 .. k - 1 : i \in 1 .. n /\ i # k
      OBVIOUS
    <3>2. \A i \in 1 .. k : i \in 1 .. k - 1 \/ i = k
      OBVIOUS
    <3>3. k \in 1 .. k /\ \A i \in 1 .. k - 1 : i \in 1 .. k
      OBVIOUS
    <3>4. Done(seq, k) = T \cup {t}
      BY <3>2, <3>3 DEF Done
    <3>5. t \notin T
      BY <3>1 DEF Done
    <3> QED BY <3>4, <3>5 DEF Done
  <2>3. /\ \A x \in T : x \in Done(seq, n) /\ b[x] = Other(friend)
        /\ Other(friend) # friend /\ v.board[t] = Other(friend)
    <3>1. \A i \in 1 .. k - 1 : i \in 1 .. n
      OBVIOUS
    <3>2. Other(friend) # friend
      BY OthersColor
    <3> QED BY <2>1, <2>2, <3>1, <3>2 DEF Done, Cleared
  <2>4. \A e \in Y : e[1] # t /\ e[2] # t
    <3>1. \A e \in X : e[1] # t /\ e[2] # t
      BY <2>2
    <3>2. \A e \in FreedEdges(b, T, friend) : e[1] # t /\ e[2] # t
      BY <2>2, <2>3 DEF FreedEdges
    <3> QED BY <3>1, <3>2
  <2> HIDE DEF w, Y, Z, T, t
  <2>5. /\ SameBut(TakeParts, v, w) /\ Laced(w, Z) /\ Watch(Points, v, Y, w, Z)
        /\ w.board = Cleared(v.board, {t}) /\ w.hash = BoardHash(w.board)
        /\ {t} \cup Empty(v.board, Neighbors[t]) \subseteq w.queue
    <3>1. Z = Y \cup EdgesTo(t, Owned(v.board, Neighbors[t], friend)) /\ w = TakeStone(v, t)
      BY DEF Z, w
    <3>2. Laced(v, Y) /\ v.hash = BoardHash(v.board) /\ t \in Points /\ v.board[t] = Other(friend)
      BY <2>1, <2>2, <2>3
    <3>3. StoneIsTaken(v, Y, t, Z, w)
      BY <2>4, <3>1, <3>2, TakeStoneIs
    <3> QED BY <3>3 DEF StoneIsTaken
  <2>6. /\ FreedEdges(b, T, friend) \cup EdgesTo(t, Owned(v.board, Neighbors[t], friend)) = FreedEdges(b, T \cup {t}, friend)
        /\ Cleared(v.board, {t}) = Cleared(b, T \cup {t})
        /\ Due(b, T \cup {t}) \subseteq Due(b, T) \cup {t} \cup Empty(v.board, Neighbors[t])
    <3>1. \A x \in T : b[x] # friend
      BY <2>3
    <3>2. v.board = Cleared(b, T) /\ t \in Points
      BY <2>1, <2>2
    <3> HIDE DEF b
    <3> QED BY <1>1, <3>1, <3>2, FreedBy
  <2>7. Z = X \cup FreedEdges(b, Done(seq, k), friend)
    BY <2>2, <2>6 DEF Z, Y
  <2>8. SameBut(TakeParts, m, w)
    <3>1. SameBut(TakeParts \cup TakeParts, m, w)
      BY <2>1, <2>5, SameButOn
    <3> QED BY <3>1
  <2>9. Watch(Points, m, X, w, Z)
    BY <2>1, <2>5, WatchOn
  <2>10. Due(b, Done(seq, k)) \subseteq w.queue
    BY <2>1, <2>2, <2>5, <2>6 DEF Watch
  <2>11. CaptureHolds(X, friend, 0, m, seq, k, w)
    BY <2>2, <2>5, <2>6, <2>7, <2>8, <2>9, <2>10 DEF CaptureHolds
  <2> QED BY <2>11 DEF CaptureTurn, w, t
<1>5. CaptureHolds(X, friend, 0, m, seq, n, Captures!Loop(X, friend, 0, m, seq))
  BY <1>3, <1>4, Captures!LoopKeeps
<1> QED BY <1>2, <1>5

StringIsTaken(m, X, S, friend, Y, K) ==
    /\ SameBut(TakeParts, m, K) /\ Wired(K, Y) /\ Watch(Points, m, X, K, Y)
    /\ K.board = Cleared(m.board, S) /\ K.hash = BoardHash(K.board) /\ Due(m.board, S) \subseteq K.queue
    /\ Live(K) = Live(m) \ S /\ \A p \in Live(K) : Together(K, p) = Together(m, p)

LEMMA RemoveStringWires ==
  ASSUME NEW m, NEW X, Wired(m, X), m.hash = BoardHash(m.board), NEW q \in Live(m), NEW friend \in Colors,
         NEW S, S = Together(m, q), \A s \in S : m.board[s] = Other(friend),
         \A e \in X : e[1] \notin S /\ e[2] \notin S, NEW Y, Y = X \cup FreedEdges(m.board, S, friend)
  PROVE  StringIsTaken(m, X, S, friend, Y, RemoveString(m, q))
<1> DEFINE seq == Along(m.next, q)
           K == RemoveString(m, q)
<1>1. S \in SUBSET Points /\ DOMAIN m.next = Points /\ Ring(m.next, q, S) /\ m.board \in BoardType
  BY DEF Wired, McShape, StonesWired, Together, Live
<1>2. PICK n \in 1 .. Cardinality(Points) : n \in Nat /\ Round(seq, m.next, q, S, n)
  <2>1. \E k \in 1 .. Cardinality(Points) : k \in Nat /\ Round(Along(m.next, q), m.next, q, S, k)
    BY <1>1, PointsAssumption, AlongIs
  <2> QED BY <2>1
<1>3. DOMAIN seq = 1 .. n /\ Done(seq, n) = S /\ \A i, j \in 1 .. n : seq[i] = seq[j] => i = j
  BY <1>2 DEF Round, Done
<1>4. \A i \in 1 .. n : seq[i] \in S
  BY <1>3 DEF Done
<1>5. K = FoldLeft(TakeStone, m, seq)
  BY DEF RemoveString
<1> HIDE DEF seq, K
<1>6. CaptureHolds(X, friend, 0, m, seq, n, K)
  <2>1. Laced(m, X) /\ n \in Nat
    BY <1>2 DEF Wired, Laced
  <2>2. \A i \in 1 .. n : seq[i] \in Points /\ m.board[seq[i]] = Other(friend)
    BY <1>1, <1>4
  <2>3. \A e \in X : e[1] \notin Done(seq, n) /\ e[2] \notin Done(seq, n)
    BY <1>3
  <2>4. CaptureHolds(X, friend, 0, m, seq, n, FoldLeft(TakeStone, m, seq))
    BY <1>3, <2>1, <2>2, <2>3, CaptureTurns
  <2> QED BY <1>5, <2>4
<1>7. /\ SameBut(TakeParts, m, K) /\ Laced(K, Y) /\ Watch(Points, m, X, K, Y)
      /\ K.board = Cleared(m.board, S) /\ K.hash = BoardHash(K.board) /\ Due(m.board, S) \subseteq K.queue
  BY <1>3, <1>6 DEF CaptureHolds
<1>8. Live(K) = Live(m) \ S /\ K.ref = m.ref /\ K.next = m.next
  <2>1. \A p \in Points : K.board[p] = IF p \in S THEN "empty" ELSE m.board[p]
    BY <1>7 DEF Cleared
  <2> QED BY <1>7, <2>1 DEF Live, SameBut, TakeParts, FreedParts, McFields
<1>9. ASSUME NEW p \in Live(K)
      PROVE  Together(K, p) = Together(m, p) /\ K.ref[p] \in Together(K, p) /\ Ring(K.next, p, Together(K, p))
  <2>1. p \in Live(m) /\ p \notin S
    BY <1>8
  <2>2. m.ref[p] # m.ref[q]
    BY <2>1 DEF Together
  <2>3. Together(m, p) \cap S = {}
    BY <2>2 DEF Together
  <2>4. Together(K, p) = Together(m, p)
    BY <1>8, <2>3 DEF Together
  <2> QED BY <1>8, <2>1, <2>4 DEF Wired, StonesWired
<1>10. Wired(K, Y)
  BY <1>7, <1>9 DEF Wired, Laced, StonesWired
<1> QED BY <1>7, <1>8, <1>9, <1>10 DEF StringIsTaken, K

-----------------------------------------------------------------------------
(* The third loop: a string is caught when the last of its stones next to  *)
(* the move is dealt with and it has no other liberty.                     *)
Doomed(b, loc, side, D) ==
    {q \in D : b[q] = Other(side) /\ Liberties(b, q) = {loc} /\ StringAt(b, q) \cap Neighbors[loc] \subseteq D}
Caught(b, loc, side, D) == UNION {StringAt(b, q) : q \in Doomed(b, loc, side, D)}

LEMMA CaughtFacts ==
  ASSUME NEW b \in BoardType, NEW loc \in Points, b[loc] = "empty", NEW side \in Colors,
         NEW D \in SUBSET Neighbors[loc], NEW C, C = Caught(b, loc, side, D)
  PROVE  /\ Whole(b, C) /\ loc \notin C
         /\ \A x \in C : x \in Points /\ b[x] = Other(side) /\ StringAt(b, x) \cap Neighbors[loc] \subseteq D
         /\ Caught(b, loc, side, {}) = {}
         /\ Caught(b, loc, side, Neighbors[loc]) = CapturedBy(b, loc, side)
<1>1. D \subseteq Points /\ Other(side) # "empty"
  BY PointsAssumption, OthersColor
<1>2. Whole(b, C)
  <2> DEFINE Q == Doomed(b, loc, side, D)
  <2>1. Q \in SUBSET Points
    BY <1>1 DEF Doomed
  <2> HIDE DEF Q
  <2>2. Whole(b, UNION {StringAt(b, q) : q \in Q})
    BY <2>1, UnionsAreWhole
  <2> QED BY <2>2 DEF Caught, Q
<1>3. ASSUME NEW x \in C
      PROVE  x \in Points /\ b[x] = Other(side) /\ StringAt(b, x) \cap Neighbors[loc] \subseteq D
  <2>1. PICK q \in Doomed(b, loc, side, D) : x \in StringAt(b, q)
    BY DEF Caught
  <2>2. q \in Points /\ b[q] = Other(side) /\ StringAt(b, q) \cap Neighbors[loc] \subseteq D
    BY <1>1 DEF Doomed
  <2>3. x \in Points /\ b[x] = b[q] /\ StringAt(b, x) = StringAt(b, q)
    BY <2>1, <2>2, StringsPartition
  <2> QED BY <2>2, <2>3
<1>4. loc \notin C
  BY <1>1, <1>3
<1>5. Caught(b, loc, side, {}) = {}
  BY DEF Caught, Doomed
<1>6. Caught(b, loc, side, Neighbors[loc]) = CapturedBy(b, loc, side)
  <2>1. Doomed(b, loc, side, Neighbors[loc])
        = {q \in Neighbors[loc] : b[q] = Other(side) /\ Liberties(b, q) = {loc}}
    BY DEF Doomed
  <2> QED BY <2>1 DEF Caught, CapturedBy
<1> QED BY <1>2, <1>3, <1>4, <1>5, <1>6

(* One neighbor more has been dealt with.                                  *)
Vacant(b, loc, side) == b \in BoardType /\ loc \in Points /\ b[loc] = "empty" /\ side \in Colors
Turned(loc, D, q, E) == D \in SUBSET Neighbors[loc] /\ q \in Neighbors[loc] /\ q \notin D /\ E = D \cup {q}
LastLiberty(b, loc, q, E) == Liberties(b, q) = {loc} /\ StringAt(b, q) \cap Neighbors[loc] \subseteq E

LEMMA CaughtNext ==
  ASSUME NEW b, NEW loc, NEW side, Vacant(b, loc, side), NEW D, NEW q, NEW E, Turned(loc, D, q, E)
  PROVE  /\ b[q] # Other(side) => Caught(b, loc, side, E) = Caught(b, loc, side, D)
         /\ b[q] = Other(side) =>
              /\ StringAt(b, q) \cap Caught(b, loc, side, D) = {}
              /\ LastLiberty(b, loc, q, E) => Caught(b, loc, side, E) = Caught(b, loc, side, D) \cup StringAt(b, q)
              /\ ~LastLiberty(b, loc, q, E) => Caught(b, loc, side, E) = Caught(b, loc, side, D)
<1>0. /\ b \in BoardType /\ loc \in Points /\ b[loc] = "empty" /\ side \in Colors
      /\ D \in SUBSET Neighbors[loc] /\ q \in Neighbors[loc] /\ q \notin D /\ E = D \cup {q}
  BY DEF Vacant, Turned
<1> DEFINE foe == Other(side)
           C == Caught(b, loc, side, D)
           S == StringAt(b, q)
<1>1. q \in Points /\ D \subseteq Points /\ q \in S
  BY <1>0, PointsAssumption, StringFacts
<1>2. ASSUME NEW x \in D, b[x] = foe, q \notin StringAt(b, x)
      PROVE  StringAt(b, x) \cap Neighbors[loc] \subseteq E <=> StringAt(b, x) \cap Neighbors[loc] \subseteq D
  BY <1>0, <1>2
<1>3. ASSUME b[q] # foe PROVE Caught(b, loc, side, E) = C
  <2>1. \A x \in D : b[x] = foe => q \notin StringAt(b, x)
    BY <1>1, <1>3, StringFacts DEF Stones
  <2>2. Doomed(b, loc, side, E) = Doomed(b, loc, side, D)
    BY <1>0, <1>2, <1>3, <2>1 DEF Doomed
  <2> QED BY <2>2 DEF Caught
<1>4. ASSUME b[q] = foe PROVE S \cap C = {}
  <2>1. /\ \A x \in C : x \in Points /\ b[x] = Other(side) /\ StringAt(b, x) \cap Neighbors[loc] \subseteq D
    BY <1>0, CaughtFacts
  <2>2. ASSUME NEW x \in S, x \in C PROVE FALSE
    <3>1. StringAt(b, x) = S
      BY <1>0, <1>1, StringsPartition
    <3> QED BY <1>0, <1>1, <2>1, <2>2, <3>1
  <2> QED BY <2>2
<1>5. ASSUME b[q] = foe, NEW x \in D, b[x] = foe, q \in StringAt(b, x)
      PROVE  StringAt(b, x) = S /\ Liberties(b, x) = Liberties(b, q)
  <2>1. StringAt(b, x) = S
    BY <1>0, <1>1, <1>5, StringsPartition
  <2> QED BY <2>1 DEF Liberties
<1>6. ASSUME b[q] = foe, Liberties(b, q) = {loc}, S \cap Neighbors[loc] \subseteq E
      PROVE  Caught(b, loc, side, E) = C \cup S
  <2>1. q \in Doomed(b, loc, side, E)
    BY <1>0, <1>6 DEF Doomed
  <2>2. ASSUME NEW x \in Doomed(b, loc, side, D) PROVE x \in Doomed(b, loc, side, E)
    BY <1>0 DEF Doomed
  <2>3. ASSUME NEW x \in Doomed(b, loc, side, E) PROVE x \in Doomed(b, loc, side, D) \/ StringAt(b, x) = S
    <3>1. x \in E /\ b[x] = foe /\ Liberties(b, x) = {loc} /\ StringAt(b, x) \cap Neighbors[loc] \subseteq E
      BY <1>0 DEF Doomed
    <3>2. CASE q \in StringAt(b, x)
      BY <1>0, <1>5, <1>6, <3>1, <3>2
    <3>3. CASE q \notin StringAt(b, x)
      <4>1. x # q
        BY <1>1, <3>3
      <4> QED BY <1>0, <1>2, <3>1, <3>3, <4>1 DEF Doomed
    <3> QED BY <3>2, <3>3
  <2> QED BY <2>1, <2>2, <2>3 DEF Caught
<1>7. ASSUME b[q] = foe, ~(Liberties(b, q) = {loc} /\ S \cap Neighbors[loc] \subseteq E)
      PROVE  Caught(b, loc, side, E) = C
  <2>1. ASSUME NEW x \in Doomed(b, loc, side, D) PROVE x \in Doomed(b, loc, side, E)
    BY <1>0 DEF Doomed
  <2>2. ASSUME NEW x \in Doomed(b, loc, side, E) PROVE x \in Doomed(b, loc, side, D)
    <3>1. x \in E /\ b[x] = foe /\ Liberties(b, x) = {loc} /\ StringAt(b, x) \cap Neighbors[loc] \subseteq E
      BY <1>0 DEF Doomed
    <3>2. x # q
      BY <1>7, <3>1
    <3>3. q \notin StringAt(b, x)
      BY <1>0, <1>5, <1>7, <3>1, <3>2
    <3> QED BY <1>0, <1>2, <3>1, <3>2, <3>3 DEF Doomed
  <2>3. Doomed(b, loc, side, E) = Doomed(b, loc, side, D)
    BY <2>1, <2>2
  <2> QED BY <2>3 DEF Caught
<1> QED BY <1>3, <1>4, <1>6, <1>7 DEF LastLiberty

(* The board when some strings have been caught.                           *)
Fought(b, loc, side, C) == Cleared(Put(b, loc, side), C)

LEMMA FoughtFacts ==
  ASSUME NEW b \in BoardType, NEW loc \in Points, b[loc] = "empty", NEW side \in Colors,
         NEW C, Whole(b, C), \A x \in C : b[x] = Other(side), NEW cur, cur = Fought(b, loc, side, C)
  PROVE  /\ cur \in BoardType /\ loc \notin C
         /\ \A p \in Points : cur[p] = IF p \in C THEN "empty" ELSE IF p = loc THEN side ELSE b[p]
         /\ \A q \in Points : cur[q] = Other(side) => b[q] = Other(side) /\ StringAt(cur, q) = StringAt(b, q)
<1> DEFINE B == Put(b, loc, side)
<1>1. Other(side) # side /\ Other(side) # "empty" /\ Other(side) \in Colors
  BY OthersColor
<1>2. loc \notin C /\ C \subseteq Points
  BY <1>1 DEF Whole
<1>3. \A p \in Points : B[p] = IF p = loc THEN side ELSE b[p]
  BY DEF Put, BoardType
<1>4. B \in BoardType /\ cur \in BoardType /\ cur = Cleared(B, C)
  BY BoardTypes DEF Fought
<1>5. \A p \in Points : cur[p] = IF p \in C THEN "empty" ELSE IF p = loc THEN side ELSE b[p]
  BY <1>2, <1>3, <1>4 DEF Cleared
<1>6. Whole(B, C)
  <2>1. ASSUME NEW r \in C PROVE StringAt(B, r) \subseteq C
    <3>1. StringAt(B, r) = StringAt(b, r)
      BY <1>2, PutOthers
    <3> QED BY <3>1 DEF Whole
  <2> QED BY <1>2, <2>1 DEF Whole
<1>7. ASSUME NEW q \in Points, cur[q] = Other(side)
      PROVE  b[q] = Other(side) /\ StringAt(cur, q) = StringAt(b, q)
  <2>1. b[q] = Other(side) /\ q \notin C /\ B[q] = Other(side)
    BY <1>1, <1>3, <1>5, <1>7
  <2>2. "empty" \notin {B[r] : r \in C}
    BY <1>1, <1>2, <1>3
  <2>3. StringAt(cur, q) = StringAt(B, q)
    <3> HIDE DEF B
    <3> QED BY <1>1, <1>4, <1>6, <2>1, <2>2, ClearedStrings
  <2>4. StringAt(B, q) = StringAt(b, q)
    BY <2>1, PutOthers
  <2> QED BY <2>1, <2>3, <2>4
<1> QED BY <1>2, <1>4, <1>5, <1>7

(* The edges in the middle of the loop: those of the board, and the new    *)
(* stone as a liberty of the others it has not come to yet.                *)
EdgesMid(cur, loc, side, D) == BoardEdges(cur) \cup EdgesTo(loc, Owned(cur, Neighbors[loc] \ D, Other(side)))

LEMMA EdgesMidIs ==
  ASSUME NEW cur \in BoardType, NEW loc \in Points, NEW side \in Colors, cur[loc] = side, NEW D, NEW e \in Edges
  PROVE  e \in EdgesMid(cur, loc, side, D) <=>
            \/ cur[e[2]] # "empty" /\ cur[e[1]] = "empty"
            \/ e[1] = loc /\ e[2] \notin D /\ cur[e[2]] = Other(side)
<1>1. e = <<e[1], e[2]>> /\ e[2] \in Neighbors[e[1]]
  BY EdgePoints
<1>2. e \in EdgesTo(loc, Owned(cur, Neighbors[loc] \ D, Other(side)))
      <=> e[1] = loc /\ e[2] \notin D /\ cur[e[2]] = Other(side)
  BY <1>1 DEF EdgesTo, Owned
<1> QED BY <1>2 DEF EdgesMid, BoardEdges

LEMMA EdgesMidType ==
  ASSUME NEW cur, NEW loc \in Points, NEW side, NEW D
  PROVE  EdgesMid(cur, loc, side, D) \subseteq Edges
<1>1. \A q \in Neighbors[loc] : <<loc, q>> \in Edges
  BY BoardEdgeIs
<1> QED BY <1>1 DEF EdgesMid, BoardEdges, EdgesTo, Owned

(* mc_remove_liberty_edge took the last edge: the string is caught.        *)
LEMMA LastOne ==
  ASSUME NEW b \in BoardType, NEW loc \in Points, b[loc] = "empty", NEW side \in Colors,
         NEW C, Whole(b, C), \A x \in C : b[x] = Other(side), NEW cur, cur = Fought(b, loc, side, C),
         NEW D, NEW q \in Neighbors[loc], q \notin D, cur[q] = Other(side), NEW S, S = StringAt(b, q)
  PROVE  {e \in EdgesMid(cur, loc, side, D) : e[2] \in S} = {<<loc, q>>}
         <=> Liberties(b, q) = {loc} /\ S \cap Neighbors[loc] \subseteq D \cup {q}
<1> DEFINE X == EdgesMid(cur, loc, side, D)
           H == {e \in X : e[2] \in S}
           foe == Other(side)
<1>1. /\ cur \in BoardType /\ loc \notin C /\ cur[loc] = side /\ side # "empty" /\ foe # "empty" /\ side # foe
      /\ \A p \in Points : cur[p] = IF p \in C THEN "empty" ELSE IF p = loc THEN side ELSE b[p]
      /\ q \in Points /\ b[q] = foe /\ S = StringAt(cur, q)
  BY FoughtFacts, OthersColor, PointsAssumption
<1>2. /\ q \in S /\ \A x \in S : x \in Points /\ cur[x] = foe /\ b[x] = foe
      /\ \A l \in Points : b[l] = foe /\ (\E x \in S : x \in Neighbors[l]) => l \in S
  <2>1. q \in S /\ \A x \in S : x \in Points /\ cur[x] = foe
    BY <1>1, StringFacts DEF Stones
  <2>2. \A x \in S : b[x] = foe
    BY <1>1, StringFacts DEF Stones
  <2>3. Closed(Stones(b, b[q]), S)
    BY <1>1, StringIsClosed
  <2> QED BY <1>1, <2>1, <2>2, <2>3 DEF Closed, Stones
<1>3. \A e \in Edges : e \in X <=>
          \/ cur[e[2]] # "empty" /\ cur[e[1]] = "empty"
          \/ e[1] = loc /\ e[2] \notin D /\ cur[e[2]] = foe
  <2>1. cur \in BoardType /\ cur[loc] = side
    BY <1>1
  <2>2. \A e \in Edges : e \in EdgesMid(cur, loc, side, D) <=>
            \/ cur[e[2]] # "empty" /\ cur[e[1]] = "empty"
            \/ e[1] = loc /\ e[2] \notin D /\ cur[e[2]] = Other(side)
    BY <2>1, EdgesMidIs, Zenon
  <2> HIDE DEF H
  <2> QED BY <2>2
<1>4. X \subseteq Edges
  BY EdgesMidType
<1>5. \A e \in Edges : e = <<e[1], e[2]>> /\ e[1] \in Points /\ e[2] \in Neighbors[e[1]]
  BY EdgePoints
<1>6. \A l : l \in Liberties(b, q) <=> l \in Points /\ b[l] = "empty" /\ \E x \in S : x \in Neighbors[l]
  BY LibertyIs
<1> HIDE DEF X
<1>7. ASSUME H = {<<loc, q>>} PROVE Liberties(b, q) = {loc} /\ S \cap Neighbors[loc] \subseteq D \cup {q}
  <2>1. ASSUME NEW l \in Liberties(b, q) PROVE l = loc
    <3>1. PICK x \in S : x \in Neighbors[l] /\ l \in Points /\ b[l] = "empty"
      BY <1>6
    <3>2. SUFFICES ASSUME l # loc PROVE FALSE
      OBVIOUS
    <3>3. <<l, x>> \in Edges /\ cur[l] = "empty" /\ cur[x] # "empty"
      BY <1>1, <1>2, <3>1, <3>2, BoardEdgeIs
    <3>4. <<l, x>> \in H
      <4>1. PICK e \in Edges : e = <<l, x>> /\ e[1] = l /\ e[2] = x
        BY <3>3
      <4>2. e \in X
        <5>1. cur[e[2]] # "empty" /\ cur[e[1]] = "empty"
          BY <3>3, <4>1
        <5> QED BY <1>3, <5>1
      <4>3. e[2] \in S
        BY <3>1, <4>1
      <4>4. e \in H
        BY <4>2, <4>3
      <4> QED BY <4>1, <4>4
    <3> QED BY <1>7, <3>2, <3>4
  <2>2. loc \in Liberties(b, q)
    BY <1>2, <1>6
  <2>3. ASSUME NEW x \in S, x \in Neighbors[loc], x \notin D PROVE x = q
    <3>1. <<loc, x>> \in Edges
      BY <2>3, BoardEdgeIs
    <3>2. <<loc, x>> \in H
      BY <1>2, <1>3, <2>3, <3>1
    <3> QED BY <1>7, <3>2
  <2> QED BY <2>1, <2>2, <2>3
<1>8. ASSUME Liberties(b, q) = {loc}, S \cap Neighbors[loc] \subseteq D \cup {q} PROVE H = {<<loc, q>>}
  <2>1. <<loc, q>> \in H
    <3>1. <<loc, q>> \in Edges
      BY BoardEdgeIs
    <3> QED BY <1>1, <1>2, <1>3, <3>1
  <2>2. ASSUME NEW e \in H PROVE e = <<loc, q>>
    <3>1. e \in Edges /\ e \in X /\ e[2] \in S /\ e[1] \in Points /\ e[2] \in Neighbors[e[1]] /\ e = <<e[1], e[2]>>
      BY <1>4, <1>5
    <3>2. ~(cur[e[1]] = "empty")
      <4> SUFFICES ASSUME cur[e[1]] = "empty" PROVE FALSE
        OBVIOUS
      <4>1. CASE b[e[1]] = "empty"
        <5>1. e[1] \in Liberties(b, q)
          BY <1>6, <3>1, <4>1
        <5> QED BY <1>1, <1>8, <5>1
      <4>2. CASE b[e[1]] # "empty"
        <5>1. e[1] \in C /\ b[e[1]] = foe
          BY <1>1, <3>1, <4>2
        <5>2. e[1] \in S
          BY <1>2, <3>1, <5>1
        <5> QED BY <1>1, <1>2, <5>1, <5>2
      <4> QED BY <4>1, <4>2
    <3>3. e[1] = loc /\ e[2] \notin D
      BY <1>3, <3>1, <3>2
    <3>4. e[2] = q
      BY <1>8, <3>1, <3>3
    <3> QED BY <3>1, <3>3, <3>4
  <2> QED BY <2>1, <2>2
<1> QED BY <1>7, <1>8 DEF X

Placed(cur, loc, side) == cur \in BoardType /\ loc \in Points /\ side \in Colors /\ cur[loc] = side

(* An edge less, and the edges a caught string leaves.                     *)
LEMMA EdgesMidLess ==
  ASSUME NEW cur, NEW loc, NEW side, Placed(cur, loc, side), NEW D, NEW q, NEW E, Turned(loc, D, q, E)
  PROVE  /\ EdgesMid(cur, loc, side, D) \ {<<loc, q>>} = EdgesMid(cur, loc, side, E)
         /\ cur[q] = Other(side) => <<loc, q>> \in EdgesMid(cur, loc, side, D)
         /\ cur[q] # Other(side) => EdgesMid(cur, loc, side, D) = EdgesMid(cur, loc, side, E)
<1> DEFINE X == EdgesMid(cur, loc, side, D)
           Y == EdgesMid(cur, loc, side, E)
<1>1. side # "empty" /\ cur \in BoardType /\ loc \in Points /\ side \in Colors /\ cur[loc] = side
      /\ q \in Neighbors[loc] /\ q \notin D /\ E = D \cup {q}
  BY OthersColor DEF Placed, Turned
<1>2. X \subseteq Edges /\ Y \subseteq Edges
  BY <1>1, EdgesMidType
<1>3. /\ \A e \in Edges : e \in X <=>
            \/ cur[e[2]] # "empty" /\ cur[e[1]] = "empty"
            \/ e[1] = loc /\ e[2] \notin D /\ cur[e[2]] = Other(side)
      /\ \A e \in Edges : e \in Y <=>
            \/ cur[e[2]] # "empty" /\ cur[e[1]] = "empty"
            \/ e[1] = loc /\ e[2] \notin E /\ cur[e[2]] = Other(side)
  BY <1>1, EdgesMidIs
<1>4. \A e \in Edges : e = <<e[1], e[2]>>
  BY EdgePoints
<1>5. <<loc, q>> \in Edges
  BY <1>1, BoardEdgeIs
<1> HIDE DEF X, Y
<1>6. X \ {<<loc, q>>} = Y
  <2>1. ASSUME NEW e \in Edges PROVE e \in X /\ e # <<loc, q>> <=> e \in Y
    <3>1. e = <<loc, q>> <=> e[1] = loc /\ e[2] = q
      BY <1>4
    <3> QED BY <1>1, <1>3, <3>1
  <2> QED BY <1>2, <2>1
<1>7. ASSUME cur[q] = Other(side) PROVE <<loc, q>> \in X
  BY <1>1, <1>3, <1>5, <1>7
<1>8. ASSUME cur[q] # Other(side) PROVE X = Y
  <2>1. ASSUME NEW e \in Edges PROVE e \in X <=> e \in Y
    BY <1>1, <1>3, <1>8
  <2> QED BY <1>2, <2>1
<1> QED BY <1>6, <1>7, <1>8 DEF X, Y

(* A whole string without an edge.                                         *)
Prey(cur, loc, side, D, S) ==
    /\ Placed(cur, loc, side) /\ Whole(cur, S) /\ \A x \in S : cur[x] = Other(side)
    /\ S \cap Neighbors[loc] \subseteq D /\ \A e \in EdgesMid(cur, loc, side, D) : e[2] \notin S

LEMMA EdgesMidCaught ==
  ASSUME NEW cur, NEW loc, NEW side, NEW D, NEW S, Prey(cur, loc, side, D, S)
  PROVE  /\ \A e \in EdgesMid(cur, loc, side, D) : e[1] \notin S
         /\ EdgesMid(cur, loc, side, D) \cup FreedEdges(cur, S, side) = EdgesMid(Cleared(cur, S), loc, side, D)
<1> DEFINE X == EdgesMid(cur, loc, side, D)
           b2 == Cleared(cur, S)
           Y == EdgesMid(b2, loc, side, D)
           foe == Other(side)
<1>0. /\ cur \in BoardType /\ loc \in Points /\ side \in Colors /\ cur[loc] = side
      /\ Whole(cur, S) /\ (\A x \in S : cur[x] = Other(side))
      /\ S \cap Neighbors[loc] \subseteq D /\ \A e \in X : e[2] \notin S
  BY DEF Prey, Placed
<1>1. side # "empty" /\ foe # "empty" /\ foe # side /\ foe \in Colors /\ loc \notin S
  BY <1>0, OthersColor
<1>2. b2 \in BoardType /\ b2[loc] = side /\ \A p \in Points : b2[p] = IF p \in S THEN "empty" ELSE cur[p]
  BY <1>0, <1>1 DEF Cleared, BoardType
<1>3. X \subseteq Edges /\ Y \subseteq Edges
  BY <1>0, EdgesMidType
<1>4. /\ \A e \in Edges : e \in X <=>
            \/ cur[e[2]] # "empty" /\ cur[e[1]] = "empty"
            \/ e[1] = loc /\ e[2] \notin D /\ cur[e[2]] = foe
      /\ \A e \in Edges : e \in Y <=>
            \/ b2[e[2]] # "empty" /\ b2[e[1]] = "empty"
            \/ e[1] = loc /\ e[2] \notin D /\ b2[e[2]] = foe
  <2>1. cur \in BoardType /\ cur[loc] = side /\ b2 \in BoardType /\ b2[loc] = side
    BY <1>0, <1>2
  <2> HIDE DEF b2
  <2> QED BY <1>0, <2>1, EdgesMidIs
<1>5. \A e \in Edges : e[1] \in Points /\ e[2] \in Points /\ e[2] \in Neighbors[e[1]] /\ e[1] \in Neighbors[e[2]]
  BY <1>0, EdgePoints
<1>6. \A e \in Edges : e[1] \in S /\ cur[e[2]] = foe => e[2] \in S
  <2> TAKE e \in Edges
  <2> HAVE e[1] \in S /\ cur[e[2]] = foe
  <2>1. Closed(Stones(cur, cur[e[1]]), StringAt(cur, e[1])) /\ e[1] \in StringAt(cur, e[1])
    BY <1>0, <1>5, StringIsClosed, StringFacts
  <2>2. e[2] \in StringAt(cur, e[1])
    BY <1>0, <1>5, <2>1 DEF Closed, Stones
  <2> QED BY <1>0, <2>2 DEF Whole
<1>7. \A e \in FreedEdges(cur, S, side) : e \in Edges /\ e[1] \in S /\ cur[e[2]] = side
  BY <1>0 DEF FreedEdges
<1>8. \A e \in Edges : e[1] \in S /\ cur[e[2]] = side => e \in FreedEdges(cur, S, side)
  BY <1>0 DEF FreedEdges
<1>9. \A p \in Points : cur[p] \in {"empty", side, foe}
  BY <1>0, OthersColor DEF BoardType
<1> HIDE DEF X, Y, b2
<1>10. \A e \in X : e[1] \notin S
  BY <1>0, <1>1, <1>3, <1>4, <1>5
<1>11. ASSUME NEW e \in X PROVE e \in Y
  BY <1>0, <1>1, <1>2, <1>3, <1>4, <1>5, <1>10
<1>12. ASSUME NEW e \in FreedEdges(cur, S, side) PROVE e \in Y
  BY <1>0, <1>1, <1>2, <1>4, <1>5, <1>7
<1>13. ASSUME NEW e \in Y, e \notin X PROVE e \in FreedEdges(cur, S, side)
  <2>1. e \in Edges /\ e[1] \in Points /\ e[2] \in Points
    BY <1>0, <1>3, <1>5
  <2>2. CASE b2[e[2]] # "empty" /\ b2[e[1]] = "empty"
    <3>1. e[2] \notin S /\ cur[e[2]] # "empty" /\ (e[1] \in S \/ cur[e[1]] = "empty")
      BY <1>0, <1>2, <2>1, <2>2
    <3>2. e[1] \in S
      BY <1>0, <1>4, <1>13, <2>1, <3>1
    <3>3. cur[e[2]] = side
      BY <1>0, <1>6, <1>9, <2>1, <3>1, <3>2
    <3> QED BY <1>0, <1>8, <2>1, <3>2, <3>3
  <2>3. CASE e[1] = loc /\ e[2] \notin D /\ b2[e[2]] = foe
    <3>1. cur[e[2]] = foe
      BY <1>0, <1>1, <1>2, <2>1, <2>3
    <3> QED BY <1>0, <1>4, <1>13, <2>1, <2>3, <3>1
  <2> QED BY <1>0, <1>4, <2>1, <2>2, <2>3
<1>14. X \cup FreedEdges(cur, S, side) = Y
  BY <1>0, <1>11, <1>12, <1>13
<1> QED BY <1>0, <1>10, <1>14 DEF X, Y, b2

-----------------------------------------------------------------------------
(* What the third loop keeps.  A string of the other color that is left    *)
(* with one liberty has that one in the queue.                             *)
FoesWatched(b, loc, side, D, queue) ==
    \A y \in Points : \A p :
        /\ b[y] = Other(side) /\ StringAt(b, y) \cap Neighbors[loc] # {}
        /\ StringAt(b, y) \cap Neighbors[loc] \subseteq D /\ Liberties(b, y) \ {loc} = {p}
        => p \in queue

Strung(m) == \A p \in Live(m) : Together(m, p) = StringAt(m.board, p)

Midway(m, cur, loc, side, E) ==
    cur = m.board /\ Placed(cur, loc, side) /\ Wired(m, EdgesMid(cur, loc, side, E)) /\ Strung(m)

BesiegedTo(b, loc, side, base, D, C, cur, v) ==
    /\ SameBut(TakeParts, base, v) /\ v.board = cur /\ v.hash = BoardHash(cur)
    /\ Wired(v, EdgesMid(cur, loc, side, D)) /\ Strung(v)
    /\ Due(b, C) \ {loc} \subseteq v.queue
    /\ Watch(Stones(base.board, side), base, EdgesMid(base.board, loc, side, {}), v, EdgesMid(cur, loc, side, D))
    /\ FoesWatched(b, loc, side, D, v.queue)

Besieging(b, loc, side, base, D, v) ==
    LET C == Caught(b, loc, side, D)
    IN BesiegedTo(b, loc, side, base, D, C, Fought(b, loc, side, C), v)

Fallen(b, loc, side, C, cur) ==
    Vacant(b, loc, side) /\ Whole(b, C) /\ (\A x \in C : b[x] = Other(side)) /\ cur = Fought(b, loc, side, C)

LEMMA DueMore ==
  ASSUME NEW b, NEW loc, NEW side, NEW C, NEW cur, Fallen(b, loc, side, C, cur),
         NEW S, S \subseteq Points, loc \notin S
  PROVE  /\ Cleared(cur, S) = Fought(b, loc, side, C \cup S)
         /\ Due(b, C \cup S) \ {loc} \subseteq (Due(b, C) \ {loc}) \cup Due(cur, S)
<1>0. /\ b \in BoardType /\ loc \in Points /\ b[loc] = "empty" /\ side \in Colors
      /\ Whole(b, C) /\ (\A x \in C : b[x] = Other(side)) /\ cur = Fought(b, loc, side, C)
  BY DEF Fallen, Vacant
<1>1. /\ cur \in BoardType /\ loc \notin C
      /\ \A p \in Points : cur[p] = IF p \in C THEN "empty" ELSE IF p = loc THEN side ELSE b[p]
  BY <1>0, FoughtFacts
<1>2. Put(b, loc, side) \in BoardType /\ \A p \in Points : Put(b, loc, side)[p] = IF p = loc THEN side ELSE b[p]
  BY <1>0, BoardTypes DEF Put, BoardType
<1>3. Cleared(cur, S) = Fought(b, loc, side, C \cup S)
  BY <1>0, <1>1, <1>2 DEF Fought, Cleared
<1>4. Due(b, C \cup S) \ {loc} \subseteq (Due(b, C) \ {loc}) \cup Due(cur, S)
  <2>1. ASSUME NEW p \in Due(b, C \cup S), p # loc, p \notin Due(b, C) PROVE p \in Due(cur, S)
    <3>1. CASE p \in S
      BY <3>1 DEF Due
    <3>2. CASE p \notin S
      <4>1. p \notin C /\ p \in Points /\ b[p] = "empty" /\ Neighbors[p] \cap S # {}
        BY <2>1, <3>2 DEF Due
      <4>2. cur[p] = "empty"
        BY <1>0, <1>1, <2>1, <4>1
      <4> QED BY <4>1, <4>2 DEF Due
    <3> QED BY <3>1, <3>2
  <2> QED BY <2>1
<1> QED BY <1>3, <1>4

(* Nothing happens at a point that has no stone of the other color.        *)
LEMMA BesiegePasses ==
  ASSUME NEW b, NEW loc, NEW side, Vacant(b, loc, side), NEW base,
         NEW D, NEW q, NEW E, Turned(loc, D, q, E), NEW v,
         Besieging(b, loc, side, base, D, v), v.board[q] # Other(side)
  PROVE  Besieging(b, loc, side, base, E, v)
<1> DEFINE C == Caught(b, loc, side, D)
           cur == Fought(b, loc, side, C)
<1>0. /\ b \in BoardType /\ loc \in Points /\ b[loc] = "empty" /\ side \in Colors
      /\ D \in SUBSET Neighbors[loc] /\ q \in Neighbors[loc] /\ q \notin D /\ E = D \cup {q}
  BY DEF Vacant, Turned
<1>1. /\ Whole(b, C) /\ loc \notin C
      /\ \A x \in C : x \in Points /\ b[x] = Other(side) /\ StringAt(b, x) \cap Neighbors[loc] \subseteq D
  BY <1>0, CaughtFacts
<1>2. v.board = cur
  BY DEF Besieging, BesiegedTo
<1>3. q \in Points /\ q # loc /\ q \in StringAt(b, q)
  BY <1>0, PointsAssumption, StringFacts
<1>4. /\ cur \in BoardType
      /\ \A p \in Points : cur[p] = IF p \in C THEN "empty" ELSE IF p = loc THEN side ELSE b[p]
  <2> HIDE DEF C
  <2> QED BY <1>0, <1>1, FoughtFacts
<1>5. b[q] # Other(side)
  <2> SUFFICES ASSUME b[q] = Other(side) PROVE FALSE
    OBVIOUS
  <2>1. q \in C
    BY <1>2, <1>3, <1>4
  <2> QED BY <1>0, <1>1, <1>3, <2>1
<1>6. Caught(b, loc, side, E) = C
  BY <1>5, CaughtNext
<1>7. EdgesMid(cur, loc, side, D) = EdgesMid(cur, loc, side, E)
  <2>1. Placed(cur, loc, side)
    BY <1>0, <1>1, <1>2, <1>4 DEF Placed
  <2>2. cur[q] # Other(side)
    BY <1>2
  <2> HIDE DEF cur
  <2>3. /\ EdgesMid(cur, loc, side, D) \ {<<loc, q>>} = EdgesMid(cur, loc, side, E)
        /\ cur[q] = Other(side) => <<loc, q>> \in EdgesMid(cur, loc, side, D)
        /\ cur[q] # Other(side) => EdgesMid(cur, loc, side, D) = EdgesMid(cur, loc, side, E)
    BY <2>1, EdgesMidLess
  <2> QED BY <2>2, <2>3
<1>8. FoesWatched(b, loc, side, E, v.queue)
  <2>1. ASSUME NEW y \in Points, b[y] = Other(side),
               StringAt(b, y) \cap Neighbors[loc] \subseteq E
        PROVE  StringAt(b, y) \cap Neighbors[loc] \subseteq D
    BY <1>0, <1>5, <2>1, StringFacts DEF Stones
  <2>2. FoesWatched(b, loc, side, D, v.queue)
    BY DEF Besieging, BesiegedTo
  <2> QED BY <2>1, <2>2 DEF FoesWatched
<1> QED BY <1>6, <1>7, <1>8 DEF Besieging, BesiegedTo

LEMMA BesiegeFacts ==
  ASSUME NEW b, NEW loc, NEW side, Vacant(b, loc, side), NEW D, D \subseteq Neighbors[loc],
         NEW C, C = Caught(b, loc, side, D), NEW cur, cur = Fought(b, loc, side, C)
  PROVE  /\ Whole(b, C) /\ loc \notin C
         /\ \A x \in C : x \in Points /\ b[x] = Other(side) /\ StringAt(b, x) \cap Neighbors[loc] \subseteq D
         /\ Placed(cur, loc, side)
         /\ \A p \in Points : cur[p] = IF p \in C THEN "empty" ELSE IF p = loc THEN side ELSE b[p]
         /\ \A q \in Points : cur[q] = Other(side) => b[q] = Other(side) /\ StringAt(cur, q) = StringAt(b, q)
<1>0. b \in BoardType /\ loc \in Points /\ b[loc] = "empty" /\ side \in Colors
  BY DEF Vacant
<1>1. /\ Whole(b, C) /\ loc \notin C
      /\ \A x \in C : x \in Points /\ b[x] = Other(side) /\ StringAt(b, x) \cap Neighbors[loc] \subseteq D
  BY <1>0, CaughtFacts
<1>2. /\ cur \in BoardType
      /\ \A p \in Points : cur[p] = IF p \in C THEN "empty" ELSE IF p = loc THEN side ELSE b[p]
      /\ \A q \in Points : cur[q] = Other(side) => b[q] = Other(side) /\ StringAt(cur, q) = StringAt(b, q)
  BY <1>0, <1>1, FoughtFacts
<1> QED BY <1>0, <1>1, <1>2 DEF Placed

(* The edge of the new stone's point and q is removed.                     *)
EdgeIsRemoved(b, loc, side, base, D, q, E, v, K) ==
    LET cur == Fought(b, loc, side, Caught(b, loc, side, D))
        Y == EdgesMid(cur, loc, side, E)
    IN /\ SameBut({"first", "nextE", "prevE"}, v, K) /\ Wired(K, Y)
       /\ Live(K) = Live(v) /\ \A p : Together(K, p) = Together(v, p)
       /\ Watch(Stones(base.board, side), base, EdgesMid(base.board, loc, side, {}), K, Y)
       /\ LastEdge(v, q, loc) <=> LastLiberty(b, loc, q, E)
       /\ LastLiberty(b, loc, q, E) => \A e \in Y : e[2] \notin StringAt(b, q)

LEMMA BesiegeEdge ==
  ASSUME NEW b, NEW loc, NEW side, Vacant(b, loc, side), NEW base, base.board = Put(b, loc, side),
         NEW D, NEW q, NEW E, Turned(loc, D, q, E), NEW v,
         Besieging(b, loc, side, base, D, v), v.board[q] = Other(side)
  PROVE  EdgeIsRemoved(b, loc, side, base, D, q, E, v, RemoveEdge(v, q, loc))
<1> DEFINE C == Caught(b, loc, side, D)
           cur == Fought(b, loc, side, C)
           X == EdgesMid(cur, loc, side, D)
           Y == EdgesMid(cur, loc, side, E)
           X0 == EdgesMid(base.board, loc, side, {})
           F == Stones(base.board, side)
           S == StringAt(b, q)
           K == RemoveEdge(v, q, loc)
<1>0. /\ b \in BoardType /\ loc \in Points /\ b[loc] = "empty" /\ side \in Colors
      /\ D \in SUBSET Neighbors[loc] /\ q \in Neighbors[loc] /\ q \notin D /\ E = D \cup {q}
  BY DEF Vacant, Turned
<1>1. v.board = cur /\ Wired(v, X) /\ Strung(v) /\ Watch(F, base, X0, v, X)
  BY DEF Besieging, BesiegedTo
<1>2. /\ Whole(b, C) /\ loc \notin C
      /\ \A x \in C : x \in Points /\ b[x] = Other(side) /\ StringAt(b, x) \cap Neighbors[loc] \subseteq D
      /\ Placed(cur, loc, side)
      /\ \A p \in Points : cur[p] = IF p \in C THEN "empty" ELSE IF p = loc THEN side ELSE b[p]
      /\ \A r \in Points : cur[r] = Other(side) => b[r] = Other(side) /\ StringAt(cur, r) = StringAt(b, r)
  <2>1. D \subseteq Neighbors[loc] /\ C = Caught(b, loc, side, D) /\ cur = Fought(b, loc, side, C)
    BY <1>0
  <2> HIDE DEF C, cur
  <2> QED BY <2>1, BesiegeFacts
<1>3. /\ X \ {<<loc, q>>} = Y
      /\ cur[q] = Other(side) => <<loc, q>> \in X
      /\ cur[q] # Other(side) => X = Y
  <2>1. Placed(cur, loc, side)
    BY <1>2
  <2> HIDE DEF cur
  <2> QED BY <2>1, EdgesMidLess
<1>4. q \in Points /\ cur[q] = Other(side) /\ S = StringAt(cur, q) /\ side # Other(side) /\ Other(side) # "empty"
  BY <1>0, <1>1, <1>2, PointsAssumption, OthersColor
<1>5. /\ SameBut({"first", "nextE", "prevE"}, v, K) /\ Wired(K, X \ {<<loc, q>>})
      /\ Live(K) = Live(v) /\ \A p : Together(K, p) = Together(v, p)
      /\ LastEdge(v, q, loc) <=> Hung(v, X, v.ref[q]) = {<<loc, q>>}
  <2>1. Wired(v, X) /\ <<loc, q>> \in X
    BY <1>1, <1>3, <1>4
  <2> DEFINE k == RemoveEdge(v, q, loc)
  <2>2. k = RemoveEdge(v, q, loc)
    OBVIOUS
  <2> HIDE DEF X, k
  <2>3. /\ SameBut({"first", "nextE", "prevE"}, v, k) /\ Wired(k, X \ {<<loc, q>>})
        /\ Live(k) = Live(v) /\ \A p : Together(k, p) = Together(v, p)
        /\ LastEdge(v, q, loc) <=> Hung(v, X, v.ref[q]) = {<<loc, q>>}
    BY <2>1, <2>2, RemoveEdgeKeeps
  <2> QED BY <2>2, <2>3
<1>6. q \in Live(v) /\ \A p \in Live(v) : Together(v, p) = StringAt(cur, p)
  BY <1>1, <1>4 DEF Live, Strung
<1>7. Hung(v, X, v.ref[q]) = {e \in X : e[2] \in S}
  <2>1. \A e \in X : e[2] \in Live(v)
    BY <1>1 DEF Wired, EdgesWired
  <2>2. \A e \in X : v.ref[e[2]] = v.ref[q] <=> e[2] \in Together(v, q)
    BY <2>1 DEF Together
  <2> HIDE DEF X
  <2> QED BY <1>4, <1>6, <2>2 DEF Hung
<1>8. {e \in X : e[2] \in S} = {<<loc, q>>} <=> LastLiberty(b, loc, q, E)
  <2>1. Whole(b, C) /\ (\A x \in C : b[x] = Other(side)) /\ cur = Fought(b, loc, side, C)
    BY <1>2
  <2>2. S = StringAt(b, q)
    OBVIOUS
  <2> HIDE DEF C, cur, S
  <2>3. {e \in EdgesMid(cur, loc, side, D) : e[2] \in S} = {<<loc, q>>}
        <=> Liberties(b, q) = {loc} /\ S \cap Neighbors[loc] \subseteq D \cup {q}
    BY <1>0, <1>4, <2>1, <2>2, LastOne
  <2> QED BY <1>0, <2>2, <2>3 DEF LastLiberty
<1>9. LastLiberty(b, loc, q, E) => \A e \in Y : e[2] \notin S
  <2> HIDE DEF X, Y, S
  <2> QED BY <1>3, <1>8
<1>10. Watch(F, v, X, K, Y)
  <2>1. v.queue = K.queue /\ v.ref = K.ref
    BY <1>5 DEF SameBut, McFields
  <2>2. ASSUME NEW y \in F PROVE LibsIn(K, Y, y) = LibsIn(v, X, y)
    <3>1. y \in Points /\ cur[y] = side
      <4>1. y \in Points /\ (y = loc \/ b[y] = side)
        BY <1>0, <2>2 DEF Stones, Put, BoardType
      <4>2. y \notin C
        BY <1>0, <1>2, <1>4, <4>1, OthersColor
      <4> QED BY <1>2, <4>1, <4>2
    <3>2. v.ref[q] # v.ref[y]
      <4>1. y \in Live(v)
        BY <1>0, <1>1, <3>1, OthersColor DEF Live
      <4>2. q \notin StringAt(cur, y)
        BY <1>4, <3>1, StringFacts DEF Stones
      <4> QED BY <1>6, <4>1, <4>2 DEF Together
    <3>3. Hung(K, Y, K.ref[y]) = Hung(v, X, v.ref[y])
      <4> HIDE DEF X, Y, K
      <4>1. \A e : e \in Y <=> e \in X /\ e # <<loc, q>>
        BY <1>3
      <4>2. <<loc, q>>[2] = q
        OBVIOUS
      <4> QED BY <2>1, <3>2, <4>1, <4>2 DEF Hung
    <3> QED BY <3>3 DEF LibsIn
  <2> HIDE DEF F, X, Y, K
  <2>3. v.queue \subseteq K.queue
    BY <2>1
  <2> QED BY <2>2, <2>3, WatchSame
<1>11. Watch(F, base, X0, K, Y)
  <2>1. Watch(F, base, X0, v, X)
    BY <1>1
  <2> HIDE DEF F, X, Y, K, X0
  <2> QED BY <1>10, <2>1, WatchOn
<1>12. Wired(K, Y)
  BY <1>3, <1>5
<1>13. LastEdge(v, q, loc) <=> LastLiberty(b, loc, q, E)
  BY <1>5, <1>7, <1>8
<1> HIDE DEF K
<1> QED BY <1>5, <1>9, <1>11, <1>12, <1>13 DEF EdgeIsRemoved, K

-----------------------------------------------------------------------------
(* The edges tell the liberties a string has on the board.                 *)
LEMMA LibsAreLiberties ==
  ASSUME NEW m, NEW X, X \subseteq Edges, \A e \in X : e[2] \in Live(m), NEW q \in Live(m),
         NEW b, b = m.board, NEW S, S = StringAt(b, q), Together(m, q) = S,
         \A e \in Edges : e[2] \in S => (e \in X <=> b[e[1]] = "empty")
  PROVE  LibsIn(m, X, q) = Liberties(b, q)
<1>1. \A e \in X : m.ref[e[2]] = m.ref[q] <=> e[2] \in S
  BY DEF Together
<1>2. \A e \in Edges : e = <<e[1], e[2]>> /\ e[1] \in Points /\ e[2] \in Points /\ e[2] \in Neighbors[e[1]]
  BY EdgePoints
<1>3. \A l : l \in Liberties(b, q) <=> l \in Points /\ b[l] = "empty" /\ \E x \in S : x \in Neighbors[l]
  BY LibertyIs
<1>4. ASSUME NEW l \in LibsIn(m, X, q) PROVE l \in Liberties(b, q)
  <2>1. PICK e \in X : m.ref[e[2]] = m.ref[q] /\ l = e[1]
    BY DEF LibsIn, Hung
  <2>2. e[2] \in S /\ e \in Edges
    BY <1>1, <2>1
  <2> QED BY <1>2, <1>3, <2>1, <2>2
<1>5. ASSUME NEW l \in Liberties(b, q) PROVE l \in LibsIn(m, X, q)
  <2>1. PICK x \in S : x \in Neighbors[l] /\ l \in Points /\ b[l] = "empty"
    BY <1>3
  <2>2. <<l, x>> \in Edges
    BY <2>1, BoardEdgeIs
  <2>3. PICK e \in Edges : e = <<l, x>> /\ e[1] = l /\ e[2] = x
    BY <2>2
  <2>4. b[e[1]] = "empty" /\ e[2] \in S
    BY <2>1, <2>3
  <2>5. e \in X
    BY <2>4
  <2>6. e \in Hung(m, X, m.ref[q])
    BY <1>1, <2>4, <2>5 DEF Hung
  <2> QED BY <2>3, <2>6 DEF LibsIn
<1> QED BY <1>4, <1>5

DealtWith(cur, loc, side, E, q) == cur[q] # Other(side) \/ StringAt(cur, q) \cap Neighbors[loc] \subseteq E

LEMMA LibsInTheMiddle ==
  ASSUME NEW m, NEW loc, NEW side, NEW E, NEW b, Midway(m, b, loc, side, E), NEW q \in Live(m),
         DealtWith(b, loc, side, E, q)
  PROVE  LibsIn(m, EdgesMid(b, loc, side, E), q) = Liberties(b, q)
<1> DEFINE X == EdgesMid(b, loc, side, E)
           S == StringAt(b, q)
<1>1. /\ b \in BoardType /\ loc \in Points /\ side \in Colors /\ b[loc] = side
      /\ b = m.board /\ Wired(m, X) /\ Strung(m)
      /\ b[q] # Other(side) \/ S \cap Neighbors[loc] \subseteq E
  BY DEF Placed, Midway, DealtWith
<1>2. X \subseteq Edges /\ \A e \in X : e[2] \in Live(m)
  BY <1>1 DEF Wired, EdgesWired
<1>3. \A e \in Edges : e \in X <=>
          \/ b[e[2]] # "empty" /\ b[e[1]] = "empty"
          \/ e[1] = loc /\ e[2] \notin E /\ b[e[2]] = Other(side)
  BY <1>1, EdgesMidIs
<1>4. q \in Points /\ b[q] # "empty" /\ Together(m, q) = S
  BY <1>1 DEF Live, Strung
<1>5. \A x \in S : x \in Points /\ b[x] = b[q]
  BY <1>4, StringFacts DEF Stones
<1>6. side # "empty"
  BY <1>1, OthersColor
<1>7. ASSUME NEW e \in Edges, e[2] \in S PROVE e \in X <=> b[e[1]] = "empty"
  <2>1. e[2] \in Neighbors[e[1]]
    BY EdgePoints
  <2>2. ~(e[1] = loc /\ e[2] \notin E /\ b[e[2]] = Other(side))
    BY <1>1, <1>5, <1>7, <2>1
  <2> QED BY <1>3, <1>4, <1>5, <1>7, <2>2
<1>8. S = StringAt(b, q)
  OBVIOUS
<1> HIDE DEF X, S
<1>9. LibsIn(m, X, q) = Liberties(b, q)
  BY <1>1, <1>2, <1>4, <1>7, <1>8, LibsAreLiberties
<1> QED BY <1>9 DEF X

(* A string of the other color loses the one liberty, whatever is captured.*)
LEMMA FoesLiberties ==
  ASSUME NEW b, NEW loc, NEW side, Vacant(b, loc, side),
         NEW C, Whole(b, C), \A x \in C : b[x] = Other(side), NEW cur, cur = Fought(b, loc, side, C),
         NEW q \in Points, cur[q] = Other(side)
  PROVE  Liberties(cur, q) = Liberties(b, q) \ {loc}
<1>0. b \in BoardType /\ loc \in Points /\ b[loc] = "empty" /\ side \in Colors
  BY DEF Vacant
<1>1. /\ loc \notin C
      /\ \A p \in Points : cur[p] = IF p \in C THEN "empty" ELSE IF p = loc THEN side ELSE b[p]
      /\ b[q] = Other(side) /\ StringAt(cur, q) = StringAt(b, q)
  BY <1>0, FoughtFacts
<1> DEFINE S == StringAt(b, q)
<1>2. /\ \A l : l \in Liberties(b, q) <=> l \in Points /\ b[l] = "empty" /\ \E x \in S : x \in Neighbors[l]
      /\ \A l : l \in Liberties(cur, q) <=> l \in Points /\ cur[l] = "empty" /\ \E x \in S : x \in Neighbors[l]
  BY <1>1, LibertyIs
<1>3. side # "empty" /\ Other(side) # "empty"
  BY <1>0, OthersColor
<1>4. ASSUME NEW l \in C, NEW x \in S, x \in Neighbors[l] PROVE FALSE
  <2>1. l \in Points /\ b[l] = Other(side) /\ StringAt(b, l) \subseteq C
    BY DEF Whole
  <2>2. x \in Points /\ b[x] = Other(side) /\ StringAt(b, x) = S
    BY <1>1, StringFacts, StringsPartition DEF Stones
  <2>3. Closed(Stones(b, b[l]), StringAt(b, l)) /\ l \in StringAt(b, l)
    BY <2>1, StringIsClosed, StringFacts
  <2>4. x \in StringAt(b, l)
    <3>1. l \in Neighbors[x]
      BY <1>4, <2>1, <2>2, PointsAssumption
    <3> QED BY <2>1, <2>2, <2>3, <3>1 DEF Closed, Stones
  <2>5. x \in C
    BY <2>1, <2>4
  <2>6. StringAt(b, x) \subseteq C
    BY <2>5 DEF Whole
  <2>7. q \in S
    BY StringFacts
  <2>8. q \in C
    BY <2>2, <2>6, <2>7
  <2> QED BY <1>1, <1>3, <2>8
<1> HIDE DEF S
<1>5. ASSUME NEW l PROVE l \in Liberties(cur, q) <=> l \in Liberties(b, q) /\ l # loc
  <2>1. CASE l \in Points /\ \E x \in S : x \in Neighbors[l]
    <3>1. l \notin C
      BY <1>4, <2>1
    <3>2. cur[l] = "empty" <=> b[l] = "empty" /\ l # loc
      BY <1>0, <1>1, <1>3, <2>1, <3>1
    <3> QED BY <1>2, <2>1, <3>2
  <2>2. CASE ~(l \in Points /\ \E x \in S : x \in Neighbors[l])
    BY <1>2, <2>2
  <2> QED BY <2>1, <2>2
<1> QED BY <1>5

(* A string that keeps a liberty is renewed if it has two at most.         *)
LEMMA BesiegeLeaves ==
  ASSUME NEW b, NEW loc, NEW side, Vacant(b, loc, side), NEW base, base.board = Put(b, loc, side),
         NEW D, NEW q, NEW E, Turned(loc, D, q, E), NEW v,
         Besieging(b, loc, side, base, D, v), v.board[q] = Other(side), ~LastLiberty(b, loc, q, E)
  PROVE  Besieging(b, loc, side, base, E, QueueMaxTwoLiberties(RemoveEdge(v, q, loc), q))
<1> DEFINE C == Caught(b, loc, side, D)
           cur == Fought(b, loc, side, C)
           Y == EdgesMid(cur, loc, side, E)
           X0 == EdgesMid(base.board, loc, side, {})
           F == Stones(base.board, side)
           S == StringAt(b, q)
           w == RemoveEdge(v, q, loc)
           K == QueueMaxTwoLiberties(w, q)
<1>0. /\ b \in BoardType /\ loc \in Points /\ b[loc] = "empty" /\ side \in Colors
      /\ D \in SUBSET Neighbors[loc] /\ q \in Neighbors[loc] /\ q \notin D /\ E = D \cup {q} /\ q \in Points
  BY PointsAssumption DEF Vacant, Turned
<1>1. /\ SameBut(TakeParts, base, v) /\ v.board = cur /\ v.hash = BoardHash(cur) /\ Strung(v)
      /\ Due(b, C) \ {loc} \subseteq v.queue /\ FoesWatched(b, loc, side, D, v.queue)
  BY DEF Besieging, BesiegedTo
<1>2. /\ Whole(b, C) /\ loc \notin C
      /\ \A x \in C : x \in Points /\ b[x] = Other(side) /\ StringAt(b, x) \cap Neighbors[loc] \subseteq D
      /\ Placed(cur, loc, side)
      /\ \A p \in Points : cur[p] = IF p \in C THEN "empty" ELSE IF p = loc THEN side ELSE b[p]
      /\ \A r \in Points : cur[r] = Other(side) => b[r] = Other(side) /\ StringAt(cur, r) = StringAt(b, r)
  <2>1. D \subseteq Neighbors[loc] /\ C = Caught(b, loc, side, D) /\ cur = Fought(b, loc, side, C)
    BY <1>0
  <2> HIDE DEF C, cur
  <2> QED BY <2>1, BesiegeFacts
<1>3. /\ SameBut({"first", "nextE", "prevE"}, v, w) /\ Wired(w, Y)
      /\ Live(w) = Live(v) /\ (\A p : Together(w, p) = Together(v, p))
      /\ Watch(F, base, X0, w, Y)
  <2>1. EdgeIsRemoved(b, loc, side, base, D, q, E, v, w)
    BY BesiegeEdge
  <2> QED BY <2>1 DEF EdgeIsRemoved
<1>4. b[q] = Other(side) /\ StringAt(cur, q) = S /\ cur[q] = Other(side) /\ Other(side) # "empty"
  BY <1>0, <1>1, <1>2, OthersColor
<1>5. Caught(b, loc, side, E) = C
  BY <1>4, CaughtNext
<1>6. /\ SameBut({"queue"}, w, K) /\ w.queue \subseteq K.queue
      /\ Cardinality(LibertiesFrom(w, q)) <= 2 => K.queue = w.queue \cup LibertiesFrom(w, q)
  <2>1. Record(w) /\ K = QueueMaxTwoLiberties(w, q)
    BY <1>3 DEF SameBut
  <2> HIDE DEF w, K
  <2> QED BY <2>1, QueueMaxTwoIs
<1>7. /\ w.board = cur /\ w.hash = BoardHash(cur) /\ w.queue = v.queue
      /\ K.board = cur /\ K.hash = BoardHash(cur) /\ K.ref = w.ref /\ w.ref = v.ref
      /\ SameBut({"first", "nextE", "prevE", "queue"}, v, K)
      /\ SameBut({"ko", "hash", "queue", "context", "values"}, w, K)
  <2> HIDE DEF w, K, cur
  <2> QED BY <1>1, <1>3, <1>6 DEF SameBut, McFields
<1>8. SameBut(TakeParts, base, K)
  <2> HIDE DEF K
  <2> QED BY <1>1, <1>7 DEF SameBut, TakeParts, FreedParts
<1>9. Wired(K, Y) /\ Strung(K) /\ Strung(w)
  <2>1. Strung(w) /\ Strung(K)
    <3> HIDE DEF w, K, cur
    <3> QED BY <1>1, <1>3, <1>7 DEF Strung, Together, Live
  <2> HIDE DEF w, K, Y
  <2> QED BY <1>3, <1>7, <2>1, WiredSame
<1>10. Watch(F, base, X0, K, Y)
  <2>1. \A y \in F : LibsIn(K, Y, y) = LibsIn(w, Y, y)
    <3> HIDE DEF w, K, Y, F
    <3> QED BY <1>7 DEF LibsIn, Hung
  <2>2. Watch(F, base, X0, w, Y) /\ w.queue \subseteq K.queue
    BY <1>3, <1>6
  <2> HIDE DEF w, K, Y, F, X0
  <2>3. Watch(F, w, Y, K, Y)
    BY <2>1, <2>2, WatchSame
  <2> QED BY <2>2, <2>3, WatchOn
<1>11. FoesWatched(b, loc, side, E, K.queue)
  <2> SUFFICES ASSUME NEW y \in Points, NEW p, b[y] = Other(side), StringAt(b, y) \cap Neighbors[loc] # {},
                      StringAt(b, y) \cap Neighbors[loc] \subseteq E, Liberties(b, y) \ {loc} = {p}
               PROVE  p \in K.queue
    BY DEF FoesWatched
  <2>1. v.queue \subseteq K.queue
    BY <1>6, <1>7
  <2>2. CASE q \notin StringAt(b, y)
    <3>1. StringAt(b, y) \cap Neighbors[loc] \subseteq D
      BY <1>0, <2>2
    <3> QED BY <1>1, <2>1, <3>1 DEF FoesWatched
  <2>3. CASE q \in StringAt(b, y)
    <3>1. StringAt(b, y) = S
      BY <1>0, <2>3, StringsPartition
    <3>2. Liberties(b, q) \ {loc} = {p}
      BY <3>1 DEF Liberties
    <3>3. Liberties(cur, q) = Liberties(b, q) \ {loc}
      <4>1. Whole(b, C) /\ (\A x \in C : b[x] = Other(side)) /\ cur = Fought(b, loc, side, C)
        BY <1>2
      <4> HIDE DEF C, cur
      <4> QED BY <1>0, <1>4, <4>1, FoesLiberties
    <3>4. LibsIn(w, Y, q) = Liberties(cur, q)
      <4>1. q \in Live(w)
        BY <1>0, <1>4, <1>7 DEF Live
      <4>2. DealtWith(cur, loc, side, E, q)
        BY <1>4, <3>1 DEF DealtWith
      <4>3. Midway(w, cur, loc, side, E)
        BY <1>2, <1>3, <1>7, <1>9 DEF Midway
      <4> HIDE DEF cur, w
      <4>4. LibsIn(w, EdgesMid(cur, loc, side, E), q) = Liberties(cur, q)
        BY <4>1, <4>2, <4>3, LibsInTheMiddle
      <4> QED BY <4>4
    <3>5. LibertiesFrom(w, q) = {p}
      <4>1. Laced(w, Y) /\ q \in Live(w)
        BY <1>0, <1>3, <1>4, <1>7 DEF Live, Wired, Laced
      <4> HIDE DEF w, Y, cur
      <4>2. LibertiesFrom(w, q) = LibsIn(w, Y, q)
        BY <4>1, LibertiesFromIs
      <4> QED BY <3>2, <3>3, <3>4, <4>2
    <3>6. Cardinality(LibertiesFrom(w, q)) <= 2
      <4>1. Cardinality({p}) = 1
        BY FS_Singleton
      <4> QED BY <3>5, <4>1
    <3> HIDE DEF K, w
    <3> QED BY <1>6, <3>5, <3>6
  <2> QED BY <2>2, <2>3
<1>12. Due(b, C) \ {loc} \subseteq K.queue
  BY <1>1, <1>6, <1>7
<1>13. BesiegedTo(b, loc, side, base, E, C, cur, K)
  <2> HIDE DEF K, w, cur, C
  <2> QED BY <1>7, <1>8, <1>9, <1>10, <1>11, <1>12 DEF BesiegedTo
<1> HIDE DEF K
<1> QED BY <1>5, <1>13 DEF Besieging, K

(* A string without another liberty is taken off.                          *)
LEMMA BesiegeTakes ==
  ASSUME NEW b, NEW loc, NEW side, Vacant(b, loc, side), NEW base, base.board = Put(b, loc, side),
         NEW D, NEW q, NEW E, Turned(loc, D, q, E), NEW v,
         Besieging(b, loc, side, base, D, v), v.board[q] = Other(side), LastLiberty(b, loc, q, E)
  PROVE  Besieging(b, loc, side, base, E, RemoveString(RemoveEdge(v, q, loc), q))
<1> DEFINE C == Caught(b, loc, side, D)
           cur == Fought(b, loc, side, C)
           Y == EdgesMid(cur, loc, side, E)
           X0 == EdgesMid(base.board, loc, side, {})
           F == Stones(base.board, side)
           S == StringAt(b, q)
           C2 == C \cup S
           cur2 == Cleared(cur, S)
           Y2 == EdgesMid(cur2, loc, side, E)
           w == RemoveEdge(v, q, loc)
           K == RemoveString(w, q)
<1>0. /\ b \in BoardType /\ loc \in Points /\ b[loc] = "empty" /\ side \in Colors
      /\ D \in SUBSET Neighbors[loc] /\ q \in Neighbors[loc] /\ q \notin D /\ E = D \cup {q} /\ q \in Points
      /\ Liberties(b, q) = {loc} /\ S \cap Neighbors[loc] \subseteq E
  BY PointsAssumption DEF Vacant, Turned, LastLiberty
<1>1. /\ SameBut(TakeParts, base, v) /\ v.board = cur /\ v.hash = BoardHash(cur) /\ Strung(v)
      /\ Due(b, C) \ {loc} \subseteq v.queue /\ FoesWatched(b, loc, side, D, v.queue)
  BY DEF Besieging, BesiegedTo
<1>2. /\ Whole(b, C) /\ loc \notin C
      /\ \A x \in C : x \in Points /\ b[x] = Other(side) /\ StringAt(b, x) \cap Neighbors[loc] \subseteq D
      /\ Placed(cur, loc, side)
      /\ \A p \in Points : cur[p] = IF p \in C THEN "empty" ELSE IF p = loc THEN side ELSE b[p]
      /\ \A r \in Points : cur[r] = Other(side) => b[r] = Other(side) /\ StringAt(cur, r) = StringAt(b, r)
  <2>1. D \subseteq Neighbors[loc] /\ C = Caught(b, loc, side, D) /\ cur = Fought(b, loc, side, C)
    BY <1>0
  <2> HIDE DEF C, cur
  <2> QED BY <2>1, BesiegeFacts
<1>3. /\ SameBut({"first", "nextE", "prevE"}, v, w) /\ Wired(w, Y)
      /\ Live(w) = Live(v) /\ (\A p : Together(w, p) = Together(v, p))
      /\ Watch(F, base, X0, w, Y) /\ \A e \in Y : e[2] \notin S
  <2>1. EdgeIsRemoved(b, loc, side, base, D, q, E, v, w)
    BY BesiegeEdge
  <2> QED BY <2>1 DEF EdgeIsRemoved
<1>4. /\ b[q] = Other(side) /\ StringAt(cur, q) = S /\ cur[q] = Other(side)
      /\ Other(side) # "empty" /\ side # Other(side) /\ Other(side) \in Colors
  BY <1>0, <1>1, <1>2, OthersColor
<1>5. Caught(b, loc, side, E) = C2
  BY <1>4, CaughtNext
<1>6. /\ w.board = cur /\ w.hash = BoardHash(w.board) /\ w.queue = v.queue /\ q \in Live(w) /\ S = Together(w, q)
  <2>1. w.board = cur /\ w.hash = BoardHash(w.board) /\ w.queue = v.queue
    <3> HIDE DEF w, cur
    <3> QED BY <1>1, <1>3 DEF SameBut, McFields
  <2>2. q \in Live(w)
    BY <1>0, <1>4, <2>1 DEF Live
  <2>3. Together(v, q) = StringAt(cur, q)
    BY <1>1, <1>3, <2>2 DEF Strung
  <2> QED BY <1>3, <1>4, <2>1, <2>2, <2>3
<1>7. /\ S \subseteq Points /\ (\A x \in S : cur[x] = Other(side)) /\ q \in S /\ Whole(cur, S) /\ loc \notin S
  <2>1. S \subseteq Points /\ (\A x \in S : cur[x] = Other(side)) /\ q \in S
    BY <1>0, <1>4, StringFacts DEF Stones
  <2>2. \A x \in S : StringAt(cur, x) = S
    BY <1>0, <1>4, StringsPartition
  <2>3. loc \notin S
    BY <1>2, <1>4, <2>1 DEF Placed
  <2> QED BY <2>1, <2>2, <2>3 DEF Whole
<1>8. (\A e \in Y : e[1] \notin S) /\ Y \cup FreedEdges(cur, S, side) = Y2
  <2>1. Prey(cur, loc, side, E, S)
    BY <1>0, <1>2, <1>3, <1>7 DEF Prey
  <2> HIDE DEF cur, S
  <2>2. /\ \A e \in EdgesMid(cur, loc, side, E) : e[1] \notin S
        /\ EdgesMid(cur, loc, side, E) \cup FreedEdges(cur, S, side) = EdgesMid(Cleared(cur, S), loc, side, E)
    BY <2>1, EdgesMidCaught
  <2> QED BY <2>2
<1>9. StringIsTaken(w, Y, S, side, Y2, K)
  <2>1. Y2 = Y \cup FreedEdges(w.board, S, side)
    BY <1>6, <1>8
  <2>2. (\A s \in S : w.board[s] = Other(side)) /\ \A e \in Y : e[1] \notin S /\ e[2] \notin S
    BY <1>3, <1>6, <1>7, <1>8
  <2> HIDE DEF w, Y, S, Y2
  <2> QED BY <1>0, <1>3, <1>6, <2>1, <2>2, RemoveStringWires
<1>10. /\ SameBut(TakeParts, w, K) /\ Wired(K, Y2) /\ Watch(Points, w, Y, K, Y2)
       /\ K.board = cur2 /\ K.hash = BoardHash(K.board) /\ Due(cur, S) \subseteq K.queue
       /\ Live(K) = Live(w) \ S /\ \A p \in Live(K) : Together(K, p) = Together(w, p)
  BY <1>6, <1>9 DEF StringIsTaken
<1>11. cur2 = Fought(b, loc, side, C2) /\ Due(b, C2) \ {loc} \subseteq (Due(b, C) \ {loc}) \cup Due(cur, S)
  <2>1. Fallen(b, loc, side, C, cur)
    BY <1>2 DEF Fallen
  <2> HIDE DEF C, cur, S
  <2>2. /\ Cleared(cur, S) = Fought(b, loc, side, C \cup S)
        /\ Due(b, C \cup S) \ {loc} \subseteq (Due(b, C) \ {loc}) \cup Due(cur, S)
    BY <1>7, <2>1, DueMore
  <2> QED BY <2>2
<1>12. SameBut(TakeParts, base, K)
  <2> HIDE DEF K, w
  <2> QED BY <1>1, <1>3, <1>10 DEF SameBut, TakeParts, FreedParts
<1>13. Strung(K)
  <2> SUFFICES ASSUME NEW p \in Live(K) PROVE Together(K, p) = StringAt(K.board, p)
    BY DEF Strung
  <2>1. p \in Live(w) /\ p \notin S /\ Together(K, p) = Together(w, p)
    BY <1>10
  <2>2. p \in Points /\ cur[p] # "empty" /\ Together(w, p) = StringAt(cur, p)
    BY <1>1, <1>3, <1>6, <2>1 DEF Live, Strung
  <2>3. cur[p] \in Colors
    BY <1>2, <2>2 DEF Placed, BoardType
  <2>4. StringAt(cur2, p) = StringAt(cur, p)
    <3>1. "empty" \notin {cur[r] : r \in S}
      BY <1>4, <1>7
    <3> HIDE DEF cur, S
    <3>2. StringAt(Cleared(cur, S), p) = StringAt(cur, p)
      BY <1>7, <2>1, <2>2, <2>3, <3>1, ClearedStrings
    <3> QED BY <3>2
  <2> QED BY <1>10, <2>1, <2>2, <2>4
<1>14. Watch(F, base, X0, K, Y2)
  <2>1. F \subseteq Points
    BY DEF Stones
  <2> HIDE DEF F, X0, K, Y2, w, Y
  <2>2. Watch(F, w, Y, K, Y2)
    BY <1>10, <2>1 DEF Watch
  <2> QED BY <1>3, <2>2, WatchOn
<1>15. v.queue \subseteq K.queue
  BY <1>6, <1>10 DEF Watch
<1>16. FoesWatched(b, loc, side, E, K.queue)
  <2> SUFFICES ASSUME NEW y \in Points, NEW p, b[y] = Other(side), StringAt(b, y) \cap Neighbors[loc] # {},
                      StringAt(b, y) \cap Neighbors[loc] \subseteq E, Liberties(b, y) \ {loc} = {p}
               PROVE  p \in K.queue
    BY DEF FoesWatched
  <2>1. q \notin StringAt(b, y)
    <3> SUFFICES ASSUME q \in StringAt(b, y) PROVE FALSE
      OBVIOUS
    <3>1. StringAt(b, y) = S
      BY <1>0, StringsPartition
    <3>2. Liberties(b, q) \ {loc} = {p}
      BY <3>1 DEF Liberties
    <3> QED BY <1>0, <3>2
  <2>2. StringAt(b, y) \cap Neighbors[loc] \subseteq D
    BY <1>0, <2>1
  <2> QED BY <1>1, <1>15, <2>2 DEF FoesWatched
<1>17. BesiegedTo(b, loc, side, base, E, C2, cur2, K)
  <2>1. Due(b, C2) \ {loc} \subseteq K.queue
    BY <1>1, <1>10, <1>11, <1>15
  <2> HIDE DEF K, w, cur2, C2
  <2> QED BY <1>10, <1>12, <1>13, <1>14, <1>16, <2>1 DEF BesiegedTo
<1> HIDE DEF K, cur2, C2
<1> QED BY <1>5, <1>11, <1>17 DEF Besieging, K

BesiegeTurn(b, loc, side, n, q) ==
    IF n.board[q] # Other(side) THEN n
    ELSE IF LastEdge(n, q, loc) THEN RemoveString(RemoveEdge(n, q, loc), q)
    ELSE QueueMaxTwoLiberties(RemoveEdge(n, q, loc), q)
BesiegeHolds(b, loc, side, base, seq, k, v) == Besieging(b, loc, side, base, Done(seq, k), v)
Sieges == INSTANCE Recursion WITH Turn <- BesiegeTurn, Holds <- BesiegeHolds

BesiegeStart(b, loc, side, base) ==
    /\ Vacant(b, loc, side) /\ base.board = Put(b, loc, side) /\ base.hash = BoardHash(base.board)
    /\ Wired(base, BoardEdges(base.board) \cup EdgesTo(loc, Others(b, loc, side))) /\ Strung(base)

LEMMA BesiegeBegins ==
  ASSUME NEW b, NEW loc, NEW side, NEW base, BesiegeStart(b, loc, side, base)
  PROVE  /\ Besieging(b, loc, side, base, {}, base)
         /\ EdgesMid(base.board, loc, side, {}) = BoardEdges(base.board) \cup EdgesTo(loc, Others(b, loc, side))
<1> DEFINE B == base.board
           X == EdgesMid(B, loc, side, {})
<1>0. /\ b \in BoardType /\ loc \in Points /\ b[loc] = "empty" /\ side \in Colors
      /\ B = Put(b, loc, side) /\ B \in BoardType /\ base.hash = BoardHash(B) /\ Strung(base)
      /\ Wired(base, BoardEdges(B) \cup EdgesTo(loc, Others(b, loc, side))) /\ Vacant(b, loc, side)
  BY BoardTypes DEF BesiegeStart, Vacant
<1>1. X = BoardEdges(B) \cup EdgesTo(loc, Others(b, loc, side))
  <2>1. \A q \in Neighbors[loc] : q \in Points /\ B[q] = b[q]
    BY <1>0, PointsAssumption DEF Put, BoardType
  <2>2. Owned(B, Neighbors[loc] \ {}, Other(side)) = Others(b, loc, side)
    BY <2>1 DEF Owned, Others
  <2> QED BY <2>2 DEF EdgesMid
<1>2. Caught(b, loc, side, {}) = {}
  BY DEF Caught, Doomed
<1>3. Fought(b, loc, side, {}) = B
  BY <1>0 DEF Fought, Cleared, Put, BoardType
<1>4. SameBut(TakeParts, base, base)
  BY <1>0, SameButSelf DEF Wired, McShape
<1>5. Watch(Stones(B, side), base, X, base, X)
  BY DEF Watch
<1>6. FoesWatched(b, loc, side, {}, base.queue)
  BY DEF FoesWatched
<1>7. Due(b, {}) = {}
  BY DEF Due
<1>8. BesiegedTo(b, loc, side, base, {}, {}, B, base)
  BY <1>0, <1>1, <1>4, <1>5, <1>6, <1>7 DEF BesiegedTo
<1> QED BY <1>1, <1>2, <1>3, <1>8 DEF Besieging

LEMMA BesiegeWires ==
  ASSUME NEW b, NEW loc, NEW side, NEW base, BesiegeStart(b, loc, side, base),
         NEW K, K = Besiege(base, loc, side)
  PROVE  Besieging(b, loc, side, base, Neighbors[loc], K)
<1> DEFINE seq == Around[loc]
           n == Len(seq)
<1>0. K = Sieges!Loop(b, loc, side, base, seq)
  BY DEF Besiege, BesiegeTurn, FoldLeft, MapThenFoldSet, Max, Sieges!Greatest, Sieges!Loop, Sieges!Rest, Sieges!RestOver
<1>1. loc \in Points /\ Vacant(b, loc, side) /\ base.board = Put(b, loc, side)
  BY DEF BesiegeStart, Vacant
<1>2. /\ n \in Nat /\ DOMAIN seq = 1 .. n /\ Done(seq, n) = Neighbors[loc] /\ Done(seq, 0) = {}
      /\ \A k \in 1 .. n : /\ seq[k] \in Neighbors[loc] /\ seq[k] \notin Done(seq, k - 1)
                           /\ Done(seq, k) = Done(seq, k - 1) \cup {seq[k]} /\ Done(seq, k) \subseteq Neighbors[loc]
  BY <1>1, AroundFacts
<1> HIDE DEF n
<1>3. BesiegeHolds(b, loc, side, base, seq, 0, base)
  BY <1>2, BesiegeBegins DEF BesiegeHolds
<1>4. ASSUME NEW k \in 1 .. n, NEW v, BesiegeHolds(b, loc, side, base, seq, k - 1, v)
      PROVE  /\ k \in DOMAIN seq => BesiegeHolds(b, loc, side, base, seq, k, BesiegeTurn(b, loc, side, v, seq[k]))
             /\ k \notin DOMAIN seq => BesiegeHolds(b, loc, side, base, seq, k, v)
  <2> DEFINE q == seq[k]
             D == Done(seq, k - 1)
             E == Done(seq, k)
             w == BesiegeTurn(b, loc, side, v, q)
  <2>1. Turned(loc, D, q, E)
    <3>1. D \subseteq E
      BY <1>2
    <3> QED BY <1>2, <3>1 DEF Turned
  <2>2. Besieging(b, loc, side, base, D, v)
    BY <1>4 DEF BesiegeHolds
  <2> SUFFICES Besieging(b, loc, side, base, E, w)
    BY <1>2 DEF BesiegeHolds
  <2>3. CASE v.board[q] # Other(side)
    <3>1. w = v
      BY <2>3 DEF BesiegeTurn
    <3> HIDE DEF q, D, E, w
    <3> QED BY <1>1, <2>1, <2>2, <2>3, <3>1, BesiegePasses
  <2>4. CASE v.board[q] = Other(side)
    <3>1. LastEdge(v, q, loc) <=> LastLiberty(b, loc, q, E)
      <4> HIDE DEF q, D, E
      <4>1. EdgeIsRemoved(b, loc, side, base, D, q, E, v, RemoveEdge(v, q, loc))
        BY <1>1, <2>1, <2>2, <2>4, BesiegeEdge
      <4> QED BY <4>1 DEF EdgeIsRemoved
    <3>2. CASE LastLiberty(b, loc, q, E)
      <4>1. w = RemoveString(RemoveEdge(v, q, loc), q)
        BY <2>4, <3>1, <3>2 DEF BesiegeTurn
      <4> HIDE DEF q, D, E, w
      <4>2. Besieging(b, loc, side, base, E, RemoveString(RemoveEdge(v, q, loc), q))
        BY <1>1, <2>1, <2>2, <2>4, <3>2, BesiegeTakes
      <4> QED BY <4>1, <4>2
    <3>3. CASE ~LastLiberty(b, loc, q, E)
      <4>1. w = QueueMaxTwoLiberties(RemoveEdge(v, q, loc), q)
        BY <2>4, <3>1, <3>3 DEF BesiegeTurn
      <4> HIDE DEF q, D, E, w
      <4>2. Besieging(b, loc, side, base, E, QueueMaxTwoLiberties(RemoveEdge(v, q, loc), q))
        BY <1>1, <2>1, <2>2, <2>4, <3>3, BesiegeLeaves
      <4> QED BY <4>1, <4>2
    <3> QED BY <3>2, <3>3
  <2> QED BY <2>3, <2>4
<1>5. BesiegeHolds(b, loc, side, base, seq, n, K)
  <2> HIDE DEF seq
  <2>1. BesiegeHolds(b, loc, side, base, seq, n, Sieges!Loop(b, loc, side, base, seq))
    BY <1>2, <1>3, <1>4, Sieges!LoopKeeps
  <2> QED BY <1>0, <2>1
<1> QED BY <1>2, <1>5 DEF BesiegeHolds

-----------------------------------------------------------------------------
(* The stone is put, joined and has taken what it takes.                   *)
FightParts == {"board", "hash", "queue", "ref", "next", "first", "nextE", "prevE", "seen"}

FriendsWatched(b, loc, side, queue) ==
    \A y \in Points : \A p :
        /\ b[y] = side /\ Liberties(Put(b, loc, side), y) = {p} /\ Liberties(BoardAfter(b, loc, side), y) # {p}
        => p \in queue

FightIsOver(m, b, loc, side, K) ==
    LET N == BoardAfter(b, loc, side) IN
    /\ SameBut(FightParts, m, K) /\ K.board = N /\ K.hash = BoardHash(N)
    /\ Wired(K, BoardEdges(N)) /\ Strung(K)
    /\ Empty(b, Neighbors[loc]) \cup (Due(b, CapturedBy(b, loc, side)) \ {loc}) \subseteq K.queue
    /\ FoesWatched(b, loc, side, Neighbors[loc], K.queue) /\ FriendsWatched(b, loc, side, K.queue)

LEMMA MiddleEnds ==
  ASSUME NEW cur, NEW loc, NEW side
  PROVE  EdgesMid(cur, loc, side, Neighbors[loc]) = BoardEdges(cur)
<1>1. Owned(cur, Neighbors[loc] \ Neighbors[loc], Other(side)) = {}
  BY DEF Owned
<1> QED BY <1>1 DEF EdgesMid, EdgesTo

LEMMA FightIs ==
  ASSUME NEW m, NEW b, Holding(m, b), Strung(m), NEW loc, NEW side, Vacant(b, loc, side),
         NEW w, w = JoinOwn(PutStone(m, loc, side), loc, side), NEW K, K = Besiege(w, loc, side)
  PROVE  FightIsOver(m, b, loc, side, K)
<1> DEFINE B == Put(b, loc, side)
           N == BoardAfter(b, loc, side)
           taken == CapturedBy(b, loc, side)
           X0 == EdgesMid(B, loc, side, {})
           X1 == EdgesMid(N, loc, side, Neighbors[loc])
<1>0. /\ b \in BoardType /\ loc \in Points /\ b[loc] = "empty" /\ side \in Colors /\ b = m.board
      /\ B \in BoardType /\ \A p \in Points : B[p] = IF p = loc THEN side ELSE b[p]
  BY BoardTypes DEF Vacant, Holding, Put, BoardType
<1>1. /\ SameBut(PutParts \cup {"queue", "nextE", "prevE"}, m, w)
      /\ w.board = B /\ w.hash = BoardHash(B)
      /\ Wired(w, BoardEdges(B) \cup EdgesTo(loc, Others(b, loc, side)))
      /\ Empty(b, Neighbors[loc]) \subseteq w.queue
      /\ \A p \in Points : B[p] # "empty" => Together(w, p) = StringAt(B, p)
  <2>1. \A p \in Points : b[p] # "empty" => Together(m, p) = StringAt(b, p)
    BY <1>0 DEF Strung, Live
  <2>2. loc \in Points /\ b[loc] = "empty" /\ side \in Colors
    BY <1>0
  <2>3. B = Put(b, loc, side)
    OBVIOUS
  <2> HIDE DEF B
  <2>4. Joining(m, b, loc, side, B, w)
    BY <2>1, <2>2, <2>3, <1>0 DEF Joining
  <2>5. OwnIsJoined(m, b, loc, side, B, w)
    BY ONLY <2>4, OwnJoined
  <2> QED BY <2>5 DEF OwnIsJoined
<1>2. BesiegeStart(b, loc, side, w)
  BY <1>0, <1>1 DEF BesiegeStart, Strung, Live
<1>3. Besieging(b, loc, side, w, Neighbors[loc], K)
  BY <1>2, BesiegeWires
<1>4. Caught(b, loc, side, Neighbors[loc]) = taken /\ Fought(b, loc, side, taken) = N
  BY <1>0, CaughtFacts DEF Fought, BoardAfter
<1>5. BesiegedTo(b, loc, side, w, Neighbors[loc], taken, N, K)
  <2> HIDE DEF taken, N
  <2> QED BY <1>3, <1>4 DEF Besieging
<1>6. /\ SameBut(TakeParts, w, K) /\ K.board = N /\ K.hash = BoardHash(N)
      /\ Wired(K, X1) /\ Strung(K) /\ Due(b, taken) \ {loc} \subseteq K.queue
      /\ Watch(Stones(B, side), w, X0, K, X1)
      /\ FoesWatched(b, loc, side, Neighbors[loc], K.queue)
  <2> HIDE DEF B, N, taken
  <2> QED BY <1>1, <1>5 DEF BesiegedTo
<1>7. X1 = BoardEdges(N)
  BY MiddleEnds
<1>8. SameBut(FightParts, m, K)
  BY <1>1, <1>6 DEF SameBut, FightParts, PutParts, TakeParts, FreedParts, McFields
<1>9. Placed(N, loc, side) /\ \A y \in Points : b[y] = side => N[y] = side
  <2>1. /\ Whole(b, taken) /\ loc \notin taken /\ \A x \in taken : b[x] = Other(side)
    BY <1>0, <1>4, CaughtFacts
  <2>2. /\ N \in BoardType
        /\ \A p \in Points : N[p] = IF p \in taken THEN "empty" ELSE IF p = loc THEN side ELSE b[p]
    <3>1. N = Fought(b, loc, side, taken)
      BY <1>4
    <3> HIDE DEF N, taken
    <3> QED BY <1>0, <2>1, <3>1, FoughtFacts
  <2>3. side # "empty" /\ side # Other(side)
    BY <1>0, OthersColor
  <2> HIDE DEF N, taken
  <2> QED BY <1>0, <2>1, <2>2, <2>3 DEF Placed
<1>10. FriendsWatched(b, loc, side, K.queue)
  <2> SUFFICES ASSUME NEW y \in Points, NEW p, b[y] = side, Liberties(B, y) = {p}, Liberties(N, y) # {p}
               PROVE  p \in K.queue
    BY DEF FriendsWatched
  <2>1. y # loc /\ B[y] = side /\ N[y] = side /\ side # "empty" /\ side # Other(side)
    BY <1>0, <1>9, OthersColor
  <2>2. LibsIn(w, X0, y) = Liberties(B, y)
    <3>1. Midway(w, B, loc, side, {})
      <4>1. Placed(B, loc, side) /\ Strung(w)
        BY <1>0, <1>2 DEF Placed, BesiegeStart
      <4>2. Wired(w, X0)
        <5>1. EdgesMid(w.board, loc, side, {}) = BoardEdges(w.board) \cup EdgesTo(loc, Others(b, loc, side))
          BY <1>2, BesiegeBegins
        <5>2. X0 = BoardEdges(B) \cup EdgesTo(loc, Others(b, loc, side))
          BY <1>1, <5>1
        <5> HIDE DEF X0, B
        <5> QED BY <1>1, <5>2
      <4> QED BY <1>1, <4>1, <4>2 DEF Midway
    <3>2. y \in Live(w) /\ DealtWith(B, loc, side, {}, y)
      BY <1>1, <2>1 DEF Live, DealtWith
    <3> HIDE DEF B
    <3>3. LibsIn(w, EdgesMid(B, loc, side, {}), y) = Liberties(B, y)
      BY <3>1, <3>2, LibsInTheMiddle
    <3> QED BY <3>3
  <2>3. LibsIn(K, X1, y) = Liberties(N, y)
    <3>1. Midway(K, N, loc, side, Neighbors[loc])
      BY <1>6, <1>9 DEF Midway
    <3>2. y \in Live(K) /\ DealtWith(N, loc, side, Neighbors[loc], y)
      BY <1>6, <2>1 DEF Live, DealtWith
    <3> HIDE DEF N
    <3>3. LibsIn(K, EdgesMid(N, loc, side, Neighbors[loc]), y) = Liberties(N, y)
      BY <3>1, <3>2, LibsInTheMiddle
    <3> QED BY <3>3
  <2>4. y \in Stones(B, side)
    BY <2>1 DEF Stones
  <2> HIDE DEF X0, X1, B, N
  <2> QED BY <1>6, <2>2, <2>3, <2>4 DEF Watch
<1>11. w.queue \subseteq K.queue
  BY <1>6 DEF Watch
<1>12. Empty(b, Neighbors[loc]) \cup (Due(b, taken) \ {loc}) \subseteq K.queue
  BY <1>1, <1>6, <1>11
<1> HIDE DEF X1
<1> QED BY <1>6, <1>7, <1>8, <1>10, <1>12 DEF FightIsOver

-----------------------------------------------------------------------------
(* The ko that the counts find is the one of the global board.             *)
LEMMA TakenAreMissing ==
  ASSUME NEW b, NEW loc, NEW side, Vacant(b, loc, side), NEW N, N = BoardAfter(b, loc, side),
         NEW taken, taken = CapturedBy(b, loc, side)
  PROVE  /\ Stones(b, Other(side)) \ Stones(N, Other(side)) = taken /\ taken \subseteq Points /\ loc \notin taken
         /\ N \in BoardType /\ N[loc] = side /\ \A x \in taken : b[x] = Other(side)
         /\ \A p \in Points : N[p] = IF p \in taken THEN "empty" ELSE IF p = loc THEN side ELSE b[p]
<1>0. b \in BoardType /\ loc \in Points /\ b[loc] = "empty" /\ side \in Colors
  BY DEF Vacant
<1>1. Caught(b, loc, side, Neighbors[loc]) = taken /\ Fought(b, loc, side, taken) = N
  BY <1>0, CaughtFacts DEF Fought, BoardAfter
<1>2. Whole(b, taken) /\ loc \notin taken /\ \A x \in taken : x \in Points /\ b[x] = Other(side)
  BY <1>0, <1>1, CaughtFacts
<1>3. /\ N \in BoardType
      /\ \A p \in Points : N[p] = IF p \in taken THEN "empty" ELSE IF p = loc THEN side ELSE b[p]
  <2>1. Whole(b, taken) /\ (\A x \in taken : b[x] = Other(side)) /\ N = Fought(b, loc, side, taken)
    BY <1>1, <1>2
  <2> QED BY <1>0, <2>1, FoughtFacts
<1>4. side # "empty" /\ Other(side) # "empty" /\ side # Other(side)
  BY <1>0, OthersColor
<1>5. Stones(b, Other(side)) \ Stones(N, Other(side)) = taken
  BY <1>0, <1>2, <1>3, <1>4 DEF Stones
<1> QED BY <1>0, <1>2, <1>3, <1>5

(* The stone that was put is alone.                                        *)
LEMMA AloneIs ==
  ASSUME NEW b, NEW loc, NEW side, Vacant(b, loc, side), NEW N, N = BoardAfter(b, loc, side)
  PROVE  /\ loc \in StringAt(N, loc)
         /\ StringAt(N, loc) = {loc} <=> ~HasNeighbor(b, loc, side)
         /\ StringAt(N, loc) = {loc} =>
               Liberties(N, loc) = Empty(b, Neighbors[loc]) \cup (CapturedBy(b, loc, side) \cap Neighbors[loc])
<1> DEFINE taken == CapturedBy(b, loc, side)
<1>0. b \in BoardType /\ loc \in Points /\ b[loc] = "empty" /\ side \in Colors /\ loc \notin Neighbors[loc]
  BY PointsAssumption DEF Vacant
<1>1. /\ N \in BoardType /\ N[loc] = side /\ taken \subseteq Points /\ \A x \in taken : b[x] = Other(side)
      /\ \A p \in Points : N[p] = IF p \in taken THEN "empty" ELSE IF p = loc THEN side ELSE b[p]
  <2>1. taken = CapturedBy(b, loc, side)
    OBVIOUS
  <2> HIDE DEF taken
  <2> QED BY <2>1, TakenAreMissing
<1>2. side # "empty" /\ Other(side) # "empty" /\ side # Other(side)
  BY <1>0, OthersColor
<1> DEFINE S == StringAt(N, loc)
<1>3. loc \in S /\ Closed(Stones(N, N[loc]), S)
  BY <1>0, StringFacts, StringIsClosed
<1>4. ASSUME HasNeighbor(b, loc, side) PROVE S # {loc}
  <2>1. PICK q \in Neighbors[loc] : b[q] = side
    BY <1>4 DEF HasNeighbor
  <2>2. q \in Points /\ N[q] = side /\ loc \in Neighbors[q]
    BY <1>0, <1>1, <1>2, <2>1, PointsAssumption
  <2>3. q \in S
    BY <1>1, <1>3, <2>2 DEF Closed, Stones
  <2> QED BY <1>0, <2>1, <2>3
<1>5. ASSUME ~HasNeighbor(b, loc, side) PROVE S = {loc}
  <2>1. Closed(Stones(N, N[loc]), {loc})
    <3> SUFFICES ASSUME NEW q \in Points, N[q] = side, loc \in Neighbors[q] PROVE q = loc
      BY <1>1 DEF Closed, Stones
    <3>1. q \in Neighbors[loc]
      BY <1>0, PointsAssumption
    <3>2. b[q] # side
      BY <1>5, <3>1 DEF HasNeighbor
    <3> QED BY <1>1, <1>2, <3>2
  <2>2. S \subseteq {loc}
    BY <1>0, <2>1, StringIsLeast
  <2> QED BY <1>3, <2>2
<1>6. ASSUME S = {loc} PROVE Liberties(N, loc) = Empty(b, Neighbors[loc]) \cup (taken \cap Neighbors[loc])
  <2>1. \A l : l \in Liberties(N, loc) <=> l \in Points /\ N[l] = "empty" /\ \E x \in S : x \in Neighbors[l]
    BY LibertyIs
  <2>2. \A l : l \in Liberties(N, loc) <=> l \in Neighbors[loc] /\ N[l] = "empty"
    BY <1>0, <1>6, <2>1, PointsAssumption
  <2>3. \A l \in Neighbors[loc] : N[l] = "empty" <=> b[l] = "empty" \/ l \in taken
    BY <1>0, <1>1, <1>2, PointsAssumption
  <2> HIDE DEF taken, S
  <2> QED BY <2>2, <2>3 DEF Empty
<1> QED BY <1>3, <1>4, <1>5, <1>6

LEMMA RingOfItself ==
  ASSUME NEW next, NEW p, NEW S, Ring(next, p, S)
  PROVE  next[p] = p <=> S = {p}
<1>1. p \in S /\ Onward(next, S) /\ \A Y \in SUBSET S : Y # {} /\ Onward(next, Y) => Y = S
  BY DEF Ring
<1>2. ASSUME next[p] = p PROVE S = {p}
  <2>1. Onward(next, {p}) /\ {p} \in SUBSET S
    BY <1>1, <1>2 DEF Onward
  <2> QED BY <1>1, <2>1
<1>3. ASSUME S = {p} PROVE next[p] = p
  BY <1>1, <1>3 DEF Onward
<1> QED BY <1>2, <1>3

(* The first edge of a stone that is alone is that of a liberty.           *)
LEMMA FirstEdge ==
  ASSUME NEW m, NEW b, b = m.board, Wired(m, BoardEdges(b)), Strung(m), NEW loc \in Live(m),
         StringAt(b, loc) = {loc}, Liberties(b, loc) # {}
  PROVE  m.first[loc][1] \in Liberties(b, loc)
<1> DEFINE X == BoardEdges(b)
           H == Hung(m, X, m.ref[loc])
<1>1. Together(m, loc) = {loc} /\ m.ref[loc] = loc
  BY DEF Strung, Wired, StonesWired
<1>2. LibsIn(m, X, loc) = Liberties(b, loc)
  <2>1. X \subseteq Edges /\ \A e \in X : e[2] \in Live(m)
    BY DEF Wired, EdgesWired
  <2>2. \A e \in Edges : e[2] \in {loc} => (e \in X <=> b[e[1]] = "empty")
    BY DEF BoardEdges, Live
  <2> HIDE DEF X
  <2> QED BY <1>1, <2>1, <2>2, LibsAreLiberties
<1>3. H # {}
  BY <1>2 DEF LibsIn
<1>4. Looped(m.nextE, m.prevE, m.first[m.ref[loc]], H)
  BY DEF Wired, EdgesWired
<1>5. m.first[loc] \in H
  <2> HIDE DEF H
  <2> QED BY <1>1, <1>3, <1>4 DEF Looped, Ring
<1>6. m.first[loc][1] \in LibsIn(m, X, loc)
  BY <1>5 DEF LibsIn
<1> QED BY <1>2, <1>6

KoIsFound(b, loc, side, K, W) ==
    /\ SameBut({"ko", "hash"}, K, W) /\ W.ko = KoAfter(b, loc, side)
    /\ W.hash = HashRecalc(BoardAfter(b, loc, side), W.ko)

LEMMA WithKoIs ==
  ASSUME NEW m, NEW b, NEW loc, NEW side, Vacant(b, loc, side), NEW K, FightIsOver(m, b, loc, side, K),
         K.ko = NoMove, NEW before, before.board = b
  PROVE  KoIsFound(b, loc, side, K, WithKo(before, K, loc, side))
<1> DEFINE N == BoardAfter(b, loc, side)
           taken == CapturedBy(b, loc, side)
           libs == Liberties(N, loc)
           W == WithKo(before, K, loc, side)
           t == K.first[loc][1]
           alone == StringAt(N, loc) = {loc}
<1>0. b \in BoardType /\ loc \in Points /\ b[loc] = "empty" /\ side \in Colors /\ side # "empty"
  BY OthersColor DEF Vacant
<1>1. /\ Stones(b, Other(side)) \ Stones(N, Other(side)) = taken /\ taken \subseteq Points /\ N[loc] = side
      /\ \A x \in taken : b[x] = Other(side)
  <2>1. taken = CapturedBy(b, loc, side) /\ N = BoardAfter(b, loc, side)
    OBVIOUS
  <2> HIDE DEF taken, N
  <2> QED BY <2>1, TakenAreMissing
<1>2. K.board = N /\ K.hash = BoardHash(N) /\ Wired(K, BoardEdges(N)) /\ Strung(K) /\ Record(K)
  BY DEF FightIsOver, Wired, McShape
<1>3. /\ loc \in StringAt(N, loc) /\ alone <=> ~HasNeighbor(b, loc, side)
      /\ alone => libs = Empty(b, Neighbors[loc]) \cup (taken \cap Neighbors[loc])
  <2>1. N = BoardAfter(b, loc, side)
    OBVIOUS
  <2> HIDE DEF N
  <2>2. /\ loc \in StringAt(N, loc)
        /\ StringAt(N, loc) = {loc} <=> ~HasNeighbor(b, loc, side)
        /\ StringAt(N, loc) = {loc} =>
              Liberties(N, loc) = Empty(b, Neighbors[loc]) \cup (CapturedBy(b, loc, side) \cap Neighbors[loc])
    BY <2>1, AloneIs
  <2> QED BY <2>2
<1>4. loc \in Live(K)
  BY <1>0, <1>1, <1>2 DEF Live
<1>5. K.next[loc] = loc <=> alone
  <2>1. Ring(K.next, loc, StringAt(N, loc))
    BY <1>2, <1>4 DEF Strung, Wired, StonesWired
  <2> HIDE DEF N
  <2> QED BY <2>1, RingOfItself
<1>6. Besides(before, loc, "empty") = Empty(b, Neighbors[loc])
  BY DEF Besides, Empty
<1> DEFINE found == Cardinality(taken) = 1 /\ alone /\ Empty(b, Neighbors[loc]) = {}
<1>7. W = IF found THEN [K EXCEPT !.ko = t, !.hash = SymDiff(@, {KoHash(t)})] ELSE K
  <2> HIDE DEF taken, N, t, alone
  <2> QED BY <1>1, <1>2, <1>5, <1>6 DEF WithKo, t
<1>8. ASSUME alone, Cardinality(taken) = 1
      PROVE  \E x : taken = {x} /\ x \in Neighbors[loc] /\ x \notin Empty(b, Neighbors[loc])
                    /\ libs = Empty(b, Neighbors[loc]) \cup {x}
  <2>1. IsFiniteSet(taken)
    BY <1>1, PointsAssumption, FS_Subset
  <2>2. PICK x : taken = {x}
    <3> HIDE DEF taken
    <3> QED BY <1>8, <2>1, FS_Singleton
  <2>3. PICK q \in Neighbors[loc] : b[q] = Other(side) /\ Liberties(b, q) = {loc} /\ StringAt(b, q) \subseteq taken
    BY <2>2 DEF CapturedBy
  <2>4. q \in StringAt(b, q)
    BY <1>0, StringFacts, PointsAssumption
  <2>5. q = x /\ b[q] # "empty"
    BY <1>0, <2>2, <2>3, <2>4, OthersColor
  <2> HIDE DEF taken, libs
  <2> QED BY <1>3, <1>8, <2>2, <2>3, <2>5 DEF Empty
<1>9. CASE found
  <2>1. PICK x : taken = {x} /\ x \in Neighbors[loc] /\ libs = Empty(b, Neighbors[loc]) \cup {x}
    BY <1>8, <1>9
  <2>2. libs = {x}
    BY <1>9, <2>1
  <2>3. t = x
    <3>1. K.first[loc][1] \in Liberties(N, loc)
      <4>1. N = K.board /\ Wired(K, BoardEdges(N)) /\ StringAt(N, loc) = {loc} /\ Liberties(N, loc) # {}
        BY <1>2, <1>9, <2>2
      <4> HIDE DEF N
      <4> QED BY <1>2, <1>4, <4>1, FirstEdge
    <3> QED BY <2>2, <3>1
  <2>4. KoAfter(b, loc, side) = x
    <3>1. Cardinality(libs) = 1
      BY <2>2, FS_Singleton
    <3>2. ~HasNeighbor(b, loc, side) /\ Cardinality(taken) = 1
      BY <1>3, <1>9
    <3>3. (CHOOSE l \in libs : TRUE) = x
      BY <2>2
    <3> QED BY <3>1, <3>2, <3>3 DEF KoAfter
  <2>5. W = [K EXCEPT !.ko = x, !.hash = SymDiff(@, {KoHash(x)})]
    BY <1>7, <1>9, <2>3
  <2> HIDE DEF W, N
  <2>6. SameBut({"ko", "hash"}, K, W) /\ W.ko = x /\ W.hash = SymDiff(BoardHash(N), {KoHash(x)})
    BY <1>2, <2>5 DEF SameBut, Record, McFields
  <2>7. x # NoMove
    BY <1>1, <2>1, PointsAssumption
  <2>8. SymDiff(BoardHash(N), {KoHash(x)}) = HashRecalc(N, x)
    <3>1. KoPart(x) = {KoHash(x)}
      BY <2>7 DEF KoPart
    <3>2. BoardHash(N) \cap KoPart(x) = {}
      BY KoHashesApart
    <3>3. SymDiff(BoardHash(N), KoPart(x)) = BoardHash(N) \cup KoPart(x)
      BY <3>2, SymDiffFacts
    <3> QED BY <3>1, <3>3 DEF HashRecalc, BoardHash
  <2> QED BY <2>4, <2>6, <2>8 DEF KoIsFound, N, W
<1>10. CASE ~found
  <2>1. W = K
    BY <1>7, <1>10
  <2>2. KoAfter(b, loc, side) = NoMove
    <3> SUFFICES ASSUME ~HasNeighbor(b, loc, side), Cardinality(libs) = 1, Cardinality(taken) = 1 PROVE FALSE
      BY DEF KoAfter
    <3>1. alone
      BY <1>3
    <3>2. PICK x : /\ taken = {x} /\ x \in Neighbors[loc] /\ x \notin Empty(b, Neighbors[loc])
                   /\ libs = Empty(b, Neighbors[loc]) \cup {x}
      BY <1>8, <3>1
    <3>3. PICK y : libs = {y}
      <4>1. IsFiniteSet(libs)
        <5>1. libs \subseteq Points
          BY DEF Liberties, LibertiesOf
        <5> QED BY <5>1, PointsAssumption, FS_Subset
      <4> HIDE DEF libs
      <4> QED BY <4>1, FS_Singleton
    <3>4. Empty(b, Neighbors[loc]) = {}
      BY <3>2, <3>3
    <3> QED BY <1>10, <3>1, <3>4
  <2>3. HashRecalc(N, NoMove) = BoardHash(N)
    BY DEF HashRecalc, BoardHash, KoPart
  <2>4. SameBut({"ko", "hash"}, K, K)
    BY <1>2, SameButSelf
  <2> QED BY <1>2, <2>1, <2>2, <2>3, <2>4 DEF KoIsFound
<1> QED BY <1>9, <1>10

-----------------------------------------------------------------------------
(* The board is b, and its rings and edges are those of b.                 *)
Standing(m, b) == b = m.board /\ Wired(m, BoardEdges(b)) /\ Strung(m)

LEMMA StandingLiberties ==
  ASSUME NEW m, NEW b, Standing(m, b), NEW q \in Live(m)
  PROVE  /\ LibsIn(m, BoardEdges(b), q) = Liberties(b, q) /\ LibertiesFrom(m, q) = Liberties(b, q)
         /\ \A p \in Neighbors[q] : b[p] = "empty" => LibertiesAlong(m, <<p, q>>) = Liberties(b, q)
<1> DEFINE X == BoardEdges(b)
           S == StringAt(b, q)
<1>0. b = m.board /\ Wired(m, X) /\ Strung(m) /\ Laced(m, X)
  BY DEF Standing, Wired, Laced
<1>1. q \in Points /\ b[q] # "empty" /\ Together(m, q) = S /\ \A x \in S : x \in Points /\ b[x] = b[q]
  BY <1>0, StringFacts DEF Live, Strung, Stones
<1>2. X \subseteq Edges /\ \A e \in X : e[2] \in Live(m)
  BY <1>0 DEF Wired, EdgesWired
<1>3. \A e \in Edges : e[2] \in S => (e \in X <=> b[e[1]] = "empty")
  BY <1>1 DEF BoardEdges
<1>4. S = StringAt(b, q)
  OBVIOUS
<1>5. \A p \in Neighbors[q] : b[p] = "empty" => <<p, q>> \in Hung(m, X, m.ref[q])
  <2> TAKE p \in Neighbors[q]
  <2> HAVE b[p] = "empty"
  <2>1. p \in Points /\ q \in Neighbors[p]
    BY <1>1, PointsAssumption
  <2>2. <<p, q>> \in X
    BY <1>1, <2>1, BoardEdgeIs
  <2>3. <<p, q>>[2] = q
    OBVIOUS
  <2> HIDE DEF X
  <2> QED BY <2>2, <2>3 DEF Hung
<1> HIDE DEF X, S
<1>6. LibsIn(m, X, q) = Liberties(b, q)
  BY <1>0, <1>1, <1>2, <1>3, <1>4, LibsAreLiberties
<1>7. LibertiesFrom(m, q) = LibsIn(m, X, q) /\ \A e \in Hung(m, X, m.ref[q]) : LibertiesAlong(m, e) = LibsIn(m, X, q)
  BY <1>0, LibertiesFromIs
<1> QED BY <1>5, <1>6, <1>7 DEF X

(* mc_update_local_context finds the suicides.                             *)
Suicides(b, p) == {c \in Colors : IsSuicide(b, p, c)}

LEMMA LocalSuicide ==
  ASSUME NEW m, NEW b, Standing(m, b), b \in BoardType, NEW p \in Points, b[p] = "empty"
  PROVE  LocalContext(m, p).suicide = Suicides(b, p)
<1>0. b = m.board
  BY DEF Standing
<1>1. ASSUME NEW q \in Neighbors[p], b[q] # "empty"
      PROVE  InAtari(m, p, q) <=> Cardinality(Liberties(b, q)) = 1
  <2>1. q \in Live(m) /\ p \in Neighbors[q] /\ q \in Points
    BY <1>0, <1>1, PointsAssumption DEF Live
  <2>2. LibertiesAlong(m, <<p, q>>) = Liberties(b, q)
    BY <2>1, StandingLiberties
  <2>3. Cardinality(Liberties(b, q)) = 1 <=> Liberties(b, q) = {p}
    BY NeighborLiberty
  <2> QED BY <2>2, <2>3 DEF InAtari
<1> DEFINE Free(c) == Besides(m, p, "empty") \cup {q \in Besides(m, p, Other(c)) : InAtari(m, p, q)}
           Through(c) == \E q \in Besides(m, p, c) : ~InAtari(m, p, q)
<1>2. LocalContext(m, p).suicide = {c \in Colors : Free(c) = {} /\ ~Through(c)}
  BY DEF LocalContext
<1>3. \A q \in Neighbors[p] : q \in Points /\ b[q] \in Colors \cup {"empty"}
  BY PointsAssumption DEF BoardType
<1>4. ASSUME NEW c \in Colors PROVE Free(c) = {} /\ ~Through(c) <=> IsSuicide(b, p, c)
  <2>1. \A q : b[q] \in Colors \cup {"empty"} => (b[q] = Other(c) <=> b[q] # "empty" /\ b[q] # c)
    BY OthersColor
  <2>2. c # "empty" /\ Other(c) # "empty"
    BY OthersColor
  <2>3. Free(c) = {} <=> \A q \in Neighbors[p] : b[q] # "empty" /\ (b[q] = Other(c) => ~InAtari(m, p, q))
    BY <1>0 DEF Besides
  <2>4. Through(c) <=> \E q \in Neighbors[p] : b[q] = c /\ ~InAtari(m, p, q)
    BY <1>0 DEF Besides
  <2>5. IsSuicide(b, p, c) <=> \A q \in Neighbors[p] : b[q] # "empty" /\ (b[q] = c <=> Cardinality(Liberties(b, q)) = 1)
    BY DEF IsSuicide
  <2> HIDE DEF Free, Through
  <2>6. ASSUME Free(c) = {}, ~Through(c), NEW q \in Neighbors[p]
        PROVE  b[q] # "empty" /\ (b[q] = c <=> Cardinality(Liberties(b, q)) = 1)
    <3>1. b[q] # "empty"
      BY <2>3, <2>6
    <3>2. InAtari(m, p, q) <=> Cardinality(Liberties(b, q)) = 1
      BY <1>1, <3>1
    <3>3. b[q] = c => InAtari(m, p, q)
      BY <2>4, <2>6
    <3>4. b[q] # c => ~InAtari(m, p, q)
      BY <1>3, <2>1, <2>3, <2>6, <3>1
    <3> QED BY <3>1, <3>2, <3>3, <3>4
  <2>7. ASSUME IsSuicide(b, p, c) PROVE Free(c) = {} /\ ~Through(c)
    <3>1. \A q \in Neighbors[p] : b[q] # "empty" /\ (b[q] = c <=> InAtari(m, p, q))
      BY <1>1, <2>5, <2>7
    <3>2. \A q \in Neighbors[p] : b[q] = Other(c) => b[q] # c
      BY <2>1, <1>3
    <3> QED BY <2>3, <2>4, <3>1, <3>2
  <2> QED BY <2>5, <2>6, <2>7
<1> HIDE DEF Free, Through
<1> QED BY <1>2, <1>4 DEF Suicides

-----------------------------------------------------------------------------
(* At a point that is not queued nothing changes: no neighbor was put or   *)
(* taken, and none came into atari there or got out of it.                 *)
Watched(b, loc, side, queue) ==
    /\ Empty(b, Neighbors[loc]) \cup (Due(b, CapturedBy(b, loc, side)) \ {loc}) \subseteq queue
    /\ FoesWatched(b, loc, side, Neighbors[loc], queue) /\ FriendsWatched(b, loc, side, queue)
    /\ \A p : Liberties(BoardAfter(b, loc, side), loc) = {p} => p \in queue

LEMMA FriendsLiberties ==
  ASSUME NEW b, NEW loc, NEW side, Vacant(b, loc, side), NEW N, N = BoardAfter(b, loc, side),
         NEW q \in Points, b[q] = side
  PROVE  \/ StringAt(N, q) = StringAt(N, loc) /\ loc \in Liberties(b, q)
         \/ Liberties(Put(b, loc, side), q) = Liberties(b, q) /\ Liberties(b, q) \subseteq Liberties(N, q)
<1> DEFINE B == Put(b, loc, side)
           taken == CapturedBy(b, loc, side)
<1>0. /\ b \in BoardType /\ loc \in Points /\ b[loc] = "empty" /\ side \in Colors /\ side # Other(side)
      /\ side # "empty" /\ B \in BoardType /\ (\A p \in Points : B[p] = IF p = loc THEN side ELSE b[p])
      /\ Other(side) # "empty"
  BY OthersColor, BoardTypes DEF Vacant, Put, BoardType
<1>1. N = Cleared(B, taken)
  BY DEF BoardAfter
<1>2. /\ Whole(b, taken) /\ loc \notin taken /\ taken \subseteq Points /\ \A x \in taken : b[x] = Other(side)
  <2>1. taken = CapturedBy(b, loc, side)
    OBVIOUS
  <2> HIDE DEF taken
  <2>2. taken \subseteq Points /\ loc \notin taken /\ \A x \in taken : b[x] = Other(side)
    BY <2>1, TakenAreMissing
  <2>3. Whole(b, taken)
    BY <1>0, <2>1, TakenAreWhole
  <2> QED BY <2>2, <2>3
<1>3. Whole(B, taken) /\ "empty" \notin {B[r] : r \in taken}
  <2>1. ASSUME NEW r \in taken PROVE StringAt(B, r) \subseteq taken
    <3>1. r \in Points /\ b[r] = Other(side)
      BY <1>2
    <3>2. StringAt(B, r) = StringAt(b, r)
      BY <1>0, <3>1, PutOthers
    <3> QED BY <1>2, <3>2 DEF Whole
  <2> HIDE DEF taken
  <2> QED BY <1>0, <1>2, <2>1 DEF Whole
<1>4. ASSUME NEW s \in Points, B[s] = side
      PROVE  StringAt(N, s) = StringAt(B, s) /\ Liberties(B, s) \subseteq Liberties(N, s)
  <2>1. s \notin taken /\ B[s] \in Colors
    BY <1>0, <1>2, <1>4
  <2> HIDE DEF B, taken
  <2>2. /\ StringAt(Cleared(B, taken), s) = StringAt(B, s)
        /\ Liberties(B, s) \subseteq Liberties(Cleared(B, taken), s)
    BY <1>3, <1>4, <2>1, ClearedStrings
  <2> QED BY <1>1, <2>2
<1>5. B[q] = side /\ B[loc] = side
  BY <1>0
<1>6. CASE q \in StringAt(B, loc)
  <2>1. StringAt(B, q) = StringAt(B, loc)
    BY <1>0, <1>6, StringsPartition
  <2>2. StringAt(N, q) = StringAt(N, loc)
    BY <1>0, <1>4, <1>5, <2>1
  <2>3. PICK r \in Neighbors[loc] : b[r] = side /\ q \in StringAt(b, r)
    <3>1. q = loc \/ \E r \in Neighbors[loc] : b[r] = side /\ q \in StringAt(b, r)
      BY <1>0, <1>6, PutString
    <3> QED BY <1>0, <3>1
  <2>4. r \in Points /\ loc \in Liberties(b, r)
    BY <1>0, NeighborLiberty
  <2>5. StringAt(b, q) = StringAt(b, r)
    BY <2>3, <2>4, StringsPartition
  <2>6. loc \in Liberties(b, q)
    BY <2>4, <2>5 DEF Liberties
  <2> QED BY <2>2, <2>6
<1>7. CASE q \notin StringAt(B, loc)
  <2>1. StringAt(B, q) = StringAt(b, q) /\ Liberties(b, q) \subseteq Liberties(B, q)
    BY <1>0, <1>7, PutOwn
  <2>2. Liberties(B, q) \subseteq Liberties(b, q)
    <3>1. \A l \in Points : B[l] = "empty" => b[l] = "empty"
      BY <1>0
    <3> HIDE DEF B
    <3> QED BY <2>1, <3>1 DEF Liberties, LibertiesOf
  <2>3. Liberties(B, q) \subseteq Liberties(N, q)
    BY <1>4, <1>5
  <2> QED BY <2>1, <2>2, <2>3
<1> QED BY <1>6, <1>7

LEMMA AtariStays ==
  ASSUME NEW b, NEW loc, NEW side, Vacant(b, loc, side), NEW N, N = BoardAfter(b, loc, side),
         NEW queue, Watched(b, loc, side, queue), NEW p \in Points, b[p] = "empty", p \notin queue, p # loc,
         NEW q \in Neighbors[p], b[q] # "empty", N[q] = b[q]
  PROVE  Liberties(N, q) = {p} <=> Liberties(b, q) = {p}
<1> DEFINE B == Put(b, loc, side)
           taken == CapturedBy(b, loc, side)
<1>0. /\ b \in BoardType /\ loc \in Points /\ b[loc] = "empty" /\ side \in Colors /\ q \in Points
      /\ b[q] = side \/ b[q] = Other(side)
  BY OthersColor, PointsAssumption DEF Vacant, BoardType
<1>1. CASE b[q] = Other(side)
  <2>1. Liberties(N, q) = Liberties(b, q) \ {loc}
    <3>1. Caught(b, loc, side, Neighbors[loc]) = taken /\ Fought(b, loc, side, taken) = N
      BY <1>0, CaughtFacts DEF Fought, BoardAfter
    <3>2. Whole(b, taken) /\ (\A x \in taken : b[x] = Other(side)) /\ N = Fought(b, loc, side, taken)
      BY <1>0, <3>1, CaughtFacts
    <3> HIDE DEF taken
    <3> QED BY <1>0, <1>1, <3>2, FoesLiberties
  <2>2. CASE StringAt(b, q) \cap Neighbors[loc] = {}
    <3>1. loc \notin Liberties(b, q)
      BY <2>2, LibertyIs
    <3> QED BY <2>1, <3>1
  <2>3. CASE StringAt(b, q) \cap Neighbors[loc] # {}
    <3>1. Liberties(b, q) \ {loc} # {p}
      BY <1>0, <1>1, <2>3 DEF Watched, FoesWatched
    <3>2. loc \in Liberties(b, q)
      BY <1>0, <2>3, LibertyIs
    <3> QED BY <2>1, <3>1, <3>2
  <2> QED BY <2>2, <2>3
<1>2. CASE b[q] = side
  <2>1. CASE StringAt(N, q) = StringAt(N, loc) /\ loc \in Liberties(b, q)
    <3>1. Liberties(N, q) = Liberties(N, loc)
      BY <2>1 DEF Liberties
    <3>2. Liberties(N, loc) # {p}
      BY DEF Watched
    <3> QED BY <2>1, <3>1, <3>2
  <2>2. CASE Liberties(B, q) = Liberties(b, q) /\ Liberties(b, q) \subseteq Liberties(N, q)
    <3>1. Liberties(b, q) = {p} => Liberties(N, q) = {p}
      BY <1>0, <1>2, <2>2 DEF Watched, FriendsWatched
    <3>2. p \in Liberties(b, q)
      BY NeighborLiberty
    <3> QED BY <2>2, <3>1, <3>2
  <2> QED BY <1>0, <1>2, <2>1, <2>2, FriendsLiberties
<1> QED BY <1>0, <1>1, <1>2

LEMMA SuicidesStay ==
  ASSUME NEW b, NEW loc, NEW side, Vacant(b, loc, side), NEW N, N = BoardAfter(b, loc, side),
         NEW queue, Watched(b, loc, side, queue), NEW p \in Points, N[p] = "empty", p \notin queue
  PROVE  b[p] = "empty" /\ Suicides(N, p) = Suicides(b, p)
<1> DEFINE taken == CapturedBy(b, loc, side)
<1>0. b \in BoardType /\ loc \in Points /\ b[loc] = "empty" /\ side \in Colors /\ side # "empty" /\ Other(side) # "empty"
  BY OthersColor DEF Vacant
<1>1. /\ taken \subseteq Points /\ loc \notin taken /\ N[loc] = side /\ N \in BoardType
      /\ \A x \in Points : N[x] = IF x \in taken THEN "empty" ELSE IF x = loc THEN side ELSE b[x]
  <2>1. taken = CapturedBy(b, loc, side)
    OBVIOUS
  <2> HIDE DEF taken
  <2> QED BY <2>1, TakenAreMissing
<1>2. Empty(b, Neighbors[loc]) \cup (Due(b, taken) \ {loc}) \subseteq queue
  BY DEF Watched
<1> HIDE DEF taken
<1>3. p # loc /\ p \notin taken /\ b[p] = "empty"
  BY <1>0, <1>1, <1>2 DEF Due
<1>4. ASSUME NEW q \in Neighbors[p] PROVE N[q] = b[q] /\ q \in Points
  <2>1. q \in Points /\ p \in Neighbors[q]
    BY PointsAssumption
  <2>2. q # loc
    BY <1>2, <1>3, <2>1 DEF Empty
  <2>3. q \notin taken
    BY <1>2, <1>3 DEF Due
  <2> QED BY <1>1, <2>1, <2>2, <2>3
<1>5. ASSUME NEW q \in Neighbors[p], b[q] # "empty"
      PROVE  Cardinality(Liberties(N, q)) = 1 <=> Cardinality(Liberties(b, q)) = 1
  <2>1. Liberties(N, q) = {p} <=> Liberties(b, q) = {p}
    BY <1>3, <1>4, <1>5, AtariStays
  <2>2. Cardinality(Liberties(N, q)) = 1 <=> Liberties(N, q) = {p}
    BY NeighborLiberty
  <2>3. Cardinality(Liberties(b, q)) = 1 <=> Liberties(b, q) = {p}
    BY <1>3, NeighborLiberty
  <2> QED BY <2>1, <2>2, <2>3
<1>6. ASSUME NEW c \in Colors PROVE IsSuicide(N, p, c) <=> IsSuicide(b, p, c)
  <2>1. \A q \in Neighbors[p] : (N[q] # "empty" /\ ((N[q] = c) = (Cardinality(Liberties(N, q)) = 1)))
                                <=> (b[q] # "empty" /\ ((b[q] = c) = (Cardinality(Liberties(b, q)) = 1)))
    BY <1>4, <1>5
  <2> QED BY <2>1 DEF IsSuicide
<1> QED BY <1>3, <1>6 DEF Suicides

-----------------------------------------------------------------------------
(* What is known of the board of a playout.                                *)
ContextsKnown(m) == \A p \in Points : m.board[p] = "empty" => m.context[p].suicide = Suicides(m.board, p)
ValuesKnown(m) ==
    \A c \in Colors, p \in Points :
        m.values[c][p] # NoValue <=> m.board[p] = "empty" /\ c \notin m.context[p].suicide

McSound(m) ==
    /\ Standing(m, m.board) /\ NoDeadStrings(m.board)
    /\ m.ko \in Points \cup {NoMove} /\ m.hash = HashRecalc(m.board, m.ko)
    /\ ContextsKnown(m) /\ ValuesKnown(m)

(* The queue is emptied and the ko point given up.                         *)
LEMMA McCleared ==
  ASSUME NEW m, McSound(m), NEW K, K = KoCleared([m EXCEPT !.queue = {}])
  PROVE  /\ SameBut({"ko", "hash", "queue"}, m, K) /\ Holding(K, m.board) /\ Strung(K) /\ K.ko = NoMove
         /\ K.hash = HashRecalc(m.board, NoMove)
<1> DEFINE b == m.board
<1>1. Wired(m, BoardEdges(b)) /\ Strung(m) /\ m.hash = HashRecalc(b, m.ko) /\ Record(m)
  BY DEF McSound, Standing, Wired, McShape
<1>2. SameBut({"ko", "hash", "queue"}, m, K) /\ K.ko = NoMove /\ K.hash = SymDiff(m.hash, KoPart(m.ko))
  BY <1>1 DEF KoCleared, SameBut, Record, McFields
<1>3. K.hash = BoardHash(b)
  <2>1. m.hash = BoardHash(b) \cup KoPart(m.ko)
    BY <1>1 DEF HashRecalc, BoardHash
  <2>2. BoardHash(b) \cap KoPart(m.ko) = {}
    BY KoHashesApart
  <2>3. SymDiff(BoardHash(b) \cup KoPart(m.ko), KoPart(m.ko)) = BoardHash(b)
    BY <2>2, SymDiffFacts
  <2> QED BY <1>2, <2>1, <2>3
<1>4. HashRecalc(b, NoMove) = BoardHash(b)
  BY DEF HashRecalc, BoardHash, KoPart
<1>5. K.board = b /\ K.ref = m.ref
  BY <1>2 DEF SameBut, McFields
<1>6. Strung(K)
  BY <1>1, <1>5 DEF Strung, Together, Live
<1>7. Wired(K, BoardEdges(b))
  <2>1. SameBut({"ko", "hash", "queue", "context", "values"}, m, K)
    BY <1>2 DEF SameBut
  <2> HIDE DEF b
  <2> QED BY <1>1, <2>1, WiredSame
<1> QED BY <1>2, <1>3, <1>4, <1>5, <1>6, <1>7 DEF Holding

LEMMA StandingSame ==
  ASSUME NEW m, NEW b, Standing(m, b), NEW K, SameBut({"ko", "hash", "queue", "context", "values"}, m, K)
  PROVE  Standing(K, b) /\ Record(K)
<1>1. K.board = m.board /\ K.ref = m.ref
  BY DEF SameBut, McFields
<1>2. Wired(K, BoardEdges(b))
  BY WiredSame DEF Standing
<1>3. Strung(K)
  BY <1>1 DEF Standing, Strung, Together, Live
<1> QED BY <1>1, <1>2, <1>3 DEF Standing, SameBut

(* mc_play_move, for a point that is empty and no suicide.                 *)
McPlayed(m, b, loc, side, K) ==
    LET N == BoardAfter(b, loc, side) IN
    /\ Standing(K, N) /\ K.ko = KoAfter(b, loc, side) /\ K.hash = HashRecalc(N, K.ko)
    /\ K.values = m.values /\ ContextsKnown(K)
    /\ \A p \in Points : p \notin K.queue => K.context[p] = m.context[p] /\ (b[p] = "empty" <=> N[p] = "empty")

LEMMA McPlayIs ==
  ASSUME NEW m, McSound(m), NEW b, b = m.board, NEW loc, NEW side, Vacant(b, loc, side),
         IsLegal(m, loc, side), NEW K, K = McPlayMove(m, loc, side)
  PROVE  McPlayed(m, b, loc, side, K)
<1> DEFINE N == BoardAfter(b, loc, side)
           m1 == KoCleared([m EXCEPT !.queue = {}])
           j == JoinOwn(PutStone(m1, loc, side), loc, side)
           f == Besiege(j, loc, side)
           W == WithKo(m, f, loc, side)
           V == QueueMaxTwoLiberties(W, loc)
<1>0. b \in BoardType /\ loc \in Points /\ b[loc] = "empty" /\ side \in Colors /\ loc # NoMove
  BY PointsAssumption DEF Vacant
<1>1. K = Renewed(V, loc)
  BY <1>0 DEF McPlayMove
<1>2. SameBut({"ko", "hash", "queue"}, m, m1) /\ Holding(m1, b) /\ Strung(m1) /\ m1.ko = NoMove
  <2>1. m1 = KoCleared([m EXCEPT !.queue = {}])
    OBVIOUS
  <2> HIDE DEF m1
  <2> QED BY <2>1, McCleared
<1>3. FightIsOver(m1, b, loc, side, f)
  <2>1. j = JoinOwn(PutStone(m1, loc, side), loc, side) /\ f = Besiege(j, loc, side)
    OBVIOUS
  <2> HIDE DEF m1, j, f
  <2> QED BY <1>2, <2>1, FightIs
<1>4. /\ SameBut(FightParts, m1, f) /\ f.board = N /\ Wired(f, BoardEdges(N)) /\ Strung(f)
      /\ Empty(b, Neighbors[loc]) \cup (Due(b, CapturedBy(b, loc, side)) \ {loc}) \subseteq f.queue
      /\ FoesWatched(b, loc, side, Neighbors[loc], f.queue) /\ FriendsWatched(b, loc, side, f.queue)
  <2> HIDE DEF f, N
  <2> QED BY <1>3 DEF FightIsOver, N
<1>5. f.ko = NoMove /\ f.context = m.context /\ f.values = m.values /\ Standing(f, N)
  <2>1. f.ko = NoMove /\ f.context = m.context /\ f.values = m.values
    <3> HIDE DEF f, m1
    <3> QED BY <1>2, <1>4 DEF SameBut, FightParts, McFields
  <2> HIDE DEF f, N
  <2> QED BY <1>4, <2>1 DEF Standing
<1>6. KoIsFound(b, loc, side, f, W)
  <2>1. f.ko = NoMove /\ m.board = b
    BY <1>5
  <2> HIDE DEF f
  <2> QED BY <1>3, <2>1, WithKoIs
<1>7. /\ SameBut({"ko", "hash"}, f, W) /\ W.ko = KoAfter(b, loc, side) /\ W.hash = HashRecalc(N, W.ko)
      /\ Standing(W, N) /\ Record(W)
      /\ W.queue = f.queue /\ W.context = m.context /\ W.values = m.values
  <2> HIDE DEF f, W, N
  <2>1. SameBut({"ko", "hash"}, f, W) /\ W.ko = KoAfter(b, loc, side) /\ W.hash = HashRecalc(N, W.ko)
    BY <1>6 DEF KoIsFound, N
  <2>2. SameBut({"ko", "hash", "queue", "context", "values"}, f, W)
    BY <2>1 DEF SameBut
  <2>3. Standing(W, N) /\ Record(W)
    BY <1>5, <2>2, StandingSame
  <2>4. W.queue = f.queue /\ W.context = m.context /\ W.values = m.values
    BY <1>5, <2>1 DEF SameBut, McFields
  <2> QED BY <2>1, <2>3, <2>4
<1>8. /\ SameBut({"queue"}, W, V) /\ W.queue \subseteq V.queue
      /\ Cardinality(LibertiesFrom(W, loc)) <= 2 => V.queue = W.queue \cup LibertiesFrom(W, loc)
  <2>1. V = QueueMaxTwoLiberties(W, loc)
    OBVIOUS
  <2> HIDE DEF V, W
  <2> QED BY <1>7, <2>1, QueueMaxTwoIs
<1>9. /\ Standing(V, N) /\ V.ko = W.ko /\ V.hash = W.hash /\ V.context = m.context /\ V.values = m.values
      /\ Record(V)
  <2> HIDE DEF V, W, N
  <2>1. SameBut({"ko", "hash", "queue", "context", "values"}, W, V)
    BY <1>8 DEF SameBut
  <2>2. Standing(V, N)
    BY <1>7, <2>1, StandingSame
  <2> QED BY <1>7, <1>8, <2>2 DEF SameBut, McFields
<1>10. N \in BoardType /\ N[loc] = side /\ side # "empty"
  <2>1. N = BoardAfter(b, loc, side) /\ \E taken : taken = CapturedBy(b, loc, side)
    OBVIOUS
  <2> HIDE DEF N
  <2>2. N \in BoardType /\ N[loc] = side
    BY <2>1, TakenAreMissing
  <2> QED BY <1>0, <2>2, OthersColor
<1>11. Watched(b, loc, side, V.queue)
  <2>1. \A p : Liberties(N, loc) = {p} => p \in V.queue
    <3> SUFFICES ASSUME NEW p, Liberties(N, loc) = {p} PROVE p \in V.queue
      OBVIOUS
    <3>1. loc \in Live(W)
      BY <1>0, <1>7, <1>10 DEF Live, Standing
    <3> HIDE DEF W, V, N
    <3>2. LibertiesFrom(W, loc) = {p}
      BY <1>7, <3>1, StandingLiberties
    <3>3. Cardinality({p}) = 1
      BY FS_Singleton
    <3> QED BY <1>8, <3>2, <3>3
  <2>2. f.queue \subseteq V.queue
    BY <1>7, <1>8
  <2>3. Empty(b, Neighbors[loc]) \cup (Due(b, CapturedBy(b, loc, side)) \ {loc}) \subseteq V.queue
    BY <1>4, <2>2
  <2>4. FoesWatched(b, loc, side, Neighbors[loc], V.queue) /\ FriendsWatched(b, loc, side, V.queue)
    <3> HIDE DEF f, V
    <3> QED BY <1>4, <2>2 DEF FoesWatched, FriendsWatched
  <2> HIDE DEF V
  <2> QED BY <2>1, <2>3, <2>4 DEF Watched
<1> DEFINE contexts == [p \in Points |-> IF p \in V.queue \ {loc} THEN LocalContext(V, p) ELSE V.context[p]]
           U == [V EXCEPT !.context = contexts]
           more == {loc} \cup {q \in Vicinity(loc) : V.board[q] = "empty"}
<1>12. K = Enqueued(U, more)
  BY <1>1 DEF Renewed
<1>13. /\ SameBut({"context", "queue"}, V, K) /\ K.context = contexts /\ K.queue = V.queue \cup more
  <2>1. SameBut({"context"}, V, U) /\ U.context = contexts
    <3> HIDE DEF V, contexts
    <3> QED BY <1>9 DEF SameBut, Record, McFields
  <2>2. SameBut({"queue"}, U, K) /\ K.queue = U.queue \cup more
    <3>1. Record(U)
      BY <2>1 DEF SameBut
    <3> HIDE DEF U, more
    <3> QED BY <1>12, <3>1, EnqueuedIs
  <2> HIDE DEF U, V, contexts, more
  <2> QED BY <2>1, <2>2 DEF SameBut, McFields
<1>14. Standing(K, N)
  <2> HIDE DEF V, N
  <2>1. SameBut({"ko", "hash", "queue", "context", "values"}, V, K)
    BY <1>13 DEF SameBut
  <2> QED BY <1>9, <2>1, StandingSame
<1>15. K.ko = KoAfter(b, loc, side) /\ K.hash = HashRecalc(N, K.ko) /\ K.values = m.values
  <2> HIDE DEF V, W, N
  <2> QED BY <1>7, <1>9, <1>13 DEF SameBut, McFields
<1>16. ContextsKnown(K)
  <2> SUFFICES ASSUME NEW p \in Points, N[p] = "empty" PROVE K.context[p].suicide = Suicides(N, p)
    BY <1>14 DEF ContextsKnown, Standing
  <2>1. p # loc
    BY <1>10
  <2>2. CASE p \in V.queue
    <3>1. K.context[p] = LocalContext(V, p)
      BY <1>13, <2>1, <2>2
    <3>2. LocalContext(V, p).suicide = Suicides(N, p)
      <4> HIDE DEF V, N
      <4> QED BY <1>9, <1>10, LocalSuicide
    <3> QED BY <3>1, <3>2
  <2>3. CASE p \notin V.queue
    <3>1. K.context[p] = m.context[p]
      BY <1>9, <1>13, <2>3
    <3>2. b[p] = "empty" /\ Suicides(N, p) = Suicides(b, p)
      <4>1. N = BoardAfter(b, loc, side)
        OBVIOUS
      <4> DEFINE Q == V.queue
      <4>2. Watched(b, loc, side, Q) /\ p \notin Q
        BY <1>11, <2>3
      <4> HIDE DEF N, Q
      <4> QED BY <4>1, <4>2, SuicidesStay
    <3>3. m.context[p].suicide = Suicides(b, p)
      BY <3>2 DEF McSound, ContextsKnown
    <3> QED BY <3>1, <3>2, <3>3
  <2> QED BY <2>2, <2>3
<1>17. ASSUME NEW p \in Points, p \notin K.queue
       PROVE  K.context[p] = m.context[p] /\ (b[p] = "empty" <=> N[p] = "empty")
  <2>1. p \notin V.queue /\ p # loc
    BY <1>13, <1>17
  <2>2. K.context[p] = m.context[p]
    BY <1>9, <1>13, <2>1
  <2>4. ASSUME N[p] = "empty" PROVE b[p] = "empty"
    <3>1. N = BoardAfter(b, loc, side)
      OBVIOUS
    <3> DEFINE Q == V.queue
    <3>2. Watched(b, loc, side, Q) /\ p \notin Q
      BY <1>11, <2>1
    <3> HIDE DEF N, Q
    <3> QED BY <2>4, <3>1, <3>2, SuicidesStay
  <2>3. ASSUME b[p] = "empty" PROVE N[p] = "empty"
    <3>1. N[p] = IF p \in CapturedBy(b, loc, side) THEN "empty" ELSE IF p = loc THEN side ELSE b[p]
      <4>1. N = BoardAfter(b, loc, side) /\ \E taken : taken = CapturedBy(b, loc, side)
        OBVIOUS
      <4> HIDE DEF N
      <4> QED BY <4>1, TakenAreMissing
    <3> QED BY <2>1, <2>3, <3>1
  <2> QED BY <2>2, <2>3, <2>4
<1> HIDE DEF N
<1> QED BY <1>14, <1>15, <1>16, <1>17 DEF McPlayed, N

(* mc_update_move_values after it.                                         *)
Moving(m, b, loc, side, K, V) ==
    /\ McSound(m) /\ b = m.board /\ Vacant(b, loc, side) /\ ~IsSuicide(b, loc, side)
    /\ McPlayed(m, b, loc, side, K) /\ V = UpdateMoveValues(K)

LEMMA ValuesUpdated ==
  ASSUME NEW m, NEW b, NEW loc, NEW side, NEW K, NEW V, Moving(m, b, loc, side, K, V)
  PROVE  /\ McSound(V) /\ V.board = BoardAfter(b, loc, side) /\ V.ko = KoAfter(b, loc, side)
<1> SUFFICES ASSUME McSound(m), b = m.board, Vacant(b, loc, side), ~IsSuicide(b, loc, side),
                    McPlayed(m, b, loc, side, K), V = UpdateMoveValues(K)
             PROVE  /\ McSound(V) /\ V.board = BoardAfter(b, loc, side) /\ V.ko = KoAfter(b, loc, side)
  BY DEF Moving
<1> DEFINE N == BoardAfter(b, loc, side)
<1>1. /\ Standing(K, N) /\ K.ko = KoAfter(b, loc, side) /\ K.hash = HashRecalc(N, K.ko)
      /\ K.values = m.values /\ ContextsKnown(K) /\ K.board = N /\ Record(K)
      /\ \A p \in Points : p \notin K.queue => K.context[p] = m.context[p] /\ (b[p] = "empty" <=> N[p] = "empty")
  BY DEF McPlayed, Standing, Wired, McShape
<1> DEFINE values == [c \in Colors |-> [p \in Points |->
                          IF p \in K.queue THEN ValueOf(K, p, c) ELSE K.values[c][p]]]
<1>2. SameBut({"values"}, K, V) /\ V.values = values
  <2>1. V = [K EXCEPT !.values = values]
    BY DEF UpdateMoveValues
  <2> HIDE DEF values
  <2> QED BY <1>1, <2>1 DEF SameBut, Record, McFields
<1>3. Standing(V, N) /\ V.board = N /\ V.ko = K.ko /\ V.hash = K.hash /\ V.context = K.context
  <2>1. SameBut({"ko", "hash", "queue", "context", "values"}, K, V)
    BY <1>2 DEF SameBut
  <2> HIDE DEF N, values
  <2>2. Standing(V, N)
    BY <1>1, <2>1, StandingSame
  <2> QED BY <1>1, <1>2, <2>2 DEF SameBut, McFields
<1>4. NoDeadStrings(N)
  <2>1. b \in BoardType /\ NoDeadStrings(b) /\ loc \in Points /\ b[loc] = "empty" /\ side \in Colors
    BY DEF McSound, Vacant
  <2> QED BY <2>1, PlayShape
<1>5. ContextsKnown(V)
  <2> HIDE DEF N
  <2> QED BY <1>1, <1>3 DEF ContextsKnown
<1>6. ValuesKnown(V)
  <2> SUFFICES ASSUME NEW c \in Colors, NEW p \in Points
               PROVE  values[c][p] # NoValue <=> N[p] = "empty" /\ c \notin K.context[p].suicide
    BY <1>2, <1>3 DEF ValuesKnown
  <2>1. CASE p \in K.queue
    <3>1. values[c][p] = ValueOf(K, p, c)
      BY <2>1
    <3> HIDE DEF values, N
    <3> QED BY <1>1, <3>1 DEF ValueOf, IsSuicideHere, Pattern, NoValue
  <2>2. CASE p \notin K.queue
    <3>1. values[c][p] = m.values[c][p]
      BY <1>1, <2>2
    <3>2. m.values[c][p] # NoValue <=> b[p] = "empty" /\ c \notin m.context[p].suicide
      BY DEF McSound, ValuesKnown
    <3> HIDE DEF N, values
    <3> QED BY <1>1, <2>2, <3>1, <3>2
  <2> QED BY <2>1, <2>2
<1>7. V.ko \in Points \cup {NoMove}
  BY <1>1, <1>3, KoType
<1>8. McSound(V)
  <2>1. V.hash = HashRecalc(V.board, V.ko)
    BY <1>1, <1>3
  <2> HIDE DEF N, values
  <2> QED BY <1>3, <1>4, <1>5, <1>6, <1>7, <2>1 DEF McSound
<1> QED BY <1>1, <1>3, <1>8

LEMMA PassUpdated ==
  ASSUME NEW m, McSound(m), NEW side, NEW V, V = UpdateMoveValues(McPlayMove(m, NoMove, side))
  PROVE  McSound(V) /\ V.board = m.board /\ V.ko = NoMove
<1> DEFINE K == KoCleared([m EXCEPT !.queue = {}])
           b == m.board
           values == [c \in Colors |-> [p \in Points |->
                          IF p \in K.queue THEN ValueOf(K, p, c) ELSE K.values[c][p]]]
<1>1. McPlayMove(m, NoMove, side) = K
  BY DEF McPlayMove
<1>2. K.queue = {}
  BY DEF KoCleared, McSound, Standing, Wired, McShape, Record, McFields
<1>3. /\ SameBut({"ko", "hash", "queue"}, m, K) /\ K.ko = NoMove /\ K.hash = HashRecalc(b, NoMove)
  <2>1. K = KoCleared([m EXCEPT !.queue = {}])
    OBVIOUS
  <2> HIDE DEF K
  <2> QED BY <2>1, McCleared
<1>4. V = [K EXCEPT !.values = values]
  BY <1>1 DEF UpdateMoveValues
<1> HIDE DEF K
<1>5. SameBut({"ko", "hash", "queue", "values"}, m, V) /\ V.ko = NoMove /\ V.hash = HashRecalc(b, NoMove)
      /\ V.values = values
  <2> HIDE DEF values
  <2> QED BY <1>3, <1>4 DEF SameBut, Record, McFields
<1>6. V.board = b /\ V.context = m.context /\ Standing(V, b)
  <2>1. SameBut({"ko", "hash", "queue", "context", "values"}, m, V)
    BY <1>5 DEF SameBut
  <2>2. Standing(m, b)
    BY DEF McSound
  <2> HIDE DEF b, values
  <2>3. Standing(V, b)
    BY <2>1, <2>2, StandingSame
  <2> QED BY <1>5, <2>3 DEF SameBut, McFields, b
<1>7. ValuesKnown(V)
  <2> SUFFICES ASSUME NEW c \in Colors, NEW p \in Points
               PROVE  V.values[c][p] # NoValue <=> b[p] = "empty" /\ c \notin m.context[p].suicide
    BY <1>6 DEF ValuesKnown
  <2>1. K.values = m.values
    BY <1>3 DEF SameBut, McFields
  <2>2. V.values[c][p] = m.values[c][p]
    BY <1>2, <1>5, <2>1
  <2> QED BY <2>2 DEF McSound, ValuesKnown
<1>8. ContextsKnown(V)
  BY <1>6 DEF McSound, ContextsKnown
<1> QED BY <1>5, <1>6, <1>7, <1>8 DEF McSound

(* A move that is played: where it may be, and what it does.               *)
LEMMA McMoveIs ==
  ASSUME NEW m, McSound(m), NEW side \in Colors, NEW loc,
         loc = NoMove \/ (loc \in Points /\ m.values[side][loc] # NoValue /\ ~IllegalKoCapture(m, loc, side)),
         NEW V, V = UpdateMoveValues(McPlayMove(m, loc, side))
  PROVE  /\ McSound(V)
         /\ loc # NoMove => Vacant(m.board, loc, side) /\ ~IsSuicide(m.board, loc, side)
         /\ loc = NoMove \/ IsLegal(m, loc, side)
         /\ V.board = NextBoard(m.board, loc, side) /\ V.ko = NextKo(m.board, loc, side)
<1> DEFINE b == m.board
<1>1. CASE loc = NoMove
  BY <1>1, PassUpdated DEF NextBoard, NextKo
<1>2. CASE loc # NoMove
  <2>1. b[loc] = "empty" /\ side \notin m.context[loc].suicide /\ loc \in Points
    BY <1>2 DEF McSound, ValuesKnown
  <2>2. ~IsSuicide(b, loc, side)
    BY <2>1 DEF McSound, ContextsKnown, Suicides
  <2>3. b \in BoardType
    BY DEF McSound, Standing, Wired, McShape
  <2>4. Vacant(b, loc, side)
    BY <2>1, <2>3 DEF Vacant
  <2>5. IsLegal(m, loc, side)
    BY <1>2, <2>1 DEF IsLegal, IsSuicideHere
  <2> DEFINE K == McPlayMove(m, loc, side)
  <2>6. b = m.board /\ K = McPlayMove(m, loc, side) /\ V = UpdateMoveValues(K)
    OBVIOUS
  <2> HIDE DEF b, K
  <2>7. McPlayed(m, b, loc, side, K)
    BY <2>4, <2>5, <2>6, McPlayIs
  <2>8. McSound(V) /\ V.board = BoardAfter(b, loc, side) /\ V.ko = KoAfter(b, loc, side)
    <3>1. Moving(m, b, loc, side, K, V)
      BY <2>2, <2>4, <2>6, <2>7 DEF Moving
    <3> QED BY ONLY <3>1, ValuesUpdated
  <2>9. NextBoard(b, loc, side) = BoardAfter(b, loc, side) /\ NextKo(b, loc, side) = KoAfter(b, loc, side)
    BY <1>2, <2>2 DEF NextBoard, NextKo, Suicidal
  <2> QED BY <2>2, <2>4, <2>5, <2>6, <2>8, <2>9
<1> QED BY <1>1, <1>2

-----------------------------------------------------------------------------
(* mc_check_consistency_with_global_board: what it would check.            *)
LEMMA OneRingIs ==
  ASSUME NEW D, IsFiniteSet(D), NEW next, DOMAIN next = D, NEW o, NEW S \in SUBSET D, Ring(next, o, S)
  PROVE  OneRing(Along(next, o), S)
<1> DEFINE c == Along(next, o)
<1>1. ToSet(c) = S
  BY AlongIs
<1>2. PICK k \in 1 .. Cardinality(D) : k \in Nat /\ Round(c, next, o, S, k)
  BY AlongIs
<1> HIDE DEF c
<1>3. /\ DOMAIN c = 1 .. k /\ {c[i] : i \in 1 .. k} = S /\ c = [i \in 1 .. k |-> c[i]]
      /\ \A i, j \in 1 .. k : c[i] = c[j] => i = j
  BY <1>2 DEF Round
<1>4. Len(c) = k
  <2>1. c \in [1 .. k -> S]
    BY <1>3
  <2>2. c \in Seq(S)
    BY <1>2, <2>1, SeqDef
  <2> QED BY <1>2, <1>3, <2>2, LenProperties
<1>5. ExistsBijection(1 .. k, S)
  <2>1. c \in [1 .. k -> S]
    BY <1>3
  <2>2. c \in Bijection(1 .. k, S)
    BY <1>3, <2>1 DEF Bijection, Injection, Surjection, IsInjective
  <2> QED BY <2>2 DEF ExistsBijection
<1>6. Cardinality(S) = k
  BY <1>2, <1>5, FS_CountingElements
<1> QED BY <1>1, <1>4, <1>6 DEF OneRing, c

Consistent(m, strings) ==
    \A p \in {p \in Points : m.board[p] # "empty"} :
        \A f \in {m.first[m.ref[p]]},
           edges \in {{e \in Edges : e[2] \in strings[p] /\ m.board[e[1]] = "empty"}} :
              /\ OneRing(Along(m.next, p), strings[p])
              /\ \A q \in strings[p] : m.ref[q] = m.ref[p]
              /\ f # NoEdge /\ OneRing(Along(m.nextE, f), edges)
              /\ \A e \in edges : m.prevE[m.nextE[e]] = e

LEMMA SoundIsConsistent ==
  ASSUME NEW m, McSound(m)
  PROVE  Consistent(m, StringsOf(m.board))
<1> DEFINE b == m.board
<1>0. McShape(m) /\ StonesWired(m) /\ EdgesWired(m, BoardEdges(b)) /\ Strung(m) /\ NoDeadStrings(b)
  BY DEF McSound, Standing, Wired
<1> SUFFICES ASSUME NEW p \in Points, b[p] # "empty", NEW S, S = StringsOf(b)[p], NEW f, f = m.first[m.ref[p]],
                    NEW E, E = {e \in Edges : e[2] \in S /\ b[e[1]] = "empty"}
             PROVE  /\ OneRing(Along(m.next, p), S) /\ \A q \in S : m.ref[q] = m.ref[p]
                    /\ f # NoEdge /\ OneRing(Along(m.nextE, f), E) /\ \A e \in E : m.prevE[m.nextE[e]] = e
  BY DEF Consistent
<1>1. S = StringAt(b, p) /\ p \in Live(m)
  BY DEF StringsOf, Live
<1>2. Together(m, p) = S /\ S \subseteq Points /\ Ring(m.next, p, S)
  BY <1>0, <1>1 DEF Strung, Together, Live, StonesWired
<1>3. \A q \in Points : q \in S <=> b[q] # "empty" /\ m.ref[q] = m.ref[p]
  BY <1>2 DEF Together, Live
<1>4. OneRing(Along(m.next, p), S)
  <2>1. DOMAIN m.next = Points /\ IsFiniteSet(Points)
    BY <1>0, PointsAssumption DEF McShape
  <2> QED BY <1>2, <2>1, OneRingIs
<1>5. Hung(m, BoardEdges(b), m.ref[p]) = E
  <2>1. \A e \in Edges : e[2] \in Points
    BY EdgePoints
  <2>2. \A e \in Edges : (e \in BoardEdges(b) /\ m.ref[e[2]] = m.ref[p]) <=> (e[2] \in S /\ b[e[1]] = "empty")
    BY <1>3, <2>1 DEF BoardEdges
  <2>3. BoardEdges(b) \subseteq Edges
    BY DEF BoardEdges
  <2> QED BY <2>2, <2>3 DEF Hung
<1>6. E # {}
  <2>1. b[p] \in Colors
    BY <1>0 DEF McShape, BoardType
  <2>2. PICK l : l \in Liberties(b, p)
    BY <1>0, <2>1 DEF NoDeadStrings
  <2>3. l \in Points /\ b[l] = "empty" /\ \E q \in StringAt(b, p) : q \in Neighbors[l]
    BY <2>2, LibertyIs
  <2>4. PICK q \in S : q \in Neighbors[l]
    BY <1>1, <2>3
  <2>5. <<l, q>> \in Edges
    BY <2>3, <2>4, BoardEdgeIs
  <2> QED BY <2>3, <2>4, <2>5
<1>7. Looped(m.nextE, m.prevE, f, E)
  BY <1>0, <1>1, <1>5 DEF EdgesWired
<1>8. Ring(m.nextE, f, E) /\ \A e \in E : m.prevE[m.nextE[e]] = e
  BY <1>6, <1>7 DEF Looped
<1>9. OneRing(Along(m.nextE, f), E)
  <2>1. DOMAIN m.nextE = Edges /\ IsFiniteSet(Edges) /\ E \subseteq Edges
    BY <1>0, EdgesFinite DEF McShape
  <2> QED BY <1>8, <2>1, OneRingIs
<1>10. f # NoEdge
  BY <1>8, EdgesFinite DEF Ring
<1> HIDE DEF b
<1> QED BY <1>3, <1>2, <1>4, <1>8, <1>9, <1>10

-----------------------------------------------------------------------------
(* The invariant of a playout.                                             *)
McIInv ==
    /\ McSound(mc) /\ color_to_move \in Colors
    /\ consecutive_passes \in 0 .. 3 /\ depth \in Nat /\ depth <= GiveUp + 1 + consecutive_passes

(* A step: a move of Generated, which is legal.                            *)
LEMMA PlayoutStep ==
  ASSUME McIInv, McNext
  PROVE  /\ McIInv'
         /\ last_move' \in Points \cup {NoMove}
         /\ last_move' # NoMove => /\ Vacant(mc.board, last_move', color_to_move)
                                   /\ ~IsSuicide(mc.board, last_move', color_to_move)
                                   /\ ~IllegalKoCapture(mc, last_move', color_to_move)
         /\ mc'.board = NextBoard(mc.board, last_move', color_to_move)
         /\ mc'.ko = NextKo(mc.board, last_move', color_to_move)
<1>1. consecutive_passes < 3 /\ \E loc \in Generated : PlayRandomMove(loc)
  BY DEF McNext, PlayoutMove
<1>2. PICK loc \in Generated : PlayRandomMove(loc)
  BY <1>1
<1>3. /\ depth > GiveUp => loc = NoMove
      /\ loc = NoMove \/ (loc \in Points /\ mc.values[color_to_move][loc] # NoValue
                          /\ ~IllegalKoCapture(mc, loc, color_to_move))
  BY <1>2 DEF Generated
<1>4. mc' = UpdateMoveValues(McPlayMove(mc, loc, color_to_move))
  BY <1>2 DEF PlayRandomMove
<1>5. /\ McSound(mc')
      /\ loc # NoMove => Vacant(mc.board, loc, color_to_move) /\ ~IsSuicide(mc.board, loc, color_to_move)
      /\ loc = NoMove \/ IsLegal(mc, loc, color_to_move)
      /\ mc'.board = NextBoard(mc.board, loc, color_to_move) /\ mc'.ko = NextKo(mc.board, loc, color_to_move)
  <2>1. PICK m, c, V : m = mc /\ c = color_to_move /\ V = mc'
    OBVIOUS
  <2>2. /\ McSound(m) /\ c \in Colors /\ V = UpdateMoveValues(McPlayMove(m, loc, c))
        /\ loc = NoMove \/ (loc \in Points /\ m.values[c][loc] # NoValue /\ ~IllegalKoCapture(m, loc, c))
    BY <1>3, <1>4, <2>1 DEF McIInv
  <2>3. /\ McSound(V)
        /\ loc # NoMove => Vacant(m.board, loc, c) /\ ~IsSuicide(m.board, loc, c)
        /\ loc = NoMove \/ IsLegal(m, loc, c)
        /\ V.board = NextBoard(m.board, loc, c) /\ V.ko = NextKo(m.board, loc, c)
    BY <2>2, McMoveIs
  <2> QED BY <2>1, <2>3
<1>6. /\ last_move' = loc /\ color_to_move' = Other(color_to_move) /\ depth' = depth + 1
      /\ consecutive_passes' = IF loc = NoMove THEN consecutive_passes + 1 ELSE 0
  BY <1>2, <1>5 DEF PlayRandomMove
<1>7. McIInv'
  <2>1. GiveUp \in Nat
    BY McAssumption
  <2>2. color_to_move' \in Colors
    BY <1>6, OthersColor DEF McIInv
  <2>3. consecutive_passes' \in 0 .. 3 /\ depth' \in Nat /\ depth' <= GiveUp + 1 + consecutive_passes'
    BY <1>1, <1>3, <1>6, <2>1 DEF McIInv
  <2> QED BY <1>5, <2>2, <2>3 DEF McIInv
<1> QED BY <1>3, <1>5, <1>6, <1>7

LEMMA PlayoutStepOrNot ==
  ASSUME McIInv, [McNext]_mcVars
  PROVE  McIInv'
<1>1. CASE McNext
  BY <1>1, PlayoutStep
<1>2. CASE UNCHANGED mcVars
  BY <1>2 DEF mcVars, McIInv
<1> QED BY <1>1, <1>2

(* What it does is what the global board does.                             *)
LEMMA PlayoutPlays ==
  ASSUME McIInv, McNext
  PROVE  LET loc == last_move'
             R == GlobalBoard(mc)
             Q == PlayMoveNoHistory(R, loc, color_to_move)
         IN /\ loc # NoMove => /\ R.board[loc] = "empty" /\ ~SuicideByTheRules(R.board, loc, color_to_move)
                               /\ ~IllegalKoCapture(R, loc, color_to_move)
            /\ mc'.board = Q.board /\ mc'.ko = Q.ko /\ mc'.hash = Q.hash
<1> DEFINE b == mc.board
           cap == [c \in Colors |-> 0]
<1>1. /\ McIInv'
      /\ last_move' \in Points \cup {NoMove}
      /\ last_move' # NoMove => /\ Vacant(b, last_move', color_to_move) /\ ~IsSuicide(b, last_move', color_to_move)
                                /\ ~IllegalKoCapture(mc, last_move', color_to_move)
      /\ mc'.board = NextBoard(b, last_move', color_to_move) /\ mc'.ko = NextKo(b, last_move', color_to_move)
  BY PlayoutStep
<1>2. PICK loc, c, k, h : loc = last_move' /\ c = color_to_move /\ k = mc.ko /\ h = mc.hash
  OBVIOUS
<1>3. GlobalBoard(mc) = PositionOf(b, k, cap, h) /\ GlobalBoard(mc).board = b /\ GlobalBoard(mc).ko = k
  BY <1>2 DEF GlobalBoard, PositionOf
<1>4. b \in BoardType /\ NoDeadStrings(b) /\ h = HashRecalc(b, k) /\ c \in Colors
  BY <1>2 DEF McIInv, McSound, Standing, Wired, McShape
<1>5. PlayMoveNoHistory(PositionOf(b, k, cap, h), loc, c)
      = PositionOf(NextBoard(b, loc, c), NextKo(b, loc, c), NextCaptured(b, cap, loc, c), NextHash(b, k, h, loc, c))
  BY MoveIs
<1>6. loc # NoMove => loc \in Points /\ b[loc] = "empty"
  BY <1>1, <1>2 DEF Vacant
<1>7. NextHash(b, k, h, loc, c) = HashRecalc(NextBoard(b, loc, c), NextKo(b, loc, c))
  <2>1. loc \in Points \cup {NoMove}
    BY <1>1, <1>2
  <2> HIDE DEF b
  <2> QED BY <1>4, <1>6, <2>1, HashFollows
<1>8. mc'.hash = HashRecalc(mc'.board, mc'.ko)
  BY <1>1 DEF McIInv, McSound
<1>9. loc # NoMove => ~SuicideByTheRules(b, loc, c) /\ ~IllegalKoCapture(GlobalBoard(mc), loc, c)
  <2> SUFFICES ASSUME loc # NoMove PROVE ~SuicideByTheRules(b, loc, c) /\ ~IllegalKoCapture(GlobalBoard(mc), loc, c)
    OBVIOUS
  <2>1. ~IllegalKoCapture(GlobalBoard(mc), loc, c)
    BY <1>1, <1>2, <1>3 DEF IllegalKoCapture
  <2>2. ~IsSuicide(b, loc, c)
    BY <1>1, <1>2
  <2> HIDE DEF b
  <2> QED BY <1>4, <1>6, <2>1, <2>2, SuicideTest
<1> HIDE DEF b, cap
<1>10. /\ mc'.board = PlayMoveNoHistory(GlobalBoard(mc), loc, c).board
       /\ mc'.ko = PlayMoveNoHistory(GlobalBoard(mc), loc, c).ko
       /\ mc'.hash = PlayMoveNoHistory(GlobalBoard(mc), loc, c).hash
  <2>1. mc'.board = NextBoard(b, loc, c) /\ mc'.ko = NextKo(b, loc, c)
    BY <1>1, <1>2 DEF b
  <2> QED BY <1>3, <1>5, <1>7, <1>8, <2>1, Parts
<1> QED BY <1>2, <1>3, <1>6, <1>9, <1>10

-----------------------------------------------------------------------------
(* mc_init_board_from_global_board: the stones of a string are linked in   *)
(* the order of the board, which makes a ring.                             *)
LEMMA RankIs ==
  ASSUME NEW p \in Points
  PROVE  Rank(p) \in 1 .. Len(BoardOrder) /\ BoardOrder[Rank(p)] = p
<1>1. BoardOrder \in Seq(Points) /\ ToSet(BoardOrder) = Points
  BY McAssumption
<1>2. PICK i \in DOMAIN BoardOrder : BoardOrder[i] = p
  BY <1>1 DEF ToSet
<1>3. DOMAIN BoardOrder = 1 .. Len(BoardOrder)
  BY <1>1
<1>4. Rank(p) \in DOMAIN BoardOrder /\ BoardOrder[Rank(p)] = p
  BY <1>2 DEF Rank
<1> QED BY <1>3, <1>4

LEMMA Extremes ==
  ASSUME NEW S \in SUBSET Points, S # {}
  PROVE  /\ FirstOf(S) \in S /\ \A q \in S : Rank(FirstOf(S)) <= Rank(q)
         /\ \E y \in S : \A q \in S : Rank(q) <= Rank(y)
<1> DEFINE n == Len(BoardOrder)
           R == {Rank(q) : q \in S}
           T == {n - Rank(q) : q \in S}
<1>1. n \in Nat
  BY McAssumption, LenProperties
<1>2. \A q \in S : Rank(q) \in 1 .. n
  BY RankIs
<1> HIDE DEF n
<1>3. R \in SUBSET Nat /\ R # {} /\ T \in SUBSET Nat /\ T # {}
  BY <1>1, <1>2
<1>4. PICK r \in R : \A k \in R : r <= k
  <2> HIDE DEF R
  <2> QED BY <1>3, Steps!Least
<1>5. PICK t \in T : \A k \in T : t <= k
  <2> HIDE DEF T
  <2> QED BY <1>3, Steps!Least
<1>6. \E x \in S : \A q \in S : Rank(x) <= Rank(q)
  BY <1>4
<1>7. FirstOf(S) \in S /\ \A q \in S : Rank(FirstOf(S)) <= Rank(q)
  BY <1>6 DEF FirstOf
<1>8. PICK y \in S : t = n - Rank(y)
  OBVIOUS
<1>9. \A q \in S : n - Rank(y) <= n - Rank(q)
  BY <1>5, <1>8
<1>10. \A q \in S : Rank(q) <= Rank(y)
  BY <1>1, <1>2, <1>9
<1> QED BY <1>7, <1>10

AfterIn(S, p) ==
    LET later == {q \in S : Rank(q) > Rank(p)} IN FirstOf(IF later = {} THEN S ELSE later)

LEMMA InOrder ==
  ASSUME NEW S \in SUBSET Points, NEW o \in S, NEW next, \A p \in S : next[p] = AfterIn(S, p)
  PROVE  Ring(next, o, S)
<1> DEFINE Later(p) == {q \in S : Rank(q) > Rank(p)}
<1>0. \A p \in S : Rank(p) \in Nat
  BY RankIs
<1>1. ASSUME NEW p \in S, Later(p) = {} PROVE next[p] = FirstOf(S) /\ next[p] \in S
  <2>1. next[p] = FirstOf(S)
    BY <1>1 DEF AfterIn
  <2> QED BY <2>1, Extremes
<1>2. ASSUME NEW p \in S, Later(p) # {}
      PROVE  next[p] \in S /\ Rank(next[p]) > Rank(p) /\ \A q \in S : Rank(q) > Rank(p) => Rank(next[p]) <= Rank(q)
  <2>1. next[p] = FirstOf(Later(p))
    BY <1>2 DEF AfterIn
  <2>2. Later(p) \in SUBSET Points /\ Later(p) # {}
    BY <1>2
  <2>3. FirstOf(Later(p)) \in Later(p) /\ \A q \in Later(p) : Rank(FirstOf(Later(p))) <= Rank(q)
    <3>1. PICK L : L = Later(p)
      OBVIOUS
    <3>2. FirstOf(L) \in L /\ \A q \in L : Rank(FirstOf(L)) <= Rank(q)
      BY <2>2, <3>1, Extremes
    <3> QED BY <3>1, <3>2
  <2> QED BY <2>1, <2>3
<1>3. Onward(next, S)
  BY <1>1, <1>2 DEF Onward
<1>4. ASSUME NEW Y \in SUBSET S, Y # {}, Onward(next, Y) PROVE Y = S
  <2>1. PICK y \in Y : \A q \in Y : Rank(q) <= Rank(y)
    BY <1>4, Extremes
  <2>2. next[y] \in Y
    BY <1>4 DEF Onward
  <2>3. Later(y) = {}
    <3> SUFFICES ASSUME Later(y) # {} PROVE FALSE
      OBVIOUS
    <3>1. Rank(next[y]) > Rank(y) /\ Rank(next[y]) <= Rank(y) /\ next[y] \in S
      BY <1>2, <2>1, <2>2
    <3> QED BY <1>0, <3>1
  <2>4. FirstOf(S) \in Y
    BY <1>1, <2>2, <2>3
  <2> SUFFICES ASSUME S \ Y # {} PROVE FALSE
    OBVIOUS
  <2>5. PICK s \in S \ Y : \A q \in S \ Y : Rank(s) <= Rank(q)
    <3>1. S \ Y \in SUBSET Points
      OBVIOUS
    <3>2. PICK L : L = S \ Y
      OBVIOUS
    <3>3. \E x \in L : \A q \in L : Rank(x) <= Rank(q)
      BY <3>1, <3>2, Extremes
    <3> QED BY <3>2, <3>3
  <2> DEFINE Before == {q \in Y : Rank(q) < Rank(s)}
  <2>6. FirstOf(S) \in Before
    <3>1. Rank(FirstOf(S)) <= Rank(s)
      BY Extremes
    <3>2. Rank(FirstOf(S)) # Rank(s)
      BY <2>4, RankIs
    <3> QED BY <1>0, <2>4, <3>1, <3>2
  <2>7. PICK z \in Before : \A q \in Before : Rank(q) <= Rank(z)
    <3>1. PICK L : L = Before
      OBVIOUS
    <3>2. L \in SUBSET Points /\ L # {}
      BY <2>6, <3>1
    <3>3. \E x \in L : \A q \in L : Rank(q) <= Rank(x)
      BY <3>2, Extremes
    <3> QED BY <3>1, <3>3
  <2>8. s \in Later(z)
    BY <1>0
  <2>9. next[z] \in S /\ Rank(next[z]) > Rank(z) /\ Rank(next[z]) <= Rank(s)
    BY <1>0, <1>2, <2>8
  <2>10. next[z] \in Y
    BY <1>4 DEF Onward
  <2>11. Rank(next[z]) # Rank(s)
    BY <2>10, RankIs
  <2>12. next[z] \in Before
    BY <1>0, <2>9, <2>10, <2>11
  <2>13. Rank(next[z]) <= Rank(z)
    BY <2>7, <2>12
  <2> QED BY <1>0, <2>9, <2>13
<1> QED BY <1>3, <1>4 DEF Ring

(* The board as it is before the edges.                                    *)
StartBoard(board, ko, strings) ==
    [board |-> board, ko |-> ko, hash |-> HashRecalc(board, ko), queue |-> {},
     ref |-> [p \in Points |-> IF board[p] = "empty" THEN NoMove ELSE FirstOf(strings[p])],
     next |-> [p \in Points |-> IF board[p] = "empty" THEN p ELSE AfterIn(strings[p], p)],
     first |-> [p \in Points |-> NoEdge],
     nextE |-> [e \in Edges |-> e], prevE |-> [e \in Edges |-> e],
     seen |-> [p \in Points |-> SeenByTheRules(board, p)],
     context |-> [p \in Points |-> IF board[p] = "empty" THEN ContextByTheRules(board, strings, p) ELSE NoContext],
     values |-> [c \in Colors |-> [p \in Points |-> NoValue]]]

LEMMA StartStones ==
  ASSUME NEW b \in BoardType, NEW p \in Points, b[p] # "empty"
  PROVE  /\ StringAt(b, p) \in SUBSET Points /\ p \in StringAt(b, p)
         /\ FirstOf(StringAt(b, p)) \in StringAt(b, p)
         /\ AfterIn(StringAt(b, p), p) \in StringAt(b, p)
         /\ \A q \in Points : b[q] # "empty" =>
               (FirstOf(StringAt(b, q)) = FirstOf(StringAt(b, p)) <=> q \in StringAt(b, p))
<1>1. \A q \in Points : /\ StringAt(b, q) \in SUBSET Points /\ q \in StringAt(b, q)
                        /\ FirstOf(StringAt(b, q)) \in StringAt(b, q)
  <2> TAKE q \in Points
  <2>1. StringAt(b, q) \in SUBSET Points /\ q \in StringAt(b, q)
    BY StringFacts DEF Stones
  <2> QED BY <2>1, Extremes
<1>2. AfterIn(StringAt(b, p), p) \in StringAt(b, p)
  <2>1. PICK S : S = StringAt(b, p)
    OBVIOUS
  <2>2. PICK L : L = {q \in S : Rank(q) > Rank(p)}
    OBVIOUS
  <2>3. AfterIn(S, p) = FirstOf(IF L = {} THEN S ELSE L)
    BY <2>2 DEF AfterIn
  <2>4. S \in SUBSET Points /\ L \in SUBSET Points /\ S # {} /\ L \subseteq S
    BY <1>1, <2>1, <2>2
  <2>5. L # {} => FirstOf(L) \in L
    BY <2>4, Extremes
  <2>6. FirstOf(S) \in S
    BY <2>4, Extremes
  <2> QED BY <2>1, <2>3, <2>4, <2>5, <2>6
<1>3. ASSUME NEW q \in Points, b[q] # "empty"
      PROVE  FirstOf(StringAt(b, q)) = FirstOf(StringAt(b, p)) <=> q \in StringAt(b, p)
  <2>1. ASSUME q \in StringAt(b, p) PROVE StringAt(b, q) = StringAt(b, p)
    BY <2>1, StringsPartition
  <2>2. ASSUME FirstOf(StringAt(b, q)) = FirstOf(StringAt(b, p)) PROVE q \in StringAt(b, p)
    <3>1. PICK x : x = FirstOf(StringAt(b, p))
      OBVIOUS
    <3>2. x \in StringAt(b, p) /\ x \in StringAt(b, q)
      BY <1>1, <2>2, <3>1
    <3>3. StringAt(b, x) = StringAt(b, p) /\ StringAt(b, x) = StringAt(b, q)
      BY <3>2, StringsPartition
    <3> QED BY <1>1, <3>3
  <2> QED BY <2>1, <2>2
<1> QED BY <1>1, <1>2, <1>3

LEMMA StartWires ==
  ASSUME NEW b \in BoardType, NEW ko, NEW K, K = StartBoard(b, ko, StringsOf(b))
  PROVE  Wired(K, {}) /\ Strung(K) /\ K.board = b
<1> DEFINE ref == [p \in Points |-> IF b[p] = "empty" THEN NoMove ELSE FirstOf(StringsOf(b)[p])]
           next == [p \in Points |-> IF b[p] = "empty" THEN p ELSE AfterIn(StringsOf(b)[p], p)]
<1>1. /\ Record(K) /\ K.board = b /\ K.ref = ref /\ K.next = next /\ K.first = [p \in Points |-> NoEdge]
      /\ K.nextE = [e \in Edges |-> e] /\ K.prevE = [e \in Edges |-> e]
      /\ K.seen = [p \in Points |-> SeenByTheRules(b, p)]
  BY DEF StartBoard, Record, McFields
<1>2. ASSUME NEW p \in Points, b[p] # "empty"
      PROVE  /\ ref[p] = FirstOf(StringAt(b, p)) /\ next[p] = AfterIn(StringAt(b, p), p)
  BY <1>2 DEF StringsOf
<1>3. \A p \in Points : b[p] = "empty" => ref[p] = NoMove /\ next[p] = p
  OBVIOUS
<1>4. ref = [p \in Points |-> ref[p]] /\ next = [p \in Points |-> next[p]]
  OBVIOUS
<1> HIDE DEF ref, next
<1>5. Live(K) = {p \in Points : b[p] # "empty"}
  BY <1>1 DEF Live
<1>6. ASSUME NEW p \in Live(K) PROVE Together(K, p) = StringAt(b, p)
  <2>1. p \in Points /\ b[p] # "empty"
    BY <1>5
  <2>2. \A q \in Live(K) : ref[q] = ref[p] <=> q \in StringAt(b, p)
    BY <1>2, <1>5, <2>1, StartStones
  <2>3. \A q \in StringAt(b, p) : q \in Points /\ b[q] = b[p]
    BY <2>1, StringsPartition
  <2>4. StringAt(b, p) \subseteq Live(K)
    BY <1>5, <2>1, <2>3
  <2> QED BY <1>1, <2>2, <2>4 DEF Together
<1>7. McShape(K)
  <2>1. K.ref \in [Points -> Points \cup {NoMove}] /\ K.next \in [Points -> Points]
    <3>1. \A p \in Points : ref[p] \in Points \cup {NoMove} /\ next[p] \in Points
      BY <1>2, <1>3, StartStones
    <3> QED BY <1>1, <1>4, <3>1
  <2>2. K.seen \in [Points -> SUBSET (Points \X Colors)]
    <3>1. \A p \in Points : SeenByTheRules(b, p) \in SUBSET (Points \X Colors)
      <4> SUFFICES ASSUME NEW p \in Points, NEW q \in Vicinity(p), b[q] # "empty" PROVE <<q, b[q]>> \in Points \X Colors
        BY DEF SeenByTheRules
      <4>1. q \in Points
        BY PointsAssumption, McAssumption DEF Vicinity
      <4> QED BY <4>1 DEF BoardType
    <3> QED BY <1>1, <3>1
  <2> QED BY <1>1, <2>1, <2>2 DEF McShape
<1>8. StonesWired(K)
  <2> SUFFICES ASSUME NEW p \in Live(K) PROVE K.ref[p] \in Together(K, p) /\ Ring(K.next, p, Together(K, p))
    BY DEF StonesWired
  <2>1. p \in Points /\ b[p] # "empty" /\ Together(K, p) = StringAt(b, p)
    BY <1>5, <1>6
  <2>2. K.ref[p] \in StringAt(b, p)
    BY <1>1, <1>2, <2>1, StartStones
  <2>3. \A q \in StringAt(b, p) : K.next[q] = AfterIn(StringAt(b, p), q)
    <3> TAKE q \in StringAt(b, p)
    <3>1. q \in Points /\ b[q] = b[p] /\ StringAt(b, q) = StringAt(b, p)
      BY <2>1, StringsPartition
    <3> QED BY <1>1, <1>2, <2>1, <3>1
  <2>4. Ring(K.next, p, StringAt(b, p))
    <3>1. PICK S, next2 : S = StringAt(b, p) /\ next2 = K.next
      OBVIOUS
    <3>2. S \in SUBSET Points /\ p \in S /\ \A q \in S : next2[q] = AfterIn(S, q)
      BY <2>1, <2>3, <3>1, StartStones
    <3>3. Ring(next2, p, S)
      BY <3>2, InOrder
    <3> QED BY <3>1, <3>3
  <2> QED BY <2>1, <2>2, <2>4
<1>9. EdgesWired(K, {})
  <2>1. \A p \in Live(K) : K.ref[p] \in Points
    BY <1>1, <1>2, <1>5, StartStones
  <2>2. \A r \in Points : K.first[r] = NoEdge /\ Hung(K, {}, r) = {}
    BY <1>1 DEF Hung
  <2> QED BY <2>1, <2>2 DEF EdgesWired, Looped
<1>10. Strung(K)
  BY <1>1, <1>6 DEF Strung
<1> QED BY <1>1, <1>7, <1>8, <1>9, <1>10 DEF Wired

(* Then every stone gets its edges, in the order of the board.             *)
HangTurn(p, b, c, n, q) == IF b[q] = "empty" THEN AddEdge(n, p, q) ELSE n
HangHolds(p, b, X, base, seq, k, v) ==
    /\ SameBut({"first", "nextE", "prevE"}, base, v)
    /\ Wired(v, X \cup EdgesFrom(Empty(b, Done(seq, k)), p))
Hangs == INSTANCE Recursion WITH Turn <- HangTurn, Holds <- HangHolds

LEMMA HangEdges ==
  ASSUME NEW p \in Points, NEW base, NEW X, Wired(base, X), p \in Live(base),
         NEW b, b = base.board, \A e \in X : e[2] # p, NEW K, K = Hangs!Loop(p, b, X, base, Around[p])
  PROVE  /\ SameBut({"first", "nextE", "prevE"}, base, K)
         /\ Wired(K, X \cup EdgesFrom(Empty(b, Neighbors[p]), p))
<1> DEFINE seq == Around[p]
           n == Len(seq)
<1>1. /\ n \in Nat /\ DOMAIN seq = 1 .. n /\ Done(seq, n) = Neighbors[p] /\ Done(seq, 0) = {}
      /\ \A k \in 1 .. n : /\ seq[k] \in Neighbors[p] /\ seq[k] \notin Done(seq, k - 1)
                           /\ Done(seq, k) = Done(seq, k - 1) \cup {seq[k]} /\ Done(seq, k) \subseteq Neighbors[p]
  BY AroundFacts
<1> HIDE DEF n
<1>2. HangHolds(p, b, X, base, seq, 0, base)
  <2>1. Empty(b, Done(seq, 0)) = {} /\ EdgesFrom({}, p) = {}
    BY <1>1 DEF Empty, EdgesFrom
  <2>2. X \cup {} = X /\ Record(base)
    BY DEF Wired, McShape
  <2> QED BY <2>1, <2>2, SameButSelf DEF HangHolds
<1>3. ASSUME NEW k \in 1 .. n, NEW v, HangHolds(p, b, X, base, seq, k - 1, v)
      PROVE  /\ k \in DOMAIN seq => HangHolds(p, b, X, base, seq, k, HangTurn(p, b, X, v, seq[k]))
             /\ k \notin DOMAIN seq => HangHolds(p, b, X, base, seq, k, v)
  <2> DEFINE q == seq[k]
             w == HangTurn(p, b, X, v, q)
             D == Done(seq, k - 1)
             Y == X \cup EdgesFrom(Empty(b, D), p)
  <2>1. q \in Neighbors[p] /\ q \notin D /\ Done(seq, k) = D \cup {q}
    BY <1>1
  <2>2. SameBut({"first", "nextE", "prevE"}, base, v) /\ Wired(v, Y)
    BY <1>3 DEF HangHolds
  <2>3. v.board = b /\ p \in Live(v)
    BY <2>2 DEF SameBut, McFields, Live
  <2>4. CASE b[q] = "empty"
    <3> HIDE DEF q, D
    <3>1. w = AddEdge(v, p, q)
      BY <2>4 DEF HangTurn
    <3> HIDE DEF w
    <3>2. <<q, p>> \notin Y
      <4>1. <<q, p>>[2] = p
        OBVIOUS
      <4>2. <<q, p>> \notin X
        BY <4>1
      <4>3. <<q, p>> \notin EdgesFrom(Empty(b, D), p)
        BY <2>1 DEF EdgesFrom, Empty
      <4> QED BY <4>2, <4>3
    <3>3. SameBut({"first", "nextE", "prevE"}, v, w) /\ Wired(w, Y \cup {<<q, p>>})
      <4> HIDE DEF Y
      <4> QED BY <2>1, <2>2, <2>3, <3>1, <3>2, AddEdgeKeeps
    <3>4. Empty(b, D \cup {q}) = Empty(b, D) \cup {q}
      BY <2>4 DEF Empty
    <3>5. Y \cup {<<q, p>>} = X \cup EdgesFrom(Empty(b, D \cup {q}), p)
      BY <3>4 DEF EdgesFrom
    <3>6. SameBut({"first", "nextE", "prevE"}, base, w)
      BY <2>2, <3>3 DEF SameBut, McFields
    <3>7. HangHolds(p, b, X, base, seq, k, w)
      BY <2>1, <3>3, <3>5, <3>6 DEF HangHolds
    <3> QED BY <1>1, <3>7 DEF w, q
  <2>5. CASE b[q] # "empty"
    <3>1. w = v
      BY <2>5 DEF HangTurn
    <3>2. Empty(b, D \cup {q}) = Empty(b, D)
      BY <2>5 DEF Empty
    <3>3. HangHolds(p, b, X, base, seq, k, w)
      BY <2>1, <2>2, <3>1, <3>2 DEF HangHolds
    <3> QED BY <1>1, <3>3
  <2> QED BY <2>4, <2>5
<1>4. HangHolds(p, b, X, base, seq, n, K)
  BY <1>1, <1>2, <1>3, Hangs!LoopKeeps
<1> QED BY <1>1, <1>4 DEF HangHolds

EdgesOf(b, S) == {e \in BoardEdges(b) : e[2] \in S}
InitTurn(a, b, c, m, p) ==
    IF b[p] = "empty" THEN m
    ELSE FoldLeft(LAMBDA n, q : IF b[q] = "empty" THEN AddEdge(n, p, q) ELSE n, m, Around[p])
InitHolds(a, b, c, base, seq, k, v) ==
    SameBut({"first", "nextE", "prevE"}, base, v) /\ Wired(v, EdgesOf(b, Done(seq, k)))
Inits == INSTANCE Recursion WITH Turn <- InitTurn, Holds <- InitHolds

LEMMA InitIs ==
  ASSUME NEW b, NEW ko, NEW strings
  PROVE  FromGlobalBoard(b, ko, strings) = Inits!Loop(0, b, 0, StartBoard(b, ko, strings), BoardOrder)
BY DEF FromGlobalBoard, StartBoard, AfterIn, InitTurn, FoldLeft, MapThenFoldSet, Max,
       Inits!Greatest, Inits!Loop, Inits!Rest, Inits!RestOver

LEMMA HangIs ==
  ASSUME NEW b, NEW p, b[p] # "empty", NEW m, NEW X
  PROVE  InitTurn(0, b, 0, m, p) = Hangs!Loop(p, b, X, m, Around[p])
BY DEF InitTurn, HangTurn, FoldLeft, MapThenFoldSet, Max, Hangs!Greatest, Hangs!Loop, Hangs!Rest, Hangs!RestOver

LEMMA EdgesAreHung ==
  ASSUME NEW b \in BoardType, NEW base, Wired(base, {}), base.board = b,
         NEW K, K = Inits!Loop(0, b, 0, base, BoardOrder)
  PROVE  SameBut({"first", "nextE", "prevE"}, base, K) /\ Wired(K, BoardEdges(b))
<1> DEFINE seq == BoardOrder
           n == Len(seq)
<1>1. /\ n \in Nat /\ DOMAIN seq = 1 .. n /\ Done(seq, n) = Points /\ Done(seq, 0) = {}
      /\ \A k \in 1 .. n : /\ seq[k] \in Points /\ seq[k] \notin Done(seq, k - 1)
                           /\ Done(seq, k) = Done(seq, k - 1) \cup {seq[k]} /\ Done(seq, k) \subseteq Points
  <2>1. seq \in Seq(Points) /\ IsInjective(seq) /\ Points = ToSet(seq)
    BY McAssumption
  <2> QED BY <2>1, ListFacts
<1> HIDE DEF seq, n
<1>2. InitHolds(0, b, 0, base, seq, 0, base)
  <2>1. EdgesOf(b, Done(seq, 0)) = {}
    BY <1>1 DEF EdgesOf
  <2>2. Record(base)
    BY DEF Wired, McShape
  <2> QED BY <2>1, <2>2, SameButSelf DEF InitHolds
<1>3. ASSUME NEW k \in 1 .. n, NEW v, InitHolds(0, b, 0, base, seq, k - 1, v)
      PROVE  /\ k \in DOMAIN seq => InitHolds(0, b, 0, base, seq, k, InitTurn(0, b, 0, v, seq[k]))
             /\ k \notin DOMAIN seq => InitHolds(0, b, 0, base, seq, k, v)
  <2> DEFINE p == seq[k]
             w == InitTurn(0, b, 0, v, p)
             D == Done(seq, k - 1)
  <2>1. p \in Points /\ p \notin D /\ Done(seq, k) = D \cup {p}
    BY <1>1
  <2>2. SameBut({"first", "nextE", "prevE"}, base, v) /\ Wired(v, EdgesOf(b, D)) /\ v.board = b
    BY <1>3 DEF InitHolds, SameBut, McFields
  <2>3. CASE b[p] = "empty"
    <3>1. w = v
      BY <2>3 DEF InitTurn
    <3>2. EdgesOf(b, D \cup {p}) = EdgesOf(b, D)
      BY <2>3 DEF EdgesOf, BoardEdges
    <3>3. InitHolds(0, b, 0, base, seq, k, w)
      BY <2>1, <2>2, <3>1, <3>2 DEF InitHolds
    <3> QED BY <1>1, <3>3
  <2>4. CASE b[p] # "empty"
    <3> DEFINE X == EdgesOf(b, D)
    <3>1. w = Hangs!Loop(p, b, X, v, Around[p])
      BY <2>4, HangIs
    <3>2. p \in Live(v) /\ b = v.board
      BY <2>1, <2>2, <2>4 DEF Live
    <3>3. \A e \in X : e[2] # p
      BY <2>1 DEF EdgesOf
    <3>4. SameBut({"first", "nextE", "prevE"}, v, w) /\ Wired(w, X \cup EdgesFrom(Empty(b, Neighbors[p]), p))
      <4> HIDE DEF X, w, p, D
      <4> QED BY <2>1, <2>2, <3>1, <3>2, <3>3, HangEdges DEF X
    <3>5. X \cup EdgesFrom(Empty(b, Neighbors[p]), p) = EdgesOf(b, D \cup {p})
      <4> HIDE DEF p, D
      <4>1. ASSUME NEW e \in EdgesFrom(Empty(b, Neighbors[p]), p) PROVE e \in BoardEdges(b) /\ e[2] = p
        <5>1. PICK q \in Neighbors[p] : b[q] = "empty" /\ e = <<q, p>>
          BY <4>1 DEF EdgesFrom, Empty
        <5>2. <<q, p>> \in Edges
          BY <2>1, <5>1, BoardEdgeIs
        <5> QED BY <2>4, <5>1, <5>2 DEF BoardEdges
      <4>2. ASSUME NEW e \in BoardEdges(b), e[2] = p PROVE e \in EdgesFrom(Empty(b, Neighbors[p]), p)
        <5>1. e = <<e[1], p>> /\ e[1] \in Neighbors[p] /\ b[e[1]] = "empty"
          BY <4>2, EdgePoints DEF BoardEdges
        <5> QED BY <5>1 DEF EdgesFrom, Empty
      <4> QED BY <4>1, <4>2 DEF EdgesOf
    <3>6. SameBut({"first", "nextE", "prevE"}, base, w)
      BY <2>2, <3>4 DEF SameBut
    <3>7. InitHolds(0, b, 0, base, seq, k, w)
      BY <2>1, <3>4, <3>5, <3>6 DEF InitHolds
    <3> QED BY <1>1, <3>7
  <2> QED BY <2>3, <2>4
<1>4. InitHolds(0, b, 0, base, seq, n, K)
  <2>1. K = Inits!Loop(0, b, 0, base, seq)
    BY DEF seq
  <2> QED BY <1>1, <1>2, <1>3, <2>1, Inits!LoopKeeps
<1>5. EdgesOf(b, Points) = BoardEdges(b)
  BY EdgePoints DEF EdgesOf, BoardEdges
<1> QED BY <1>1, <1>4, <1>5 DEF InitHolds

(* What the global board says of a suicide.                                *)
LEMMA SuicideContext ==
  ASSUME NEW b \in BoardType, NEW p \in Points, b[p] = "empty"
  PROVE  ContextByTheRules(b, StringsOf(b), p).suicide = Suicides(b, p)
<1> DEFINE NextTo(c) == UNION {StringsOf(b)[q] : q \in {q \in Neighbors[p] : b[q] = c}}
           Taken(c) == UNION {StringsOf(b)[q] : q \in {q \in Neighbors[p] :
                                b[q] = Other(c) /\ LibertiesOf(b, StringsOf(b)[q]) = {p}}}
           Reach(c) == UNION {Neighbors[q] : q \in NextTo(c) \cup {p}}
           Found(c) == (Reach(c) \cap (Stones(b, "empty") \cup Taken(c))) \ {p}
<1>1. ContextByTheRules(b, StringsOf(b), p).suicide = {c \in Colors : Cardinality(Found(c)) = 0}
  BY DEF ContextByTheRules
<1>2. \A q \in Neighbors[p] : q \in Points /\ q # p /\ p \in Neighbors[q]
  BY PointsAssumption
<1>3. \A q \in Neighbors[p] : b[q] # "empty" => StringsOf(b)[q] = StringAt(b, q) /\ q \in StringAt(b, q)
  BY <1>2, StringFacts DEF StringsOf
<1>4. ASSUME NEW c \in Colors PROVE Cardinality(Found(c)) = 0 <=> Found(c) = {}
  <2>1. Found(c) \subseteq Points
    <3>1. \A q \in Neighbors[p] : \A x \in StringAt(b, q) : x \in Points
      BY <1>2, StringFacts DEF Stones
    <3>2. c # "empty"
      BY OthersColor
    <3>3. NextTo(c) \subseteq Points
      BY <1>3, <3>1, <3>2
    <3> HIDE DEF NextTo
    <3> QED BY <3>3, PointsAssumption
  <2>2. IsFiniteSet(Found(c))
    BY <2>1, PointsAssumption, FS_Subset
  <2> HIDE DEF Found
  <2> QED BY <2>2, FS_EmptySet
<1>5. ASSUME NEW c \in Colors, IsSuicide(b, p, c) PROVE Found(c) = {}
  <2>1. \A q \in Neighbors[p] : b[q] # "empty" /\ ((b[q] = c) = (Cardinality(Liberties(b, q)) = 1))
    BY <1>5 DEF IsSuicide
  <2>2. c # "empty" /\ Other(c) # "empty" /\ Other(c) # c
    BY OthersColor
  <2>3. \A q \in Neighbors[p] : Cardinality(Liberties(b, q)) = 1 <=> Liberties(b, q) = {p}
    BY NeighborLiberty
  <2>4. Taken(c) = {}
    <3>1. \A q \in Neighbors[p] : b[q] = Other(c) => LibertiesOf(b, StringsOf(b)[q]) # {p}
      BY <1>3, <2>1, <2>2, <2>3 DEF Liberties
    <3> QED BY <3>1
  <2>5. ASSUME NEW x \in Reach(c), x \in Points, b[x] = "empty", x # p PROVE FALSE
    <3>1. x \notin Neighbors[p]
      BY <2>1, <2>5
    <3>2. PICK r \in NextTo(c) : x \in Neighbors[r]
      BY <2>5, <3>1
    <3>3. PICK q \in Neighbors[p] : b[q] = c /\ r \in StringAt(b, q)
      BY <1>3, <2>2, <3>2
    <3>4. r \in Points /\ r \in Neighbors[x]
      BY <1>2, <2>5, <3>2, <3>3, StringFacts, PointsAssumption DEF Stones
    <3>5. x \in Liberties(b, q)
      BY <2>5, <3>3, <3>4, LibertyIs
    <3> QED BY <2>1, <2>3, <2>5, <3>3, <3>5
  <2> HIDE DEF Reach, Taken
  <2> QED BY <2>4, <2>5 DEF Stones
<1>6. ASSUME NEW c \in Colors, ~IsSuicide(b, p, c) PROVE Found(c) # {}
  <2>1. PICK q \in Neighbors[p] : b[q] = "empty" \/ (b[q] = c) # (Cardinality(Liberties(b, q)) = 1)
    BY <1>6 DEF IsSuicide
  <2>2. c # "empty" /\ Other(c) # "empty" /\ b[q] \in Colors \cup {"empty"} /\ (\A d \in Colors : d = c \/ d = Other(c))
    BY <1>2, OthersColor DEF BoardType
  <2>3. Neighbors[p] \subseteq Reach(c)
    OBVIOUS
  <2>4. CASE b[q] = "empty"
    <3>1. q \in Stones(b, "empty") /\ q # p
      BY <1>2, <2>4 DEF Stones
    <3> QED BY <2>3, <3>1
  <2>5. CASE b[q] = c
    <3>1. Liberties(b, q) # {p} /\ p \in Liberties(b, q)
      BY <2>1, <2>2, <2>5, NeighborLiberty
    <3>2. PICK x \in Liberties(b, q) : x # p
      BY <3>1
    <3>3. x \in Points /\ b[x] = "empty" /\ \E r \in StringAt(b, q) : r \in Neighbors[x]
      BY <3>2, LibertyIs
    <3>4. PICK r \in StringAt(b, q) : r \in Neighbors[x]
      BY <3>3
    <3>5. r \in NextTo(c) /\ x \in Neighbors[r]
      BY <1>3, <2>2, <2>5, <3>3, <3>4, PointsAssumption
    <3>6. x \in Reach(c)
      BY <3>5
    <3> HIDE DEF Reach, Taken
    <3> QED BY <3>2, <3>3, <3>6 DEF Stones
  <2>6. CASE b[q] # "empty" /\ b[q] # c
    <3>1. b[q] = Other(c) /\ Liberties(b, q) = {p}
      BY <2>1, <2>2, <2>6, NeighborLiberty
    <3>2. LibertiesOf(b, StringsOf(b)[q]) = {p} /\ q \in StringsOf(b)[q]
      BY <1>3, <2>2, <3>1 DEF Liberties
    <3>3. q \in Taken(c)
      BY <3>1, <3>2
    <3> HIDE DEF Reach, Taken
    <3> QED BY <1>2, <2>3, <3>3
  <2> QED BY <2>4, <2>5, <2>6
<1> HIDE DEF Found
<1> QED BY <1>1, <1>4, <1>5, <1>6 DEF Suicides

(* The board a playout starts with.                                        *)
LEMMA StartIsSound ==
  ASSUME NEW b \in BoardType, \A p \in Points : b[p] # "empty" => LibertiesOf(b, StringsOf(b)[p]) # {},
         NEW ko \in Points \cup {NoMove},
         NEW V, V = InitMoveValues(FromGlobalBoard(b, ko, StringsOf(b)))
  PROVE  McSound(V)
<1> DEFINE base == StartBoard(b, ko, StringsOf(b))
           F == FromGlobalBoard(b, ko, StringsOf(b))
           values == [c \in Colors |-> [p \in Points |-> ValueOf(F, p, c)]]
<1>1. Wired(base, {}) /\ Strung(base) /\ base.board = b
  <2>1. base = StartBoard(b, ko, StringsOf(b))
    OBVIOUS
  <2> HIDE DEF base
  <2> QED BY <2>1, StartWires
<1>2. /\ base.ko = ko /\ base.hash = HashRecalc(b, ko)
      /\ \A p \in Points : b[p] = "empty" => base.context[p] = ContextByTheRules(b, StringsOf(b), p)
  BY DEF StartBoard
<1>3. SameBut({"first", "nextE", "prevE"}, base, F) /\ Wired(F, BoardEdges(b))
  <2>1. F = Inits!Loop(0, b, 0, base, BoardOrder)
    BY InitIs
  <2> HIDE DEF base, F
  <2> QED BY <1>1, <2>1, EdgesAreHung
<1>4. V = [F EXCEPT !.values = values]
  BY DEF InitMoveValues
<1> HIDE DEF base, F
<1>5. /\ F.board = b /\ F.ref = base.ref /\ F.ko = ko /\ F.hash = HashRecalc(b, ko)
      /\ F.context = base.context /\ Record(F)
  BY <1>1, <1>2, <1>3 DEF SameBut, McFields
<1>6. Strung(F)
  BY <1>1, <1>5 DEF Strung, Together, Live
<1>7. SameBut({"values"}, F, V) /\ V.values = values
  <2> HIDE DEF values
  <2> QED BY <1>4, <1>5 DEF SameBut, Record, McFields
<1>8. Standing(V, b) /\ V.board = b /\ V.ko = ko /\ V.hash = HashRecalc(b, ko) /\ V.context = F.context
  <2>1. Standing(F, b) /\ SameBut({"ko", "hash", "queue", "context", "values"}, F, V)
    BY <1>3, <1>5, <1>6, <1>7 DEF Standing, SameBut
  <2>2. Standing(V, b)
    BY <2>1, StandingSame
  <2> QED BY <1>5, <1>7, <2>2 DEF SameBut, McFields
<1>9. NoDeadStrings(b)
  <2> SUFFICES ASSUME NEW p \in Points, b[p] \in Colors PROVE Liberties(b, p) # {}
    BY DEF NoDeadStrings
  <2>1. b[p] # "empty"
    BY OthersColor
  <2> QED BY <2>1 DEF StringsOf, Liberties
<1>10. ContextsKnown(V)
  BY <1>2, <1>5, <1>8, SuicideContext DEF ContextsKnown
<1>11. ValuesKnown(V)
  <2> SUFFICES ASSUME NEW c \in Colors, NEW p \in Points
               PROVE  values[c][p] # NoValue <=> b[p] = "empty" /\ c \notin F.context[p].suicide
    BY <1>7, <1>8 DEF ValuesKnown
  <2>1. values[c][p] = ValueOf(F, p, c)
    OBVIOUS
  <2> HIDE DEF values
  <2> QED BY <1>5, <2>1 DEF ValueOf, IsSuicideHere, Pattern, NoValue
<1> QED BY <1>8, <1>9, <1>10, <1>11 DEF McSound

LEMMA PlayoutBegins ==
  ASSUME McInit
  PROVE  McIInv
<1>1. PICK start \in Starts : \E strings \in {StringsOf(start.board)} :
          /\ \A p \in Points : start.board[p] # "empty" => LibertiesOf(start.board, strings[p]) # {}
          /\ \E m \in {FromGlobalBoard(start.board, start.ko, strings)} : mc = InitMoveValues(m)
  BY DEF McInit
<1>2. start.board \in BoardType /\ start.ko \in Points \cup {NoMove}
  BY McAssumption DEF BoardType
<1>3. McSound(mc)
  <2>1. PICK b \in BoardType, ko \in Points \cup {NoMove} : b = start.board /\ ko = start.ko
    BY <1>2
  <2>2. /\ \A p \in Points : b[p] # "empty" => LibertiesOf(b, StringsOf(b)[p]) # {}
        /\ mc = InitMoveValues(FromGlobalBoard(b, ko, StringsOf(b)))
    BY <1>1, <2>1
  <2> QED BY <2>2, StartIsSound
<1>4. GiveUp \in Nat
  BY McAssumption
<1> QED BY <1>3, <1>4 DEF McInit, McIInv

-----------------------------------------------------------------------------
(* The board of a playout stays sound.                                     *)
THEOREM PlayoutInvariant == McSpec => []McIInv
<1>1. McInit => McIInv
  BY PlayoutBegins
<1>2. McIInv /\ [McNext]_mcVars => McIInv'
  BY PlayoutStepOrNot
<1> QED BY <1>1, <1>2, PTL DEF McSpec

(* After every move of a playout the stones of a string are in one ring    *)
(* with one reference, and its liberty edges, each once, in a ring that    *)
(* reads the same both ways, from any board and however many strings the   *)
(* move joined and took off: mc_play_move, mc_join_strings and             *)
(* mc_remove_string, as mc_check_consistency_with_global_board has it.     *)
THEOREM PlayoutKeepsItsRings == McSpec => []EdgesAreOfTheBoard
<1>1. McIInv => EdgesAreOfTheBoard
  <2>1. McIInv => \A strings \in {StringsOf(mc.board)} : Consistent(mc, strings)
    BY SoundIsConsistent DEF McIInv
  <2> QED BY <2>1 DEF EdgesAreOfTheBoard, Consistent
<1> QED BY <1>1, PlayoutInvariant, PTL

(* "Suicide is incrementally tracked by the local context information":    *)
(* the points that the update queue leaves alone need no renewal.  Exactly *)
(* the moves that are no suicide have a value: mc_update_local_context and *)
(* mc_update_move_values miss none of them.                                *)
THEOREM PlayoutKnowsItsMoves ==
  McSpec => [](\A c \in Colors, p \in Points :
                  mc.values[c][p] # NoValue <=> mc.board[p] = "empty" /\ ~SuicideByTheRules(mc.board, p, c))
<1>1. McIInv => \A c \in Colors, p \in Points :
                  mc.values[c][p] # NoValue <=> mc.board[p] = "empty" /\ ~SuicideByTheRules(mc.board, p, c)
  <2> SUFFICES ASSUME McIInv, NEW c \in Colors, NEW p \in Points
               PROVE  mc.values[c][p] # NoValue <=> mc.board[p] = "empty" /\ ~SuicideByTheRules(mc.board, p, c)
    OBVIOUS
  <2>1. mc.values[c][p] # NoValue <=> mc.board[p] = "empty" /\ c \notin mc.context[p].suicide
    BY DEF McIInv, McSound, ValuesKnown
  <2>2. mc.board[p] = "empty" => (c \in mc.context[p].suicide <=> IsSuicide(mc.board, p, c))
    BY DEF McIInv, McSound, ContextsKnown, Suicides
  <2>3. mc.board[p] = "empty" => (IsSuicide(mc.board, p, c) <=> SuicideByTheRules(mc.board, p, c))
    <3>1. mc.board \in BoardType /\ NoDeadStrings(mc.board)
      BY DEF McIInv, McSound, Standing, Wired, McShape
    <3> QED BY <3>1, SuicideTest
  <2> QED BY <2>1, <2>2, <2>3
<1> QED BY <1>1, PlayoutInvariant, PTL

(* A playout is a game: what mc_generate_random_move offers is on an empty *)
(* point, no suicide and no illegal ko capture, and mc_play_move does to   *)
(* the stones, the ko point and the hash what play_move does.              *)
THEOREM PlayoutsAreGames == McSpec => PlayoutIsAGame
<1>1. McIInv /\ [McNext]_mcVars =>
        [ LET loc == last_move'
              R == GlobalBoard(mc)
              Q == PlayMoveNoHistory(R, loc, color_to_move)
          IN /\ loc # NoMove => /\ R.board[loc] = "empty" /\ ~SuicideByTheRules(R.board, loc, color_to_move)
                                /\ ~IllegalKoCapture(R, loc, color_to_move)
             /\ mc'.board = Q.board /\ mc'.ko = Q.ko /\ mc'.hash = Q.hash ]_mcVars
  BY PlayoutPlays
<1> QED BY <1>1, PlayoutInvariant, PTL DEF McSpec, PlayoutIsAGame

(* The depth limit of mc_generate_random_move and three passes keep a      *)
(* playout, triple ko or not, within the entries of move_history.          *)
THEOREM PlayoutsAreShort == McSpec => [](depth <= GiveUp + 4)
<1>1. McIInv => depth <= GiveUp + 4
  <2>1. GiveUp \in Nat
    BY McAssumption
  <2> QED BY <2>1 DEF McIInv
<1> QED BY <1>1, PlayoutInvariant, PTL
=============================================================================
