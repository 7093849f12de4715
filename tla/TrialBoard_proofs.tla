------------------------- MODULE TrialBoard_proofs -------------------------
(***************************************************************************)
(* Proofs about the reading stack, for any board, any points and any       *)
(* depth: popgo gives back the position every trial move was made from.    *)
(*                                                                         *)
(* The log holds what was pushed and nothing else comes back.  So every    *)
(* operation on the records is followed to what it writes and what it      *)
(* pushes first: a place comes back if the first value pushed for it after *)
(* the mark is the value it had, or if nothing was pushed and it still has *)
(* it (Restores).  A few places are written without a push: a new stone's  *)
(* number and link, the free slot, the prisoners and the ko.  For these it *)
(* counts that the caller pushed them, that the point was empty, or that   *)
(* no string had the slot; a stone that was taken off has had its number   *)
(* and its link pushed (Vacated).                                          *)
(*                                                                         *)
(* The second part is about what the operations make of a position: the    *)
(* stones with a number stay a ring of next that the string's origin lies  *)
(* on, and the hash stays that of board, ko and komaster (Sound).  A walk  *)
(* around the ring then lists every stone of the string once, which is     *)
(* what makes captures and merges change the hash and the links rightly.   *)
(***************************************************************************)
EXTENDS TrialBoard, Position_proofs

-----------------------------------------------------------------------------
(* Memories.                                                               *)

(* The fields that hold one value for every point, color or string, and    *)
(* those that hold a list for every string.                                *)
Over == [f \in {"board", "number", "next", "captured", "origin", "color", "size",
               "liberties", "lib", "neighbors", "nb"} |->
           IF f = "captured" THEN Colors ELSE IF f \in {"board", "number", "next"} THEN Points ELSE Slots]
Within == [f \in {"lib", "nb"} |-> IF f = "lib" THEN 1 .. MaxLiberties ELSE 1 .. MaxStrings]
Fields == {"board", "ko", "captured", "hash", "komaster", "kom_pos", "number", "next", "color", "size",
           "origin", "liberties", "lib", "neighbors", "nb", "next_string", "log"}

IsLog(L) == \E S : L \in Seq(S)

Formed(f, values) ==
    /\ f \in DOMAIN Over => values = [x \in Over[f] |-> values[x]]
    /\ f \in DOMAIN Within => \A s \in Slots : values[s] = [k \in Within[f] |-> values[s][k]]

Shape(N) ==
    /\ N = [f \in Fields |-> N[f]]
    /\ \A f \in Fields : Formed(f, N[f])
    /\ IsLog(N.log)

(* The places a move has to give back.                                     *)
Places ==
    {<<f>> : f \in {"ko", "komaster", "kom_pos", "next_string"}}
    \cup {<<f, p>> : f \in {"board", "number", "next"}, p \in Points}
    \cup {<<"captured", c>> : c \in Colors} \cup {<<"origin", s>> : s \in Slots}

(* What the log may hold besides marks.                                    *)
Listed == {"color", "size", "liberties", "lib", "neighbors", "nb"}
Address(at) ==
    \/ at \in Places
    \/ \E f \in DOMAIN Over \ DOMAIN Within : \E x : at = <<f, x>>
    \/ \E f \in DOMAIN Within : \E x, y : at = <<f, x, y>>

LEMMA FieldOf ==
  ASSUME NEW at, Address(at)
  PROVE  at # <<>> /\ at[1] \in Fields \ {"log", "hash"}
BY DEF Address, Places, Over, Within, Fields

LEMMA ShapeOver ==
  ASSUME NEW N, Shape(N), NEW f \in DOMAIN Over
  PROVE  N[f] = [x \in Over[f] |-> N[f][x]]
<1>1. f \in Fields
  BY DEF Over, Fields
<1> QED BY <1>1 DEF Shape, Formed

(* A field is written, and keeps its form.                                 *)
LEMMA ShapeWritten ==
  ASSUME NEW N, Shape(N), NEW K, NEW f, K = [g \in Fields |-> K[g]], \A g \in Fields \ {f} : K[g] = N[g],
         Formed(f, K[f]), IsLog(K.log)
  PROVE  Shape(K)
<1>1. \A g \in Fields : Formed(g, K[g])
  BY DEF Shape
<1> QED BY <1>1 DEF Shape

LEMMA FormedFlat ==
  ASSUME NEW f, f \notin DOMAIN Over, NEW v
  PROVE  Formed(f, v)
BY DEF Formed, Over, Within

LEMMA FormedEntry ==
  ASSUME NEW f \in DOMAIN Over \ DOMAIN Within, NEW v, Formed(f, v), NEW u, u = [z \in DOMAIN v |-> u[z]]
  PROVE  Formed(f, u)
<1> DEFINE D == Over[f]
<1>1. v = [z \in D |-> v[z]]
  BY DEF Formed
<1> HIDE DEF D
<1>2. u = [z \in D |-> u[z]]
  BY <1>1
<1> QED BY <1>2 DEF Formed, D

LEMMA FormedList ==
  ASSUME NEW f \in DOMAIN Within, NEW v, Formed(f, v), NEW u, u = [z \in DOMAIN v |-> u[z]],
         \A s \in Slots : u[s] = v[s] \/ u[s] = [k \in Within[f] |-> u[s][k]]
  PROVE  Formed(f, u)
<1> DEFINE D == Within[f]
<1>1. f \in DOMAIN Over /\ Over[f] = Slots
  BY DEF Within, Over
<1>2. v = [x \in Slots |-> v[x]] /\ \A x \in Slots : v[x] = [j \in D |-> v[x][j]]
  BY <1>1 DEF Formed
<1> HIDE DEF D
<1>3. u = [x \in Slots |-> u[x]]
  BY <1>2
<1>4. \A x \in Slots : u[x] = [j \in D |-> u[x][j]]
  BY <1>2 DEF D
<1> QED BY <1>1, <1>3, <1>4 DEF Formed, D

LEMMA FormedListEntry ==
  ASSUME NEW f \in DOMAIN Within, NEW v, Formed(f, v), NEW u, u = [z \in DOMAIN v |-> u[z]],
         \A s \in Slots : u[s] = [k \in DOMAIN v[s] |-> u[s][k]]
  PROVE  Formed(f, u)
<1> DEFINE D == Within[f]
<1>1. \A s \in Slots : v[s] = [k \in D |-> v[s][k]]
  BY DEF Formed
<1> HIDE DEF D
<1>2. \A s \in Slots : DOMAIN v[s] = D
  BY <1>1
<1>3. \A s \in Slots : u[s] = [k \in D |-> u[s][k]]
  BY <1>2
<1> QED BY <1>3, FormedList DEF D

LEMMA ShapeList ==
  ASSUME NEW N, Shape(N), NEW f \in DOMAIN Within, NEW s \in Slots
  PROVE  N[f][s] = [k \in Within[f] |-> N[f][s][k]]
<1>1. f \in Fields
  BY DEF Within, Fields
<1> QED BY <1>1 DEF Shape, Formed

(* Whatever is written but lists and the log, at places that exist.        *)
Redone(f, v, w) == f \notin DOMAIN Over \/ (f \notin DOMAIN Within /\ w = [x \in DOMAIN v |-> w[x]])

LEMMA ShapeStill ==
  ASSUME NEW N, Shape(N), NEW K, K = [f \in Fields |-> K[f]], IsLog(K.log),
         \A f \in Fields : K[f] = N[f] \/ Redone(f, N[f], K[f])
  PROVE  Shape(K)
<1>1. ASSUME NEW f \in Fields PROVE Formed(f, K[f])
  <2>1. Formed(f, N[f])
    BY DEF Shape
  <2>2. CASE f \notin DOMAIN Over
    BY <2>2, FormedFlat
  <2>3. CASE f \in DOMAIN Over /\ K[f] # N[f]
    BY <2>1, <2>3, FormedEntry DEF Redone
  <2> QED BY <2>1, <2>2, <2>3
<1> QED BY <1>1 DEF Shape

LEMMA ListDomainIs ==
  ASSUME NEW N, Shape(N), NEW f \in DOMAIN Within, NEW s \in Slots
  PROVE  DOMAIN N[f][s] = Within[f]
<1>1. N[f][s] = [k \in Within[f] |-> N[f][s][k]]
  BY ShapeList
<1> QED BY <1>1

LEMMA ListDomains ==
  ASSUME NEW N, Shape(N), NEW f \in DOMAIN Within, NEW z \in Slots
  PROVE  z \in DOMAIN N[f] /\ N[f][z] = [j \in DOMAIN N[f][z] |-> N[f][z][j]]
<1>1. f \in DOMAIN Over /\ Over[f] = Slots
  BY DEF Over, Within
<1>2. N[f] = [x \in Slots |-> N[f][x]]
  BY <1>1, ShapeOver
<1>3. z \in DOMAIN N[f]
  BY <1>2
<1>4. N[f][z] = [k \in Within[f] |-> N[f][z][k]]
  BY ShapeList
<1> QED BY <1>3, <1>4

LEMMA LogGrows ==
  ASSUME NEW L, IsLog(L), NEW entry, NEW longer, longer = Append(L, entry)
  PROVE  /\ IsLog(longer) /\ Len(L) \in Nat /\ Len(longer) = Len(L) + 1
         /\ \A i \in 1 .. Len(L) : longer[i] = L[i]
         /\ longer[Len(L) + 1] = entry
<1>1. PICK S : L \in Seq(S)
  BY DEF IsLog
<1> DEFINE T == S \cup {entry}
<1>2. L \in Seq(T) /\ entry \in T
  BY <1>1
<1>3. longer \in Seq(T)
  BY <1>2
<1> QED BY <1>2, <1>3 DEF IsLog

LEMMA PushIs ==
  ASSUME NEW N, Shape(N), NEW at
  PROVE  /\ Shape(Push(N, at))
         /\ Push(N, at).log = Append(N.log, [at |-> at, was |-> Peek(N, at)])
         /\ \A f \in Fields \ {"log"} : Push(N, at)[f] = N[f]
<1> DEFINE e == [at |-> at, was |-> Peek(N, at)]
           K == Push(N, at)
<1>1. K = [N EXCEPT !.log = Append(N.log, e)]
  BY DEF Push
<1> HIDE DEF K, e
<1>2. DOMAIN N = Fields
  BY DEF Shape
<1>3. K = [f \in Fields |-> K[f]] /\ K.log = Append(N.log, e) /\ \A f \in Fields \ {"log"} : K[f] = N[f]
  BY <1>1, <1>2 DEF Fields
<1>4. Formed("log", K["log"])
  BY FormedFlat DEF Over
<1>5. IsLog(K.log)
  <2>1. PICK S : N.log \in Seq(S)
    BY DEF Shape, IsLog
  <2>2. N.log \in Seq(S \cup {e}) /\ e \in S \cup {e}
    BY <2>1
  <2>3. Append(N.log, e) \in Seq(S \cup {e})
    BY <2>2
  <2> QED BY <1>3, <2>3 DEF IsLog
<1>6. Shape(K)
  BY <1>3, <1>4, <1>5, ShapeWritten
<1> QED BY <1>3, <1>6 DEF K, e

(* What is where depends on the field it is in.                            *)
LEMMA PeekSame ==
  ASSUME NEW N, NEW K, NEW at \in Places, K[at[1]] = N[at[1]]
  PROVE  Peek(K, at) = Peek(N, at)
BY DEF Peek, Places

LEMMA PeekIs ==
  ASSUME NEW N
  PROVE  /\ \A f : Peek(N, <<f>>) = N[f]
         /\ \A f, x : Peek(N, <<f, x>>) = N[f][x]
BY DEF Peek

LEMMA PokeIs ==
  ASSUME NEW N, Shape(N), NEW at, Address(at), NEW v
  PROVE  /\ Shape(Poke(N, at, v)) /\ Poke(N, at, v).log = N.log
         /\ \A c \in Places : Peek(Poke(N, at, v), c) = IF c = at THEN v ELSE Peek(N, c)
         /\ \A f \in Fields \ {at[1]} : Poke(N, at, v)[f] = N[f]
<1> DEFINE K == Poke(N, at, v)
<1>1. DOMAIN N = Fields /\ N = [f \in Fields |-> N[f]]
  BY DEF Shape
<1>2. CASE \E f \in {"ko", "komaster", "kom_pos", "next_string"} : at = <<f>>
  <2>1. PICK f \in {"ko", "komaster", "kom_pos", "next_string"} : at = <<f>>
    BY <1>2
  <2>2. K = [N EXCEPT ![f] = v]
    BY <2>1 DEF Poke
  <2> HIDE DEF K
  <2>3. K = [g \in Fields |-> K[g]] /\ K[f] = v /\ \A g \in Fields \ {f} : K[g] = N[g]
    BY <1>1, <2>2 DEF Fields
  <2>4. f \notin DOMAIN Over /\ f # "log" /\ "log" \in Fields
    BY <2>1 DEF Over, Fields
  <2>5. Shape(K) /\ K.log = N.log
    <3>1. Formed(f, K[f]) /\ K.log = N.log /\ IsLog(N.log)
      BY <2>3, <2>4, FormedFlat DEF Shape
    <3> QED BY <2>3, <3>1, ShapeWritten
  <2>6. ASSUME NEW c \in Places PROVE Peek(K, c) = IF c = at THEN v ELSE Peek(N, c)
    <3>1. c[1] \in Fields
      BY FieldOf DEF Address
    <3>2. CASE c[1] = f
      <4>1. c = <<f>>
        BY <2>1, <3>2 DEF Places
      <4> QED BY <4>1, <2>1, <2>3, PeekIs
    <3>3. CASE c[1] # f
      <4>1. c # at
        BY <2>1, <3>3
      <4> QED BY <4>1, <3>1, <3>3, <2>3, PeekSame
    <3> QED BY <3>2, <3>3
  <2> QED BY <2>1, <2>3, <2>5, <2>6 DEF K
<1>3. CASE \E f \in DOMAIN Over \ DOMAIN Within : \E x : at = <<f, x>>
  <2>1. PICK f, x : f \in DOMAIN Over \ DOMAIN Within /\ at = <<f, x>>
    BY <1>3
  <2>2. K = [N EXCEPT ![f] = [N[f] EXCEPT ![x] = v]]
    BY <2>1 DEF Poke
  <2>3. f \in Fields \ {"log"} /\ "log" \in Fields
    BY <2>1 DEF Over, Fields
  <2> HIDE DEF K
  <2>4. K = [g \in Fields |-> K[g]] /\ K[f] = [N[f] EXCEPT ![x] = v] /\ \A g \in Fields \ {f} : K[g] = N[g]
    BY <1>1, <2>2, <2>3
  <2>5. \A y \in Over[f] : K[f][y] = IF y = x THEN v ELSE N[f][y]
    <3>1. N[f] = [y \in Over[f] |-> N[f][y]]
      BY <2>1, ShapeOver
    <3> QED BY <3>1, <2>4
  <2>6. Shape(K) /\ K.log = N.log
    <3>1. Formed(f, K[f])
      BY <2>1, <2>3, <2>4, FormedEntry DEF Shape
    <3>2. K.log = N.log /\ IsLog(N.log)
      BY <2>3, <2>4 DEF Shape
    <3> QED BY <2>4, <3>1, <3>2, ShapeWritten
  <2>7. ASSUME NEW c \in Places PROVE Peek(K, c) = IF c = at THEN v ELSE Peek(N, c)
    <3>1. c[1] \in Fields
      BY FieldOf DEF Address
    <3>2. CASE c[1] = f
      <4>1. f \in DOMAIN Over /\ \E y \in Over[f] : c = <<f, y>>
        BY <2>1, <3>2 DEF Places, Over, Within
      <4>2. PICK y \in Over[f] : c = <<f, y>>
        BY <4>1
      <4>3. (c = at) = (y = x)
        BY <2>1, <4>2
      <4>4. Peek(K, c) = K[f][y] /\ Peek(N, c) = N[f][y]
        BY <4>2, PeekIs
      <4> QED BY <4>1, <4>3, <4>4, <2>5
    <3>3. CASE c[1] # f
      <4>1. c # at
        BY <2>1, <3>3
      <4> QED BY <4>1, <3>1, <3>3, <2>4, PeekSame
    <3> QED BY <3>2, <3>3
  <2> QED BY <2>1, <2>4, <2>6, <2>7 DEF K
<1>4. CASE \E f \in DOMAIN Within : \E x, y : at = <<f, x, y>>
  <2>1. PICK f, x, y : f \in DOMAIN Within /\ at = <<f, x, y>>
    BY <1>4
  <2>2. K = [N EXCEPT ![f] = [N[f] EXCEPT ![x] = [N[f][x] EXCEPT ![y] = v]]]
    BY <2>1 DEF Poke
  <2>3. f \in Fields \ {"log"} /\ "log" \in Fields
    BY <2>1 DEF Within, Fields
  <2> HIDE DEF K
  <2>4. K = [g \in Fields |-> K[g]] /\ \A g \in Fields \ {f} : K[g] = N[g]
    BY <1>1, <2>2, <2>3
  <2>5. Shape(K) /\ K.log = N.log
    <3>1. K[f] = [N[f] EXCEPT ![x] = [N[f][x] EXCEPT ![y] = v]]
      BY <1>1, <2>2, <2>3
    <3>2. Formed(f, K[f])
      <4>1. Formed(f, N[f])
        BY <2>3 DEF Shape
      <4>2. K[f] = [z \in DOMAIN N[f] |-> K[f][z]] /\ \A z \in Slots : K[f][z] = [j \in DOMAIN N[f][z] |-> K[f][z][j]]
        <5>1. \A z \in Slots : z \in DOMAIN N[f] /\ N[f][z] = [j \in DOMAIN N[f][z] |-> N[f][z][j]]
          BY <2>1, <4>1 DEF Formed, Over, Within
        <5> QED BY <3>1, <5>1
      <4> QED BY <2>1, <4>1, <4>2, FormedListEntry
    <3>3. K.log = N.log /\ IsLog(N.log)
      BY <2>3, <2>4 DEF Shape
    <3> QED BY <2>4, <3>2, <3>3, ShapeWritten
  <2>6. ASSUME NEW c \in Places PROVE Peek(K, c) = IF c = at THEN v ELSE Peek(N, c)
    <3>1. c[1] \in Fields /\ c[1] # f /\ c # at
      BY <2>1 DEF Places, Fields, Within
    <3> QED BY <3>1, <2>4, PeekSame
  <2> QED BY <2>1, <2>4, <2>5, <2>6 DEF K
<1>5. at \in Places => \/ \E f \in {"ko", "komaster", "kom_pos", "next_string"} : at = <<f>>
                       \/ \E f \in DOMAIN Over \ DOMAIN Within : \E x : at = <<f, x>>
  BY DEF Places, Over, Within
<1> QED BY <1>2, <1>3, <1>4, <1>5 DEF Address

-----------------------------------------------------------------------------
(* What is given back.  Undone down to b, the entries b + 1 .. n of a log  *)
(* put the value "before" where "now" is: nothing was pushed and it is the *)
(* same, or it was the first value pushed.                                 *)
Unpushed(L, b, n, at) == \A i \in b + 1 .. n : L[i].at # at
PushedFirst(L, b, n, at, before) ==
    \E i \in b + 1 .. n : L[i].at = at /\ L[i].was = before /\ Unpushed(L, b, i - 1, at)
Restores(L, b, n, at, now, before) ==
    \/ Unpushed(L, b, n, at) /\ now = before
    \/ PushedFirst(L, b, n, at, before)

Prolonged(L, K) ==
    /\ Len(L) \in Nat /\ Len(K) \in Nat /\ Len(L) <= Len(K)
    /\ \A i \in 1 .. Len(L) : K[i] = L[i]

(* Prolonged by entries that are no marks.                                     *)
Longer(L, K) ==
    /\ Len(L) \in Nat /\ Len(K) \in Nat /\ Len(L) <= Len(K)
    /\ \A i \in 1 .. Len(L) : K[i] = L[i]
    /\ \A i \in Len(L) + 1 .. Len(K) : Address(K[i].at)

(* From N on to K, the log gives the places in C back.                     *)
Logged(C, N, K) ==
    /\ Shape(K) /\ Longer(N.log, K.log)
    /\ \A at \in C : Restores(K.log, Len(N.log), Len(K.log), at, Peek(K, at), Peek(N, at))

LEMMA LogLength ==
  ASSUME NEW N, Shape(N)
  PROVE  Len(N.log) \in Nat /\ DOMAIN N.log = 1 .. Len(N.log)
<1>1. PICK S : N.log \in Seq(S)
  BY DEF Shape, IsLog
<1> QED BY <1>1

LEMMA LoggedSelf ==
  ASSUME NEW N, Shape(N), NEW C
  PROVE  Logged(C, N, N)
BY LogLength DEF Logged, Longer, Restores, Unpushed

LEMMA LoggedLess ==
  ASSUME NEW N, NEW K, NEW C, NEW D \in SUBSET C, Logged(C, N, K)
  PROVE  Logged(D, N, K)
BY DEF Logged

LEMMA RestoresOver ==
  ASSUME NEW L, NEW K, Prolonged(L, K), NEW b \in Nat, b <= Len(L), NEW at, NEW now, NEW then, NEW before,
         Restores(L, b, Len(L), at, then, before), Restores(K, Len(L), Len(K), at, now, then)
  PROVE  Restores(K, b, Len(K), at, now, before)
<1> DEFINE m == Len(L)  n == Len(K)
<1>1. m \in Nat /\ n \in Nat /\ m <= n /\ \A i \in 1 .. m : K[i] = L[i]
  BY DEF Prolonged
<1>2. CASE PushedFirst(L, b, m, at, before)
  <2>1. PICK i \in b + 1 .. m : L[i].at = at /\ L[i].was = before /\ Unpushed(L, b, i - 1, at)
    BY <1>2 DEF PushedFirst
  <2>2. i \in b + 1 .. n /\ K[i] = L[i] /\ \A j \in b + 1 .. i - 1 : K[j] = L[j]
    BY <1>1, <2>1
  <2> QED BY <2>1, <2>2 DEF Restores, PushedFirst, Unpushed
<1>3. CASE Unpushed(L, b, m, at) /\ then = before
  <2>1. Unpushed(K, b, m, at)
    BY <1>1, <1>3 DEF Unpushed
  <2>2. \A k \in m .. n : Unpushed(K, m, k, at) => Unpushed(K, b, k, at)
    BY <1>1, <2>1 DEF Unpushed
  <2>3. CASE Unpushed(K, m, n, at) /\ now = then
    BY <1>1, <1>3, <2>2, <2>3 DEF Restores
  <2>4. CASE PushedFirst(K, m, n, at, then)
    <3>1. PICK i \in m + 1 .. n : K[i].at = at /\ K[i].was = then /\ Unpushed(K, m, i - 1, at)
      BY <2>4 DEF PushedFirst
    <3>2. i - 1 \in m .. n /\ i \in b + 1 .. n
      BY <1>1, <3>1
    <3> QED BY <1>3, <2>2, <3>1, <3>2 DEF Restores, PushedFirst
  <2> QED BY <2>3, <2>4 DEF Restores
<1> QED BY <1>2, <1>3 DEF Restores

LEMMA RestoresOn ==
  ASSUME NEW L, NEW K, Longer(L, K), NEW b \in Nat, b <= Len(L), NEW at, NEW now, NEW then, NEW before,
         Restores(L, b, Len(L), at, then, before), Restores(K, Len(L), Len(K), at, now, then)
  PROVE  Restores(K, b, Len(K), at, now, before)
BY RestoresOver DEF Longer, Prolonged

LEMMA LongerStill ==
  ASSUME NEW L, NEW K, NEW J, Longer(L, K), Longer(K, J)
  PROVE  Longer(L, J)
<1>1. \A i \in Len(L) + 1 .. Len(J) : i \in Len(L) + 1 .. Len(K) \/ i \in Len(K) + 1 .. Len(J)
  BY DEF Longer
<1>2. \A i \in 1 .. Len(K) : J[i] = K[i]
  BY DEF Longer
<1>3. \A i \in Len(L) + 1 .. Len(K) : i \in 1 .. Len(K)
  BY DEF Longer
<1>4. \A i \in Len(L) + 1 .. Len(J) : Address(J[i].at)
  BY <1>1, <1>2, <1>3 DEF Longer
<1> QED BY <1>2, <1>4 DEF Longer

LEMMA LoggedOn ==
  ASSUME NEW N, NEW K, NEW J, NEW C, Logged(C, N, K), Logged(C, K, J)
  PROVE  Logged(C, N, J)
<1>1. Longer(N.log, J.log) /\ Shape(J)
  BY LongerStill DEF Logged
<1>2. ASSUME NEW at \in C
      PROVE  Restores(J.log, Len(N.log), Len(J.log), at, Peek(J, at), Peek(N, at))
  <2>1. Len(N.log) \in Nat /\ Len(N.log) <= Len(N.log) /\ Len(K.log) \in Nat /\ Len(N.log) <= Len(K.log)
    BY DEF Logged, Longer
  <2> QED BY <2>1, RestoresOn DEF Logged
<1> QED BY <1>1, <1>2 DEF Logged

LEMMA PushLogged ==
  ASSUME NEW N, Shape(N), NEW at, Address(at)
  PROVE  Logged(Places, N, Push(N, at))
<1> DEFINE K == Push(N, at)  n == Len(N.log)
<1>0. /\ IsLog(N.log) /\ K.log = Append(N.log, [at |-> at, was |-> Peek(N, at)])
      /\ \A f \in Fields \ {"log"} : K[f] = N[f]
  <2>1. IsLog(N.log)
    BY DEF Shape
  <2> QED BY <2>1, PushIs
<1>1. n \in Nat /\ Len(K.log) = n + 1 /\ (\A i \in 1 .. n : K.log[i] = N.log[i])
      /\ K.log[n + 1] = [at |-> at, was |-> Peek(N, at)]
  <2> HIDE DEF K
  <2> QED BY <1>0, LogGrows
<1>2. Longer(N.log, K.log)
  BY <1>1 DEF Longer
<1>3. ASSUME NEW c \in Places PROVE Restores(K.log, n, n + 1, c, Peek(K, c), Peek(N, c))
  <2>1. Peek(K, c) = Peek(N, c)
    <3>1. K[c[1]] = N[c[1]]
      <4>1. c[1] \in Fields \ {"log"}
        BY FieldOf DEF Address
      <4> HIDE DEF K
      <4> QED BY <1>0, <4>1
    <3> QED BY <3>1, PeekSame
  <2>2. CASE c = at
    <3>1. n + 1 \in n + 1 .. n + 1 /\ Unpushed(K.log, n, n + 1 - 1, c)
      BY <1>1 DEF Unpushed
    <3>2. K.log[n + 1].at = c /\ K.log[n + 1].was = Peek(N, c)
      BY <1>1, <2>2
    <3> QED BY <3>1, <3>2 DEF Restores, PushedFirst
  <2>3. CASE c # at
    <3>1. Unpushed(K.log, n, n + 1, c)
      BY <1>1, <2>3 DEF Unpushed
    <3> QED BY <2>1, <3>1 DEF Restores
  <2> QED BY <2>2, <2>3
<1> QED BY <1>1, <1>2, <1>3, PushIs DEF Logged

(* What is written after it was pushed, or what does not have to come      *)
(* back.                                                                   *)
LEMMA PokeLogged ==
  ASSUME NEW B, NEW N, NEW C \in SUBSET Places, Logged(C, B, N), NEW at, Address(at), NEW v,
         at \in C => \E i \in Len(B.log) + 1 .. Len(N.log) : N.log[i].at = at
  PROVE  Logged(C, B, Poke(N, at, v))
<1> DEFINE K == Poke(N, at, v)
<1>1. Shape(K) /\ K.log = N.log /\ \A c \in Places : Peek(K, c) = IF c = at THEN v ELSE Peek(N, c)
  BY PokeIs DEF Logged
<1>2. ASSUME NEW c \in C PROVE Restores(K.log, Len(B.log), Len(K.log), c, Peek(K, c), Peek(B, c))
  <2>1. CASE c = at
    <3>1. ~Unpushed(N.log, Len(B.log), Len(N.log), c)
      BY <2>1 DEF Unpushed
    <3> QED BY <1>1, <3>1 DEF Logged, Restores
  <2>2. CASE c # at
    BY <1>1, <2>2 DEF Logged
  <2> QED BY <2>1, <2>2
<1> QED BY <1>1, <1>2 DEF Logged

LEMMA AssignLogged ==
  ASSUME NEW N, Shape(N), NEW at, Address(at), NEW v
  PROVE  /\ Logged(Places, N, Assign(N, at, v))
         /\ \A f \in Fields \ {"log", at[1]} : Assign(N, at, v)[f] = N[f]
         /\ \A c \in Places : Peek(Assign(N, at, v), c) = IF c = at THEN v ELSE Peek(N, c)
<1> DEFINE K == Push(N, at)
<1>0. IsLog(N.log) /\ K.log = Append(N.log, [at |-> at, was |-> Peek(N, at)])
  BY PushIs DEF Shape
<1>1. Logged(Places, N, K) /\ Shape(K)
  BY PushLogged, PushIs
<1>2. Len(N.log) + 1 \in Len(N.log) + 1 .. Len(K.log) /\ K.log[Len(N.log) + 1].at = at
  <2> HIDE DEF K
  <2> QED BY <1>0, LogGrows
<1>3. Logged(Places, N, Poke(K, at, v))
  <2> HIDE DEF K
  <2> QED BY <1>1, <1>2, PokeLogged
<1>4. \A f \in Fields \ {"log", at[1]} : Poke(K, at, v)[f] = N[f]
  <2>1. \A f \in Fields \ {at[1]} : Poke(K, at, v)[f] = K[f]
    <3> HIDE DEF K
    <3> QED BY <1>1, PokeIs
  <2>2. \A f \in Fields \ {"log"} : K[f] = N[f]
    BY PushIs
  <2> HIDE DEF K
  <2> QED BY <2>1, <2>2
<1>5. ASSUME NEW c \in Places PROVE Peek(Poke(K, at, v), c) = IF c = at THEN v ELSE Peek(N, c)
  <2>1. Peek(Poke(K, at, v), c) = IF c = at THEN v ELSE Peek(K, c)
    <3> HIDE DEF K
    <3> QED BY <1>1, PokeIs
  <2>2. Peek(K, c) = Peek(N, c)
    <3>1. c[1] \in Fields \ {"log"}
      BY FieldOf DEF Address
    <3>2. \A f \in Fields \ {"log"} : K[f] = N[f]
      BY PushIs
    <3> HIDE DEF K
    <3> QED BY <3>1, <3>2, PeekSame
  <2> QED BY <2>1, <2>2
<1> QED BY <1>3, <1>4, <1>5 DEF Assign

-----------------------------------------------------------------------------
(* From N on to K, everything comes back, and only the fields F and the    *)
(* log are written.                                                        *)
Only(F, N, K) == Logged(Places, N, K) /\ \A f \in Fields \ (F \cup {"log"}) : K[f] = N[f]

LEMMA OnlySelf ==
  ASSUME NEW N, Shape(N), NEW F
  PROVE  Only(F, N, N)
BY LoggedSelf DEF Only

LEMMA OnlyOn ==
  ASSUME NEW N, NEW K, NEW J, NEW F, NEW G, Only(F, N, K), Only(G, K, J)
  PROVE  Only(F \cup G, N, J)
BY LoggedOn DEF Only

LEMMA OnlyShape ==
  ASSUME NEW N, NEW K, NEW F, Only(F, N, K)
  PROVE  Shape(K)
BY DEF Only, Logged

LEMMA PushOnly ==
  ASSUME NEW N, Shape(N), NEW at, Address(at)
  PROVE  Only({}, N, Push(N, at))
<1>1. \A f \in Fields \ {"log"} : Push(N, at)[f] = N[f]
  BY PushIs
<1> QED BY <1>1, PushLogged DEF Only

Lists == {"liberties", "lib", "neighbors", "nb"}

(* No place is in these fields, so that they may be written as they are.   *)
LEMMA FieldsWritten ==
  ASSUME NEW N, Shape(N), NEW F \in SUBSET (Listed \cup {"hash"}),
         NEW K, K = [f \in Fields |-> K[f]], \A f \in Fields \ F : K[f] = N[f], \A f \in F : Formed(f, K[f])
  PROVE  Only(F, N, K)
<1>1. K.log = N.log /\ IsLog(N.log)
  BY DEF Fields, Listed, Shape
<1>2. Shape(K) /\ K.log = N.log
  <2>1. \A f \in Fields : Formed(f, K[f])
    BY DEF Shape
  <2> QED BY <1>1, <2>1 DEF Shape
<1>3. ASSUME NEW at \in Places PROVE Peek(K, at) = Peek(N, at)
  <2>1. at[1] \in Fields \ F
    BY DEF Places, Fields, Listed
  <2> QED BY <2>1, PeekSame
<1>4. \A f \in Fields \ (F \cup {"log"}) : K[f] = N[f]
  OBVIOUS
<1> QED BY <1>2, <1>3, <1>4, LogLength DEF Only, Logged, Longer, Restores, Unpushed

LEMMA ListsWritten ==
  ASSUME NEW N, Shape(N), NEW K, K = [f \in Fields |-> K[f]], \A f \in Fields \ Lists : K[f] = N[f],
         \A f \in Lists : Formed(f, K[f])
  PROVE  Only(Lists, N, K)
<1>1. Lists \in SUBSET (Listed \cup {"hash"})
  BY DEF Lists, Listed
<1> QED BY <1>1, FieldsWritten

LEMMA HashWritten ==
  ASSUME NEW N, Shape(N), NEW h
  PROVE  Only({"hash"}, N, [N EXCEPT !.hash = h])
<1> DEFINE K == [N EXCEPT !.hash = h]
<1>1. N = [f \in Fields |-> N[f]] /\ "hash" \in Fields
  BY DEF Shape, Fields
<1>2. K = [f \in Fields |-> K[f]] /\ \A f \in Fields \ {"hash"} : K[f] = N[f]
  BY <1>1
<1>3. Formed("hash", K["hash"])
  BY FormedFlat DEF Over
<1> HIDE DEF K
<1> QED BY <1>2, <1>3, FieldsWritten DEF K

-----------------------------------------------------------------------------
Pushed(N, K, at) == \E i \in Len(N.log) + 1 .. Len(K.log) : K.log[i].at = at

LEMMA PushedStays ==
  ASSUME NEW N, NEW K, NEW J, NEW at, Pushed(N, K, at), Longer(K.log, J.log)
  PROVE  Pushed(N, J, at)
BY DEF Pushed, Longer

LEMMA PushPushes ==
  ASSUME NEW N, Shape(N), NEW K, Longer(N.log, K.log), Shape(K), NEW at
  PROVE  Pushed(N, Push(K, at), at)
<1> DEFINE J == Push(K, at)
<1>1. IsLog(K.log) /\ J.log = Append(K.log, [at |-> at, was |-> Peek(K, at)])
  BY PushIs DEF Shape
<1> HIDE DEF J
<1>2. Len(J.log) = Len(K.log) + 1 /\ Len(K.log) \in Nat /\ J.log[Len(K.log) + 1].at = at
  BY <1>1, LogGrows
<1>3. Len(K.log) + 1 \in Len(N.log) + 1 .. Len(J.log)
  BY <1>2 DEF Longer
<1> QED BY <1>2, <1>3 DEF Pushed, J

(* Where a stone is taken off, its number and its link were pushed.        *)
Vacated(N, K) ==
    \A p \in Points : N.board[p] # "empty" /\ K.board[p] = "empty"
                      => Pushed(N, K, <<"number", p>>) /\ Pushed(N, K, <<"next", p>>)

LEMMA PushedOver ==
  ASSUME NEW N, NEW K, NEW J, NEW at, Pushed(N, K, at) \/ Pushed(K, J, at),
         Prolonged(N.log, K.log), Prolonged(K.log, J.log)
  PROVE  Pushed(N, J, at)
<1>1. CASE Pushed(N, K, at)
  BY <1>1 DEF Pushed, Prolonged
<1>2. CASE Pushed(K, J, at)
  BY <1>2 DEF Pushed, Prolonged
<1> QED BY <1>1, <1>2

LEMMA VacatedSame ==
  ASSUME NEW N, NEW K, K.board = N.board
  PROVE  Vacated(N, K)
BY DEF Vacated

LEMMA VacatedOver ==
  ASSUME NEW N, NEW K, NEW J, Vacated(N, K), Vacated(K, J), Prolonged(N.log, K.log), Prolonged(K.log, J.log)
  PROVE  Vacated(N, J)
<1> SUFFICES ASSUME NEW p \in Points, N.board[p] # "empty", J.board[p] = "empty"
             PROVE  Pushed(N, J, <<"number", p>>) /\ Pushed(N, J, <<"next", p>>)
  BY DEF Vacated
<1> DEFINE c1 == <<"number", p>>  c2 == <<"next", p>>
<1>1. \/ Pushed(N, K, c1) /\ Pushed(N, K, c2)
      \/ Pushed(K, J, c1) /\ Pushed(K, J, c2)
  BY DEF Vacated
<1> HIDE DEF c1, c2
<1>2. Pushed(N, J, c1) /\ Pushed(N, J, c2)
  BY <1>1, PushedOver
<1> QED BY <1>2 DEF c1, c2

LEMMA VacatedOn ==
  ASSUME NEW N, NEW K, NEW J, Vacated(N, K), Vacated(K, J), Longer(N.log, K.log), Longer(K.log, J.log)
  PROVE  Vacated(N, J)
BY VacatedOver DEF Longer, Prolonged

PushTurn(a, b, c, v, x) == Push(v, x)
PushHolds(a, b, c, base, seq, k, v) ==
    Only({}, base, v) /\ \A j \in DOMAIN seq : j <= k => Pushed(base, v, seq[j])
Pushes == INSTANCE Recursion WITH Turn <- PushTurn, Holds <- PushHolds

LEMMA PushAllIs ==
  ASSUME NEW N, Shape(N), NEW n \in Nat, NEW ats, DOMAIN ats \subseteq 1 .. n,
         \A k \in DOMAIN ats : Address(ats[k])
  PROVE  Only({}, N, PushAll(N, ats)) /\ \A k \in DOMAIN ats : Pushed(N, PushAll(N, ats), ats[k])
<1>1. PushAll(N, ats) = Pushes!Loop(0, 0, 0, N, ats)
  BY DEF PushAll, PushTurn, FoldLeft, MapThenFoldSet, Max, Pushes!Greatest, Pushes!Loop, Pushes!Rest, Pushes!RestOver
<1>2. PushHolds(0, 0, 0, N, ats, 0, N)
  BY OnlySelf DEF PushHolds
<1>3. ASSUME NEW k \in 1 .. n, NEW v, PushHolds(0, 0, 0, N, ats, k - 1, v)
      PROVE  /\ k \in DOMAIN ats => PushHolds(0, 0, 0, N, ats, k, PushTurn(0, 0, 0, v, ats[k]))
             /\ k \notin DOMAIN ats => PushHolds(0, 0, 0, N, ats, k, v)
  <2>1. Only({}, N, v) /\ Shape(v)
    BY <1>3, OnlyShape DEF PushHolds
  <2>2. ASSUME k \in DOMAIN ats PROVE PushHolds(0, 0, 0, N, ats, k, Push(v, ats[k]))
    <3> DEFINE w == Push(v, ats[k])
    <3>1. Only({}, v, w) /\ Longer(v.log, w.log)
      BY <2>1, <2>2, PushOnly DEF Only, Logged
    <3>2. Only({} \cup {}, N, w)
      BY <2>1, <3>1, OnlyOn
    <3>3. Longer(N.log, v.log)
      BY <2>1 DEF Only, Logged
    <3>4. Pushed(N, w, ats[k])
      BY <2>1, <3>3, PushPushes
    <3> HIDE DEF w
    <3>5. ASSUME NEW j \in DOMAIN ats, j <= k PROVE Pushed(N, w, ats[j])
      <4>1. CASE j = k
        BY <3>4, <4>1
      <4>2. CASE j # k
        <5>1. j <= k - 1
          BY <3>5, <4>2
        <5> QED BY <1>3, <3>1, <5>1, PushedStays DEF PushHolds
      <4> QED BY <4>1, <4>2
    <3> QED BY <3>2, <3>5 DEF PushHolds, w
  <2>3. ASSUME k \notin DOMAIN ats PROVE PushHolds(0, 0, 0, N, ats, k, v)
    <3>1. \A j \in DOMAIN ats : j <= k => j <= k - 1
      BY <2>3
    <3> QED BY <1>3, <3>1 DEF PushHolds
  <2> QED BY <2>2, <2>3 DEF PushTurn
<1>4. PushHolds(0, 0, 0, N, ats, n, Pushes!Loop(0, 0, 0, N, ats))
  BY <1>2, <1>3, Pushes!LoopKeeps
<1>5. \A k \in DOMAIN ats : k <= n
  OBVIOUS
<1> QED BY <1>1, <1>4, <1>5 DEF PushHolds

-----------------------------------------------------------------------------
(* The lists of a string.                                                  *)
LEMMA UpdateLibertiesIs ==
  ASSUME NEW N, Shape(N), NEW s
  PROVE  Only(Lists, N, UpdateLiberties(N, s))
<1> DEFINE old == [k \in DOMAIN LibertyList(N, s) |-> <<"lib", s, k>>]
           K == Push(N, <<"liberties", s>>)
           J == PushAll(K, old)
           libs == EmptyAround(N, Chain(N, s))
           I == WithLiberties(J, s, libs)
<1>1. Address(<<"liberties", s>>) /\ \A k : Address(<<"lib", s, k>>)
  BY DEF Address, Over, Within
<1>2. Only({}, N, K) /\ Shape(K)
  BY <1>1, PushOnly, PushIs
<1>3. MaxLiberties \in Nat /\ DOMAIN old \subseteq 1 .. MaxLiberties /\ \A k \in DOMAIN old : Address(old[k])
  BY <1>1, StringAssumption DEF LibertyList
<1> HIDE DEF old, K
<1>4. Only({}, K, J) /\ Shape(J)
  BY <1>2, <1>3, PushAllIs, OnlyShape
<1> HIDE DEF J, libs
<1>5. Only(Lists, J, I)
  <2>1. J = [f \in Fields |-> J[f]]
    BY <1>4 DEF Shape
  <2> DEFINE list == [k \in 1 .. MaxLiberties |-> IF k <= Len(libs) THEN libs[k] ELSE J["lib"][s][k]]
  <2>2. /\ I = [f \in Fields |-> I[f]] /\ \A f \in Fields \ {"liberties", "lib"} : I[f] = J[f]
        /\ I["liberties"] = [J["liberties"] EXCEPT ![s] = Len(libs)]
        /\ I["lib"] = [J["lib"] EXCEPT ![s] = list]
    BY <2>1 DEF WithLiberties, Fields
  <2>3. Lists \subseteq Fields /\ "liberties" \in DOMAIN Over \ DOMAIN Within /\ "lib" \in DOMAIN Within
        /\ {"liberties", "lib"} \subseteq Lists /\ Within["lib"] = 1 .. MaxLiberties
    BY DEF Lists, Fields, Over, Within
  <2>4. \A f \in Lists : Formed(f, J[f])
    BY <1>4, <2>3 DEF Shape
  <2>5. list = [k \in Within["lib"] |-> list[k]]
    BY <2>3
  <2> HIDE DEF I, list
  <2>6. Formed("lib", I["lib"])
    <3>1. /\ I["lib"] = [z \in DOMAIN J["lib"] |-> I["lib"][z]]
          /\ \A z \in Slots : I["lib"][z] = J["lib"][z] \/ I["lib"][z] = [k \in Within["lib"] |-> I["lib"][z][k]]
      <4>1. \A z \in Slots : z \in DOMAIN J["lib"]
        BY <2>3, <2>4 DEF Formed, Over
      <4>2. \A z \in Slots : I["lib"][z] = IF z = s THEN list ELSE J["lib"][z]
        BY <2>2, <4>1
      <4> QED BY <2>2, <2>5, <4>2
    <3>2. Formed("lib", J["lib"]) /\ "lib" \in DOMAIN Within
      BY <2>3, <2>4
    <3> QED BY <3>1, <3>2, FormedList
  <2>7. Formed("liberties", I["liberties"])
    BY <2>2, <2>3, <2>4, FormedEntry
  <2>8. \A f \in Lists : Formed(f, I[f])
    BY <2>2, <2>3, <2>4, <2>6, <2>7
  <2> QED BY <1>4, <2>2, <2>3, <2>8, ListsWritten
<1> HIDE DEF I
<1>6. Only({} \cup ({} \cup Lists), N, I)
  BY <1>2, <1>4, <1>5, OnlyOn
<1>7. UpdateLiberties(N, s) = I
  BY DEF UpdateLiberties, I, J, K, old, libs
<1> QED BY <1>6, <1>7

LEMMA AddLibertyIs ==
  ASSUME NEW N, Shape(N), NEW s, NEW q
  PROVE  Only(Lists, N, AddLiberty(N, s, q))
<1> DEFINE K == AddLiberty(N, s, q)
<1>1. N = [f \in Fields |-> N[f]]
  BY DEF Shape
<1> DEFINE n == N["liberties"][s]
           list == IF n < MaxLiberties THEN [N["lib"][s] EXCEPT ![n + 1] = q] ELSE N["lib"][s]
<1>2. /\ K = [f \in Fields |-> K[f]] /\ \A f \in Fields \ {"liberties", "lib"} : K[f] = N[f]
      /\ K["liberties"] = [N["liberties"] EXCEPT ![s] = n + 1]
      /\ K["lib"] = [N["lib"] EXCEPT ![s] = list]
  BY <1>1 DEF AddLiberty, Fields
<1>3. Lists \subseteq Fields /\ "liberties" \in DOMAIN Over \ DOMAIN Within /\ "lib" \in DOMAIN Within
      /\ {"liberties", "lib"} \subseteq Lists
  BY DEF Lists, Fields, Over, Within
<1>4. \A f \in Lists : Formed(f, N[f])
  BY <1>3 DEF Shape
<1>5. s \in Slots => list = [k \in Within["lib"] |-> list[k]]
  <2> DEFINE D == Within["lib"]
  <2>1. s \in Slots => N["lib"][s] = [k \in D |-> N["lib"][s][k]]
    BY <1>3, ShapeList
  <2> HIDE DEF D, n
  <2>2. s \in Slots => list = [k \in D |-> list[k]]
    BY <2>1
  <2> QED BY <2>2 DEF D
<1> HIDE DEF K, list, n
<1>6. Formed("lib", K["lib"])
  <2>1. \A z \in Slots : z \in DOMAIN N["lib"]
    BY <1>3, <1>4 DEF Formed, Over
  <2>2. \A z \in Slots : K["lib"][z] = IF z = s THEN list ELSE N["lib"][z]
    BY <1>2, <2>1
  <2>3. /\ K["lib"] = [z \in DOMAIN N["lib"] |-> K["lib"][z]]
        /\ \A z \in Slots : K["lib"][z] = N["lib"][z] \/ K["lib"][z] = [k \in Within["lib"] |-> K["lib"][z][k]]
    BY <1>2, <1>5, <2>2
  <2> QED BY <1>3, <1>4, <2>3, FormedList
<1>7. Formed("liberties", K["liberties"])
  BY <1>2, <1>3, <1>4, FormedEntry
<1>8. \A f \in Lists : Formed(f, K[f])
  BY <1>2, <1>3, <1>4, <1>6, <1>7
<1> QED BY <1>2, <1>3, <1>8, ListsWritten DEF K

LEMMA AddNeighborIs ==
  ASSUME NEW N, Shape(N), NEW s, NEW t
  PROVE  Only(Lists, N, AddNeighbor(N, s, t))
<1> DEFINE K == AddNeighbor(N, s, t)
<1>1. N = [f \in Fields |-> N[f]]
  BY DEF Shape
<1> DEFINE n == N["neighbors"][s]
<1>2. /\ K = [f \in Fields |-> K[f]] /\ \A f \in Fields \ {"neighbors", "nb"} : K[f] = N[f]
      /\ K["neighbors"] = [N["neighbors"] EXCEPT ![s] = n + 1]
      /\ K["nb"] = [N["nb"] EXCEPT ![s] = [N["nb"][s] EXCEPT ![n + 1] = t]]
  BY <1>1 DEF AddNeighbor, Fields
<1>3. Lists \subseteq Fields /\ "neighbors" \in DOMAIN Over \ DOMAIN Within /\ "nb" \in DOMAIN Within
      /\ {"neighbors", "nb"} \subseteq Lists
  BY DEF Lists, Fields, Over, Within
<1>4. \A f \in Lists : Formed(f, N[f])
  BY <1>3 DEF Shape
<1> HIDE DEF K, n
<1>6. Formed("nb", K["nb"])
  <2>1. \A z \in Slots : z \in DOMAIN N["nb"] /\ N["nb"][z] = [j \in DOMAIN N["nb"][z] |-> N["nb"][z][j]]
    BY <1>3, ListDomains
  <2>2. /\ K["nb"] = [z \in DOMAIN N["nb"] |-> K["nb"][z]]
        /\ \A z \in Slots : K["nb"][z] = [j \in DOMAIN N["nb"][z] |-> K["nb"][z][j]]
    BY <1>2, <2>1
  <2> QED BY <1>3, <1>4, <2>2, FormedListEntry
<1>7. Formed("neighbors", K["neighbors"])
  BY <1>2, <1>3, <1>4, FormedEntry
<1>8. \A f \in Lists : Formed(f, K[f])
  BY <1>2, <1>3, <1>4, <1>6, <1>7
<1> QED BY <1>2, <1>3, <1>8, ListsWritten DEF K

LEMMA ListsOn ==
  ASSUME NEW N, NEW K, NEW J, Only(Lists, N, K), Only(Lists, K, J)
  PROVE  Only(Lists, N, J)
<1>1. Only(Lists \cup Lists, N, J)
  BY OnlyOn
<1> QED BY <1>1

LEMMA OnlyMore ==
  ASSUME NEW N, NEW K, NEW F, NEW G, F \subseteq G, Only(F, N, K)
  PROVE  Only(G, N, K)
BY DEF Only

LEMMA MeetIs ==
  ASSUME NEW N, Shape(N), NEW s, NEW t
  PROVE  Only(Lists, N, Meet(N, s, t))
<1> DEFINE K == AddNeighbor(N, s, t)
           J == Push(K, <<"neighbors", t>>)
           I == AddNeighbor(J, t, s)
<1>1. Only(Lists, N, K) /\ Shape(K)
  BY AddNeighborIs, OnlyShape
<1> HIDE DEF K
<1>2. Address(<<"neighbors", t>>)
  BY DEF Address, Over, Within
<1>3. Only(Lists, K, J) /\ Shape(J)
  <2>1. Only({}, K, J) /\ Shape(J)
    BY <1>1, <1>2, PushOnly, PushIs
  <2> HIDE DEF J
  <2> QED BY <2>1, OnlyMore
<1> HIDE DEF J
<1>4. Only(Lists, J, I)
  BY <1>3, AddNeighborIs
<1> HIDE DEF I
<1>5. Only(Lists, N, I)
  BY <1>1, <1>3, <1>4, ListsOn
<1>6. Meet(N, s, t) = I
  BY DEF Meet, I, J, K
<1> QED BY <1>5, <1>6

LEMMA RemoveFromIs ==
  ASSUME NEW N, Shape(N), NEW list \in {"lib", "nb"}, NEW count \in {"liberties", "neighbors"}, NEW s, NEW k
  PROVE  Only(Lists, N, RemoveFrom(N, list, count, s, k))
<1> DEFINE n == N[count][s]
           ats == <<<<list, s, n>>, <<list, s, k>>, <<count, s>>>>
           K == PushAll(N, ats)
           J == [K EXCEPT ![list][s][k] = N[list][s][n], ![count][s] = n - 1]
<1>1. Address(<<count, s>>) /\ \A x : Address(<<list, s, x>>)
  BY DEF Address, Over, Within
<1>2. DOMAIN ats \subseteq 1 .. 3 /\ \A x \in DOMAIN ats : Address(ats[x])
  BY <1>1
<1> HIDE DEF ats
<1>3. Only(Lists, N, K) /\ Shape(K)
  <2>1. Only({}, N, K)
    BY <1>2, PushAllIs
  <2> QED BY <2>1, OnlyMore, OnlyShape
<1> HIDE DEF K
<1>4. Only(Lists, K, J)
  <2>1. /\ K = [f \in Fields |-> K[f]] /\ list \in Fields /\ count \in Fields /\ count # list
        /\ list \in Lists /\ count \in Lists /\ Lists \subseteq Fields
    BY <1>3 DEF Shape, Fields, Lists
  <2>2. /\ J = [f \in Fields |-> J[f]] /\ \A f \in Fields \ {list, count} : J[f] = K[f]
        /\ J[list] = [K[list] EXCEPT ![s] = [K[list][s] EXCEPT ![k] = N[list][s][n]]]
        /\ J[count] = [K[count] EXCEPT ![s] = n - 1]
    BY <2>1
  <2>3. list \in DOMAIN Within /\ count \in DOMAIN Over \ DOMAIN Within
    BY DEF Within, Over
  <2>4. \A f \in Lists : Formed(f, K[f])
    BY <1>3, <2>1 DEF Shape
  <2> HIDE DEF J, n
  <2>5. Formed(list, J[list])
    <3>1. \A z \in Slots : z \in DOMAIN K[list] /\ K[list][z] = [j \in DOMAIN K[list][z] |-> K[list][z][j]]
      BY <1>3, <2>3, ListDomains
    <3>2. /\ J[list] = [z \in DOMAIN K[list] |-> J[list][z]]
          /\ \A z \in Slots : J[list][z] = [j \in DOMAIN K[list][z] |-> J[list][z][j]]
      BY <2>2, <3>1
    <3> QED BY <2>1, <2>3, <2>4, <3>2, FormedListEntry
  <2>6. Formed(count, J[count])
    BY <2>1, <2>2, <2>3, <2>4, FormedEntry
  <2>7. \A f \in Lists : Formed(f, J[f])
    BY <2>1, <2>2, <2>4, <2>5, <2>6
  <2> QED BY <1>3, <2>1, <2>2, <2>7, ListsWritten
<1> HIDE DEF J
<1>5. Only(Lists, N, J)
  BY <1>3, <1>4, ListsOn
<1>6. RemoveFrom(N, list, count, s, k) = J
  BY DEF RemoveFrom, J, K, ats
<1> QED BY <1>5, <1>6

LEMMA RemoveNeighborIs ==
  ASSUME NEW N, Shape(N), NEW s, NEW t
  PROVE  Only(Lists, N, RemoveNeighbor(N, s, t))
BY RemoveFromIs DEF RemoveNeighbor

LEMMA RemoveLibertyIs ==
  ASSUME NEW N, Shape(N), NEW s, NEW q
  PROVE  Only(Lists, N, RemoveLiberty(N, s, q))
<1>2. \A k : Only(Lists, N, RemoveFrom(N, "lib", "liberties", s, k))
  BY RemoveFromIs
<1>3. Only(Lists, N, N) /\ Only(Lists, N, UpdateLiberties(N, s))
  BY OnlySelf, UpdateLibertiesIs
<1> QED BY <1>2, <1>3 DEF RemoveLiberty

-----------------------------------------------------------------------------
(* A string is taken off the board.                                        *)
LEMMA ChainEntries ==
  ASSUME NEW N, NEW s
  PROVE  Cardinality(Points) \in Nat /\ DOMAIN Chain(N, s) \subseteq 1 .. Cardinality(Points)
<1>1. Cardinality(Points) \in Nat
  BY PointsAssumption, FS_CardinalityType
<1> QED BY <1>1 DEF Chain

LEMMA ListEntries ==
  ASSUME NEW N, NEW s
  PROVE  /\ MaxStrings \in Nat /\ DOMAIN NeighborList(N, s) \subseteq 1 .. MaxStrings
         /\ MaxLiberties \in Nat /\ DOMAIN LibertyList(N, s) \subseteq 1 .. MaxLiberties
BY StringAssumption DEF NeighborList, LibertyList

LEMMA RemoveStoneIs ==
  ASSUME NEW N, Shape(N), NEW p
  PROVE  Only({"board", "hash"}, N, RemoveStone(N, p)) /\ Vacated(N, RemoveStone(N, p))
<1> DEFINE c1 == <<"number", p>>
           c2 == <<"next", p>>
           ats == <<c1, c2>>
           at == <<"board", p>>
           K == PushAll(N, ats)
           J == Assign(K, at, "empty")
           I == [J EXCEPT !.hash = SymDiff(@, {StoneHash(p, N.board[p])})]
<1>1. /\ Address(c1) /\ Address(c2) /\ Address(at) /\ at[1] = "board"
      /\ DOMAIN ats = 1 .. 2 /\ ats[1] = c1 /\ ats[2] = c2
  BY DEF Address, Over, Within
<1>2. \A q \in Points : <<"board", q>> \in Places /\ (<<"board", q>> = at => q = p)
  BY DEF Places
<1>7. RemoveStone(N, p) = I
  BY DEF RemoveStone
<1> HIDE DEF ats, c1, c2, at
<1>3. Only({}, N, K) /\ Shape(K) /\ Pushed(N, K, c1) /\ Pushed(N, K, c2)
  <2>1. DOMAIN ats \subseteq 1 .. 2 /\ \A x \in DOMAIN ats : Address(ats[x])
    BY <1>1
  <2>2. Only({}, N, K) /\ \A x \in DOMAIN ats : Pushed(N, K, ats[x])
    BY <2>1, PushAllIs
  <2> QED BY <1>1, <2>2, OnlyShape
<1> HIDE DEF K
<1>4. Only({"board"}, K, J) /\ Shape(J) /\ \A c \in Places : Peek(J, c) = IF c = at THEN "empty" ELSE Peek(K, c)
  <2>1. Logged(Places, K, J) /\ \A f \in Fields \ {"log", "board"} : J[f] = K[f]
    BY <1>1, <1>3, AssignLogged
  <2>2. \A c \in Places : Peek(J, c) = IF c = at THEN "empty" ELSE Peek(K, c)
    BY <1>1, <1>3, AssignLogged
  <2> QED BY <2>1, <2>2 DEF Only, Logged
<1> HIDE DEF J
<1>5. Only({"hash"}, J, I)
  BY <1>4, HashWritten
<1> HIDE DEF I
<1>6. Only({} \cup ({"board"} \cup {"hash"}), N, I)
  BY <1>3, <1>4, <1>5, OnlyOn
<1>8. Vacated(N, I)
  <2> SUFFICES ASSUME NEW q \in Points, N.board[q] # "empty", I.board[q] = "empty"
               PROVE  Pushed(N, I, <<"number", q>>) /\ Pushed(N, I, <<"next", q>>)
    BY DEF Vacated
  <2>1. I.board = J.board /\ K.board = N.board
    <3>1. "board" \in Fields \ ({"hash"} \cup {"log"}) /\ "board" \in Fields \ ({} \cup {"log"})
      BY DEF Fields
    <3> QED BY <1>3, <1>5, <3>1 DEF Only
  <2>2. Peek(J, <<"board", q>>) = J.board[q] /\ Peek(K, <<"board", q>>) = K.board[q]
    BY PeekIs
  <2>3. <<"board", q>> = at
    BY <1>2, <1>4, <2>1, <2>2
  <2>4. q = p
    BY <1>2, <2>3
  <2>5. Longer(K.log, I.log)
    BY <1>4, <1>5, LongerStill DEF Only, Logged
  <2>6. Pushed(N, I, c1) /\ Pushed(N, I, c2)
    BY <1>3, <2>5, PushedStays
  <2> QED BY <2>4, <2>6 DEF c1, c2
<1>9. {} \cup ({"board"} \cup {"hash"}) = {"board", "hash"}
  OBVIOUS
<1> QED BY <1>6, <1>7, <1>8, <1>9

StoneTurn(a, b, c, v, x) == RemoveStone(v, x)
StoneHolds(a, b, c, base, seq, k, v) == Only({"board", "hash"}, base, v) /\ Vacated(base, v)
StonesGo == INSTANCE Recursion WITH Turn <- StoneTurn, Holds <- StoneHolds

LEMMA RemoveStonesIs ==
  ASSUME NEW N, Shape(N), NEW n \in Nat, NEW chain, DOMAIN chain \subseteq 1 .. n
  PROVE  /\ Only({"board", "hash"}, N, FoldLeft(RemoveStone, N, chain))
         /\ Vacated(N, FoldLeft(RemoveStone, N, chain))
<1>1. FoldLeft(RemoveStone, N, chain) = StonesGo!Loop(0, 0, 0, N, chain)
  BY DEF StoneTurn, FoldLeft, MapThenFoldSet, Max,
         StonesGo!Greatest, StonesGo!Loop, StonesGo!Rest, StonesGo!RestOver
<1>2. StoneHolds(0, 0, 0, N, chain, 0, N)
  BY OnlySelf, VacatedSame DEF StoneHolds
<1>3. ASSUME NEW k \in 1 .. n, NEW v, StoneHolds(0, 0, 0, N, chain, k - 1, v)
      PROVE  /\ k \in DOMAIN chain => StoneHolds(0, 0, 0, N, chain, k, StoneTurn(0, 0, 0, v, chain[k]))
             /\ k \notin DOMAIN chain => StoneHolds(0, 0, 0, N, chain, k, v)
  <2>1. Only({"board", "hash"}, N, v) /\ Shape(v)
    BY <1>3, OnlyShape DEF StoneHolds
  <2> DEFINE w == RemoveStone(v, chain[k])
  <2>2. Only({"board", "hash"}, v, w) /\ Vacated(v, w)
    BY <2>1, RemoveStoneIs
  <2> HIDE DEF w
  <2>3. Only({"board", "hash"} \cup {"board", "hash"}, N, w)
    BY <2>1, <2>2, OnlyOn
  <2>4. Vacated(N, w)
    BY <1>3, <2>1, <2>2, VacatedOn DEF StoneHolds, Only, Logged
  <2> QED BY <1>3, <2>3, <2>4 DEF StoneHolds, StoneTurn, w
<1>4. StoneHolds(0, 0, 0, N, chain, n, StonesGo!Loop(0, 0, 0, N, chain))
  BY <1>2, <1>3, StonesGo!LoopKeeps
<1> QED BY <1>1, <1>4 DEF StoneHolds

Captured == {<<"captured", c>> : c \in Colors}

(* Places that are written come back if they were pushed before.           *)
LEMMA Written ==
  ASSUME NEW B, NEW N, NEW C, Logged(C, B, N), NEW K, Shape(K), K.log = N.log,
         \A at \in C : Peek(K, at) = Peek(N, at) \/ Pushed(B, N, at)
  PROVE  Logged(C, B, K)
<1>1. ASSUME NEW at \in C
      PROVE  Restores(K.log, Len(B.log), Len(K.log), at, Peek(K, at), Peek(B, at))
  <2>1. Restores(N.log, Len(B.log), Len(N.log), at, Peek(N, at), Peek(B, at))
    BY DEF Logged
  <2>2. CASE Peek(K, at) = Peek(N, at)
    BY <2>1, <2>2
  <2>3. CASE Pushed(B, N, at)
    <3>1. ~Unpushed(N.log, Len(B.log), Len(N.log), at)
      BY <2>3 DEF Unpushed, Pushed
    <3> QED BY <2>1, <3>1 DEF Restores
  <2> QED BY <2>2, <2>3
<1> QED BY <1>1 DEF Logged

(* The prisoners are not pushed: their places are not given back by what   *)
(* is logged here.                                                         *)
LEMMA CapturedWritten ==
  ASSUME NEW B, NEW N, NEW C \in SUBSET Places, Logged(C, B, N), NEW c, NEW x
  PROVE  LET K == [N EXCEPT !.captured[c] = x] IN
         Logged(C \ Captured, B, K) /\ \A f \in Fields \ {"captured"} : K[f] = N[f]
<1> DEFINE K == [N EXCEPT !.captured[c] = x]
<1>1. N = [f \in Fields |-> N[f]] /\ "captured" \in Fields
  BY DEF Logged, Shape, Fields
<1>2. /\ K = [f \in Fields |-> K[f]] /\ \A f \in Fields \ {"captured"} : K[f] = N[f]
      /\ K["captured"] = [N["captured"] EXCEPT ![c] = x]
  BY <1>1
<1> HIDE DEF K
<1>3. Shape(K) /\ K.log = N.log
  <2>1. "log" \in Fields \ {"captured"} /\ "captured" \in DOMAIN Over \ DOMAIN Within
    BY DEF Fields, Over, Within
  <2>2. Formed("captured", N["captured"]) /\ Shape(N) /\ IsLog(N.log)
    BY <1>1 DEF Logged, Shape
  <2>3. Formed("captured", K["captured"])
    BY <1>2, <2>1, <2>2, FormedEntry
  <2> QED BY <1>2, <2>1, <2>2, <2>3, ShapeWritten
<1>4. ASSUME NEW at \in C \ Captured PROVE Peek(K, at) = Peek(N, at)
  <2>1. at[1] \in Fields \ {"captured"}
    BY DEF Places, Fields, Captured
  <2> QED BY <1>2, <2>1, PeekSame
<1>5. Logged(C \ Captured, B, K)
  BY <1>3, <1>4 DEF Logged
<1> QED BY <1>2, <1>5 DEF K

(* The stones of string s of N come free for its neighbor t.               *)
GainTurn(N, s, t, v, q) ==
    IF Len(Chain(N, s)) = 1 \/ Touches(v, q, t, Other(N.color[s]), NoMove) THEN AddLiberty(v, t, q) ELSE v
ListsHold(a, b, c, base, seq, k, v) == Only(Lists, base, v)
Gains == INSTANCE Recursion WITH Turn <- GainTurn, Holds <- ListsHold

GainAll(N, s, t, v) ==
    FoldLeft(LAMBDA K, q : IF Len(Chain(N, s)) = 1 \/ Touches(K, q, t, Other(N.color[s]), NoMove)
                           THEN AddLiberty(K, t, q) ELSE K, v, Chain(N, s))

LEMMA ListsTurn ==
  ASSUME NEW base, NEW v, NEW w, Only(Lists, base, v), Shape(v) => Only(Lists, v, w)
  PROVE  Only(Lists, base, w)
BY OnlyShape, ListsOn

LEMMA GainAllIs ==
  ASSUME NEW N, NEW s, NEW t, NEW base, Shape(base)
  PROVE  Only(Lists, base, GainAll(N, s, t, base))
<1> DEFINE seq == Chain(N, s)  n == Cardinality(Points)
<1>1. GainAll(N, s, t, base) = Gains!Loop(N, s, t, base, seq)
  BY DEF GainAll, GainTurn, FoldLeft, MapThenFoldSet, Max,
         Gains!Greatest, Gains!Loop, Gains!Rest, Gains!RestOver
<1>2. ListsHold(N, s, t, base, seq, 0, base)
  BY OnlySelf DEF ListsHold
<1>3. n \in Nat /\ DOMAIN seq \subseteq 1 .. n
  BY ChainEntries
<1> HIDE DEF seq, n
<1>4. ASSUME NEW k \in 1 .. n, NEW v, ListsHold(N, s, t, base, seq, k - 1, v)
      PROVE  /\ k \in DOMAIN seq => ListsHold(N, s, t, base, seq, k, GainTurn(N, s, t, v, seq[k]))
             /\ k \notin DOMAIN seq => ListsHold(N, s, t, base, seq, k, v)
  <2>1. Only(Lists, base, v) /\ Shape(v)
    BY <1>4, OnlyShape DEF ListsHold
  <2>2. Only(Lists, base, AddLiberty(v, t, seq[k]))
    BY <2>1, AddLibertyIs, ListsOn
  <2> QED BY <2>1, <2>2 DEF ListsHold, GainTurn
<1>5. ListsHold(N, s, t, base, seq, n, Gains!Loop(N, s, t, base, seq))
  BY <1>2, <1>3, <1>4, Gains!LoopKeeps
<1> QED BY <1>1, <1>5 DEF ListsHold

(* A neighbor t of string s of N loses it.                                 *)
LoseTurn(N, s, c, v, t) ==
    IF N.size[s] <= 2
    THEN GainAll(N, s, t, Push(RemoveNeighbor(v, t, s), <<"liberties", t>>))
    ELSE UpdateLiberties(RemoveNeighbor(v, t, s), t)
Losses == INSTANCE Recursion WITH Turn <- LoseTurn, Holds <- ListsHold

LEMMA LoseTurnIs ==
  ASSUME NEW N, NEW s, NEW t, NEW v, Shape(v)
  PROVE  Only(Lists, v, LoseTurn(N, s, 0, v, t))
<1> DEFINE K == RemoveNeighbor(v, t, s)
           J == Push(K, <<"liberties", t>>)
<1>1. Only(Lists, v, K) /\ Shape(K)
  BY RemoveNeighborIs, OnlyShape
<1> HIDE DEF K
<1>2. Only(Lists, K, UpdateLiberties(K, t))
  BY <1>1, UpdateLibertiesIs
<1>3. Only(Lists, K, J) /\ Shape(J)
  <2>1. Address(<<"liberties", t>>)
    BY DEF Address, Over, Within
  <2>2. Only({}, K, J) /\ Shape(J)
    BY <1>1, <2>1, PushOnly, PushIs
  <2> HIDE DEF J
  <2> QED BY <2>2, OnlyMore
<1> HIDE DEF J
<1>4. Only(Lists, J, GainAll(N, s, t, J))
  BY <1>3, GainAllIs
<1>5. Only(Lists, v, UpdateLiberties(K, t)) /\ Only(Lists, v, GainAll(N, s, t, J))
  BY <1>1, <1>2, <1>3, <1>4, ListsOn
<1> QED BY <1>5 DEF LoseTurn, K, J

StonesOff(N, s) == FoldLeft(RemoveStone, N, Chain(N, s))

LEMMA DoRemoveStringIs ==
  ASSUME NEW N, Shape(N), NEW s
  PROVE  LET K == DoRemoveString(N, s) IN
         /\ Logged(Places \ Captured, N, K) /\ Vacated(N, K)
         /\ K.board = StonesOff(N, s).board /\ K.hash = StonesOff(N, s).hash
         /\ \A f \in Fields \ (Lists \cup {"board", "hash", "captured", "log"}) : K[f] = N[f]
<1> DEFINE chain == Chain(N, s)
           K == FoldLeft(RemoveStone, N, chain)
           seq == NeighborList(N, s)
           J == Losses!Loop(N, s, 0, K, seq)
           I == [J EXCEPT !.captured[N.color[s]] = @ + N.size[s]]
<1>1. I = DoRemoveString(N, s)
  BY DEF DoRemoveString, GainAll, LoseTurn, FoldLeft, MapThenFoldSet, Max,
         Losses!Greatest, Losses!Loop, Losses!Rest, Losses!RestOver
<1>2. Only({"board", "hash"}, N, K) /\ Shape(K) /\ Vacated(N, K)
  BY ChainEntries, RemoveStonesIs, OnlyShape
<1> HIDE DEF K
<1>3. Only(Lists, K, J)
  <2> DEFINE n == MaxStrings
  <2>1. ListsHold(N, s, 0, K, seq, 0, K)
    BY <1>2, OnlySelf DEF ListsHold
  <2>2. n \in Nat /\ DOMAIN seq \subseteq 1 .. n
    BY ListEntries
  <2> HIDE DEF seq, n
  <2>3. ASSUME NEW k \in 1 .. n, NEW v, ListsHold(N, s, 0, K, seq, k - 1, v)
        PROVE  /\ k \in DOMAIN seq => ListsHold(N, s, 0, K, seq, k, LoseTurn(N, s, 0, v, seq[k]))
               /\ k \notin DOMAIN seq => ListsHold(N, s, 0, K, seq, k, v)
    <3>1. Only(Lists, K, v) /\ Shape(v)
      BY <2>3, OnlyShape DEF ListsHold
    <3>2. Only(Lists, K, LoseTurn(N, s, 0, v, seq[k]))
      BY <3>1, LoseTurnIs, ListsOn
    <3> QED BY <3>1, <3>2 DEF ListsHold
  <2>4. ListsHold(N, s, 0, K, seq, n, Losses!Loop(N, s, 0, K, seq))
    BY <2>1, <2>2, <2>3, Losses!LoopKeeps
  <2> QED BY <2>4 DEF ListsHold
<1> HIDE DEF J
<1>4. Only({"board", "hash"} \cup Lists, N, J) /\ Shape(J)
  BY <1>2, <1>3, OnlyOn, OnlyShape
<1>5. Logged(Places \ Captured, N, I) /\ \A f \in Fields \ {"captured"} : I[f] = J[f]
  <2>1. Logged(Places, N, J) /\ Places \in SUBSET Places
    BY <1>4 DEF Only
  <2> QED BY <2>1, CapturedWritten
<1> HIDE DEF I
<1>6. \A f \in Fields \ (Lists \cup {"board", "hash", "captured", "log"}) : I[f] = N[f]
  BY <1>4, <1>5 DEF Only
<1>7. Vacated(N, I)
  <2>1. "board" \in Fields \ (Lists \cup {"log"}) /\ "board" \in Fields \ {"captured"}
        /\ "log" \in Fields \ {"captured"}
    BY DEF Fields, Lists
  <2>2. J.board = K.board /\ I.board = J.board /\ I.log = J.log
    BY <1>3, <1>5, <2>1 DEF Only
  <2>3. Vacated(K, I)
    BY <2>2, VacatedSame
  <2>4. Longer(N.log, K.log) /\ Longer(K.log, I.log)
    BY <1>2, <1>3, <2>2 DEF Only, Logged
  <2> QED BY <1>2, <2>3, <2>4, VacatedOn
<1>8. I.board = K.board /\ I.hash = K.hash
  <2>1. {"board", "hash"} \subseteq Fields \ (Lists \cup {"log"}) /\ {"board", "hash"} \subseteq Fields \ {"captured"}
    BY DEF Fields, Lists
  <2> QED BY <1>3, <1>5, <2>1 DEF Only
<1> QED BY <1>1, <1>5, <1>6, <1>7, <1>8 DEF K, StonesOff

-----------------------------------------------------------------------------
(* A new stone.  What a move at p writes without a push: the stone's own   *)
(* number and link, the slot that is free, the prisoners and the ko.       *)
Unsaved(N, p) ==
    Captured \cup {<<"ko">>, <<"number", p>>, <<"next", p>>, <<"origin", N.next_string>>}

Strings == {"number", "next", "color", "size", "origin", "next_string"}

SingletonAs(N, p, K) ==
    LET s == N.next_string IN
    /\ K.number = [N.number EXCEPT ![p] = s] /\ K.next = [N.next EXCEPT ![p] = p]
    /\ K.origin = [N.origin EXCEPT ![s] = p] /\ K.next_string = s + 1
    /\ K.liberties = [N.liberties EXCEPT ![s] = 0] /\ K.lib = N.lib

LEMMA SingletonIs ==
  ASSUME NEW N, Shape(N), NEW p
  PROVE  /\ Logged(Places \ Unsaved(N, p), N, Singleton(N, p))
         /\ \A f \in Fields \ (Strings \cup Lists \cup {"log"}) : Singleton(N, p)[f] = N[f]
         /\ Singleton(N, p).next_string = N.next_string + 1
         /\ SingletonAs(N, p, Singleton(N, p))
<1> DEFINE s == N.next_string
           at == <<"next_string">>
           K == Push(N, at)
           J == Singleton(N, p)
<1>1. Address(at) /\ at \in Places
  BY DEF Address, Places
<1>2. Logged(Places, N, K) /\ Shape(K) /\ \A f \in Fields \ {"log"} : K[f] = N[f]
  BY <1>1, PushLogged, PushIs
<1>3. Len(N.log) + 1 \in Len(N.log) + 1 .. Len(K.log) /\ K.log[Len(N.log) + 1].at = at
  <2>1. IsLog(N.log) /\ K.log = Append(N.log, [at |-> at, was |-> Peek(N, at)])
    BY PushIs DEF Shape
  <2> HIDE DEF K
  <2> QED BY <2>1, LogGrows
<1>4. J = [K EXCEPT !.next_string = s + 1, !.number[p] = s, !.next[p] = p,
                    !.color[s] = N.board[p], !.size[s] = 1, !.origin[s] = p,
                    !.liberties[s] = 0, !.neighbors[s] = 0]
  BY DEF Singleton
<1> HIDE DEF K, J
<1>5. /\ J = [f \in Fields |-> J[f]]
      /\ \A f \in Fields \ (Strings \cup Lists) : J[f] = K[f]
      /\ J.next_string = s + 1 /\ J.number = [K.number EXCEPT ![p] = s]
      /\ J.next = [K.next EXCEPT ![p] = p] /\ J.origin = [K.origin EXCEPT ![s] = p]
      /\ J.color = [K.color EXCEPT ![s] = N.board[p]] /\ J.size = [K.size EXCEPT ![s] = 1]
      /\ J.liberties = [K.liberties EXCEPT ![s] = 0] /\ J.neighbors = [K.neighbors EXCEPT ![s] = 0]
      /\ J.lib = K.lib /\ J.nb = K.nb
  <2>1. K = [f \in Fields |-> K[f]]
    BY <1>2 DEF Shape
  <2> QED BY <1>4, <2>1 DEF Fields, Strings, Lists
<1>7. Shape(J) /\ J.log = K.log
  <2>1. "log" \in Fields \ (Strings \cup Lists) /\ IsLog(K.log)
    BY <1>2 DEF Fields, Strings, Lists, Shape
  <2>2. ASSUME NEW f \in Fields
        PROVE  J[f] = K[f] \/ Redone(f, K[f], J[f])
    <3>1. CASE f \in {"number", "next", "origin", "color", "size", "liberties", "neighbors"}
      <4>1. f \notin DOMAIN Within
        BY <3>1 DEF Within
      <4> QED BY <1>5, <3>1, <4>1 DEF Redone
    <3>2. CASE f \in {"next_string", "lib", "nb"}
      BY <1>5, <3>2 DEF Over, Redone
    <3> QED BY <1>5, <3>1, <3>2 DEF Strings, Lists
  <2>3. IsLog(J.log) /\ J.log = K.log
    BY <1>5, <2>1
  <2>4. Shape(K) /\ J = [f \in Fields |-> J[f]]
    BY <1>2, <1>5
  <2>5. Shape(J)
    BY <2>2, <2>3, <2>4, ShapeStill
  <2> QED BY <2>3, <2>5
<1>8. ASSUME NEW c \in Places \ Unsaved(N, p), c # at PROVE Peek(J, c) = Peek(K, c)
  <2>1. CASE c[1] \in Strings
    <3>1. \/ \E x \in Points \ {p} : c \in {<<"number", x>>, <<"next", x>>}
          \/ \E x \in Slots \ {s} : c = <<"origin", x>>
      BY <1>8, <2>1 DEF Places, Strings, Unsaved
    <3>2. \A f \in {"number", "next", "origin"} : K[f] = [x \in Over[f] |-> K[f][x]]
      BY <1>2, ShapeOver DEF Over
    <3>3. Over["number"] = Points /\ Over["next"] = Points /\ Over["origin"] = Slots
      BY DEF Over
    <3>4. /\ \A x \in Points \ {p} : J.number[x] = K.number[x] /\ J.next[x] = K.next[x]
          /\ \A x \in Slots \ {s} : J.origin[x] = K.origin[x]
      BY <1>5, <3>2, <3>3
    <3> QED BY <3>1, <3>4, PeekIs
  <2>2. CASE c[1] \notin Strings
    <3>1. c[1] \in Fields \ (Strings \cup Lists)
      BY <1>8, <2>2 DEF Places, Fields, Lists
    <3> QED BY <1>5, <3>1, PeekSame
  <2> QED BY <2>1, <2>2
<1>9. Logged(Places \ Unsaved(N, p), N, J)
  <2>1. Logged(Places \ Unsaved(N, p), N, K)
    BY <1>2, LoggedLess
  <2>2. Pushed(N, K, at)
    BY <1>3 DEF Pushed
  <2> HIDE DEF at
  <2> QED BY <1>7, <1>8, <2>1, <2>2, Written
<1>10. \A f \in Fields \ (Strings \cup Lists \cup {"log"}) : J[f] = N[f]
  BY <1>2, <1>5
<1>11. SingletonAs(N, p, J)
  <2>1. /\ K.number = N.number /\ K.next = N.next /\ K.origin = N.origin
        /\ K.liberties = N.liberties /\ K.lib = N.lib
    BY <1>2 DEF Fields
  <2> QED BY <1>5, <2>1 DEF SingletonAs
<1> QED BY <1>5, <1>9, <1>10, <1>11 DEF J

CreateTurn(a, s, c, N, q) ==
    IF N.board[q] = "empty" THEN AddLiberty(N, s, q)
    ELSE IF N.board[q] = Other(N.color[s]) /\ ~Contains(NeighborList(N, s), N.number[q])
    THEN Meet(N, s, N.number[q]) ELSE N
Creates == INSTANCE Recursion WITH Turn <- CreateTurn, Holds <- ListsHold

LEMMA CreateNewStringIs ==
  ASSUME NEW N, Shape(N), NEW p \in Points
  PROVE  Only(Lists, Singleton(N, p), CreateNewString(N, p))
<1> DEFINE s == N.next_string
           K == Singleton(N, p)
           seq == Around[p]
           n == Len(seq)
<1>1. CreateNewString(N, p) = Creates!Loop(0, s, 0, K, seq)
  BY DEF CreateNewString, CreateTurn, FoldLeft, MapThenFoldSet, Max,
         Creates!Greatest, Creates!Loop, Creates!Rest, Creates!RestOver
<1>2. Shape(K)
  BY SingletonIs DEF Logged
<1>3. n \in Nat /\ DOMAIN seq \subseteq 1 .. n
  BY StringAssumption
<1> HIDE DEF seq, n, K, s
<1>4. ListsHold(0, s, 0, K, seq, 0, K)
  BY <1>2, OnlySelf DEF ListsHold
<1>5. ASSUME NEW k \in 1 .. n, NEW v, ListsHold(0, s, 0, K, seq, k - 1, v)
      PROVE  /\ k \in DOMAIN seq => ListsHold(0, s, 0, K, seq, k, CreateTurn(0, s, 0, v, seq[k]))
             /\ k \notin DOMAIN seq => ListsHold(0, s, 0, K, seq, k, v)
  <2>1. Only(Lists, K, v) /\ Shape(v)
    BY <1>5, OnlyShape DEF ListsHold
  <2>2. Only(Lists, K, AddLiberty(v, s, seq[k])) /\ Only(Lists, K, Meet(v, s, v.number[seq[k]]))
    BY <2>1, AddLibertyIs, MeetIs, ListsOn
  <2> QED BY <2>1, <2>2 DEF ListsHold, CreateTurn
<1>6. ListsHold(0, s, 0, K, seq, n, Creates!Loop(0, s, 0, K, seq))
  BY <1>3, <1>4, <1>5, Creates!LoopKeeps
<1> QED BY <1>1, <1>6 DEF ListsHold, K

-----------------------------------------------------------------------------
(* A stone joins a string.                                                 *)
Joined(N, pos, s) ==
    LET first == N.origin[s]
        linked == Assign([N EXCEPT !.next[pos] = N.next[first]], <<"next", first>>, pos)
        headed == IF pos < first THEN Assign(linked, <<"origin", s>>, pos) ELSE linked
    IN Assign([headed EXCEPT !.number[pos] = s], <<"size", s>>, N.size[s] + 1)

JoinedAs(N, p, s, K) ==
    LET first == N.origin[s] IN
    \A c \in Places : Peek(K, c) = IF c = <<"number", p>> THEN s
                                   ELSE IF c = <<"next", first>> THEN p
                                   ELSE IF c = <<"next", p>> THEN N.next[first]
                                   ELSE IF c = <<"origin", s>> /\ p < first THEN p
                                   ELSE Peek(N, c)

LEMMA JoinedIs ==
  ASSUME NEW N, Shape(N), NEW p, NEW s
  PROVE  /\ Logged(Places \ Unsaved(N, p), N, Joined(N, p, s))
         /\ \A f \in Fields \ {"number", "next", "origin", "size", "log"} : Joined(N, p, s)[f] = N[f]
         /\ JoinedAs(N, p, s, Joined(N, p, s))
<1> DEFINE C == Places \ Unsaved(N, p)
           first == N.origin[s]
           link == <<"next", p>>
           back == <<"next", first>>
           head == <<"origin", s>>
           name == <<"number", p>>
           size == <<"size", s>>
           K == Poke(N, link, N.next[first])
           J == Assign(K, back, p)
           I == IF p < first THEN Assign(J, head, p) ELSE J
           H == Poke(I, name, s)
           G == Assign(H, size, N.size[s] + 1)
<1>1. /\ Address(link) /\ Address(back) /\ Address(head) /\ Address(name) /\ Address(size)
      /\ link[1] = "next" /\ back[1] = "next" /\ head[1] = "origin" /\ name[1] = "number" /\ size[1] = "size"
      /\ link # head /\ back # head
      /\ link \notin C /\ name \notin C /\ C \in SUBSET Places /\ size \notin Places
  BY DEF Address, Over, Within, Listed, Unsaved, Places
<1>2. /\ \A L : Poke(L, link, N.next[first]) = [L EXCEPT !.next[p] = N.next[first]]
      /\ \A L : Poke(L, name, s) = [L EXCEPT !.number[p] = s]
  BY DEF Poke
<1> HIDE DEF C, link, back, head, name, size
<1>3. /\ Logged(C, N, K) /\ Shape(K) /\ \A f \in Fields \ {"next"} : K[f] = N[f]
      /\ \A c \in Places : Peek(K, c) = IF c = link THEN N.next[first] ELSE Peek(N, c)
  <2>1. Logged(C, N, N)
    BY LoggedSelf
  <2>2. Logged(C, N, K)
    BY <1>1, <2>1, PokeLogged
  <2> QED BY <1>1, <2>2, PokeIs
<1>4. K = [N EXCEPT !.next[p] = N.next[first]]
  BY <1>2
<1> HIDE DEF K
<1>5. /\ Logged(C, N, J) /\ Shape(J) /\ \A f \in Fields \ {"next", "log"} : J[f] = K[f]
      /\ \A c \in Places : Peek(J, c) = IF c = back THEN p ELSE Peek(K, c)
  <2>1. Logged(Places, K, J) /\ (\A f \in Fields \ {"log", "next"} : J[f] = K[f])
        /\ \A c \in Places : Peek(J, c) = IF c = back THEN p ELSE Peek(K, c)
    BY <1>1, <1>3, AssignLogged
  <2>2. Logged(C, K, J)
    BY <1>1, <2>1, LoggedLess
  <2>3. Logged(C, N, J)
    BY <1>3, <2>2, LoggedOn
  <2> QED BY <2>1, <2>3 DEF Logged
<1> HIDE DEF J
<1>6. /\ Logged(C, N, I) /\ Shape(I) /\ \A f \in Fields \ {"origin", "log"} : I[f] = J[f]
      /\ \A c \in Places : Peek(I, c) = IF c = head /\ p < first THEN p ELSE Peek(J, c)
  <2>1. CASE ~(p < first)
    BY <1>5, <2>1
  <2>2. CASE p < first
    <3>1. Logged(Places, J, I) /\ (\A f \in Fields \ {"log", "origin"} : I[f] = J[f])
          /\ \A c \in Places : Peek(I, c) = IF c = head THEN p ELSE Peek(J, c)
      BY <1>1, <1>5, <2>2, AssignLogged
    <3>2. Logged(C, J, I)
      BY <1>1, <3>1, LoggedLess
    <3>3. Logged(C, N, I)
      BY <1>5, <3>2, LoggedOn
    <3> QED BY <2>2, <3>1, <3>3 DEF Logged
  <2> QED BY <2>1, <2>2
<1> HIDE DEF I
<1>7. /\ Logged(C, N, H) /\ Shape(H) /\ \A f \in Fields \ {"number"} : H[f] = I[f]
      /\ \A c \in Places : Peek(H, c) = IF c = name THEN s ELSE Peek(I, c)
  <2>1. Logged(C, N, H)
    BY <1>1, <1>6, PokeLogged
  <2> QED BY <1>1, <1>6, <2>1, PokeIs
<1>8. H = [I EXCEPT !.number[p] = s]
  BY <1>2
<1> HIDE DEF H
<1>9. /\ Logged(C, N, G) /\ \A f \in Fields \ {"size", "log"} : G[f] = H[f]
      /\ \A c \in Places : Peek(G, c) = Peek(H, c)
  <2>1. Logged(Places, H, G) /\ (\A f \in Fields \ {"log", "size"} : G[f] = H[f])
        /\ \A c \in Places : Peek(G, c) = IF c = size THEN N.size[s] + 1 ELSE Peek(H, c)
    BY <1>1, <1>7, AssignLogged
  <2>2. Logged(C, H, G)
    BY <1>1, <2>1, LoggedLess
  <2>3. Logged(C, N, G)
    BY <1>7, <2>2, LoggedOn
  <2> QED BY <1>1, <2>1, <2>3
<1>10. G = Joined(N, p, s)
  BY <1>4, <1>8 DEF G, I, J, first, back, head, size, Joined
<1> HIDE DEF G
<1>11. \A f \in Fields \ {"number", "next", "origin", "size", "log"} : G[f] = N[f]
  BY <1>3, <1>5, <1>6, <1>7, <1>9
<1>12. ASSUME NEW c \in Places
       PROVE  Peek(G, c) = IF c = name THEN s
                           ELSE IF c = back THEN p
                           ELSE IF c = link THEN N.next[first]
                           ELSE IF c = head /\ p < first THEN p
                           ELSE Peek(N, c)
  <2>1. Peek(G, c) = IF c = name THEN s ELSE Peek(I, c)
    BY <1>7, <1>9
  <2>2. Peek(J, c) = IF c = back THEN p ELSE IF c = link THEN N.next[first] ELSE Peek(N, c)
    BY <1>3, <1>5
  <2> HIDE DEF first
  <2> QED BY <1>1, <1>6, <2>1, <2>2
<1>13. JoinedAs(N, p, s, G)
  BY <1>12 DEF JoinedAs, first, name, back, link, head
<1> QED BY <1>9, <1>10, <1>11, <1>13 DEF C

ExtendTurn(M0, pos, s, N, q) ==
    IF N.board[q] = "empty"
    THEN IF M0.liberties[s] > MaxLiberties \/ Touches(N, q, s, M0.color[s], pos) THEN N ELSE AddLiberty(N, s, q)
    ELSE IF N.board[q] = Other(M0.color[s]) /\ ~Contains(NeighborList(N, s), N.number[q])
    THEN Meet(Push(N, <<"neighbors", s>>), s, N.number[q]) ELSE N
Extends == INSTANCE Recursion WITH Turn <- ExtendTurn, Holds <- ListsHold

LEMMA ExtendNeighborStringIs ==
  ASSUME NEW N, Shape(N), NEW p \in Points, NEW s
  PROVE  Only(Lists, Joined(N, p, s), ExtendNeighborString(N, p, s))
<1> DEFINE J == Joined(N, p, s)
           K == IF N.liberties[s] > MaxLiberties THEN UpdateLiberties(J, s) ELSE RemoveLiberty(J, s, p)
           seq == Around[p]
           n == Len(seq)
<1>1. ExtendNeighborString(N, p, s) = Extends!Loop(N, p, s, K, seq)
  BY DEF ExtendNeighborString, Joined, ExtendTurn, FoldLeft, MapThenFoldSet, Max,
         Extends!Greatest, Extends!Loop, Extends!Rest, Extends!RestOver
<1>2. Shape(J)
  BY JoinedIs DEF Logged
<1> HIDE DEF J
<1>3. Only(Lists, J, K) /\ Shape(K)
  <2>1. Only(Lists, J, K)
    BY <1>2, UpdateLibertiesIs, RemoveLibertyIs
  <2> QED BY <2>1, OnlyShape
<1>4. n \in Nat /\ DOMAIN seq \subseteq 1 .. n
  BY StringAssumption
<1> HIDE DEF seq, n, K
<1>5. ListsHold(N, p, s, K, seq, 0, K)
  BY <1>3, OnlySelf DEF ListsHold
<1>6. ASSUME NEW k \in 1 .. n, NEW v, ListsHold(N, p, s, K, seq, k - 1, v)
      PROVE  /\ k \in DOMAIN seq => ListsHold(N, p, s, K, seq, k, ExtendTurn(N, p, s, v, seq[k]))
             /\ k \notin DOMAIN seq => ListsHold(N, p, s, K, seq, k, v)
  <2>1. Only(Lists, K, v) /\ Shape(v)
    BY <1>6, OnlyShape DEF ListsHold
  <2>2. Only(Lists, K, AddLiberty(v, s, seq[k]))
    BY <2>1, AddLibertyIs, ListsOn
  <2> DEFINE w == Push(v, <<"neighbors", s>>)
             t == v.number[seq[k]]
  <2>3. Only(Lists, v, w) /\ Shape(w)
    <3>1. Address(<<"neighbors", s>>)
      BY DEF Address, Over, Within
    <3>2. Only({}, v, w) /\ Shape(w)
      BY <2>1, <3>1, PushOnly, PushIs
    <3> HIDE DEF w
    <3> QED BY <3>2, OnlyMore
  <2>4. Only(Lists, K, Meet(w, s, t))
    <3> HIDE DEF w, t
    <3>1. Only(Lists, w, Meet(w, s, t))
      BY <2>3, MeetIs
    <3> QED BY <2>1, <2>3, <3>1, ListsOn
  <2> QED BY <2>1, <2>2, <2>4 DEF ListsHold, ExtendTurn
<1>7. ListsHold(N, p, s, K, seq, n, Extends!Loop(N, p, s, K, seq))
  BY <1>4, <1>5, <1>6, Extends!LoopKeeps
<1>8. Only(Lists, K, Extends!Loop(N, p, s, K, seq))
  BY <1>7 DEF ListsHold
<1> QED BY <1>1, <1>3, <1>8, ListsOn DEF J

-----------------------------------------------------------------------------
(* A string becomes part of another.                                       *)
Renumbered(N, s, chain) == FoldLeft(LAMBDA K, q : Assign(K, <<"number", q>>, s), N, chain)

RenumberTurn(a, s, c, v, q) == Assign(v, <<"number", q>>, s)
RenumberHolds(a, s, c, base, seq, k, v) == Only({"number"}, base, v)
Renumbers == INSTANCE Recursion WITH Turn <- RenumberTurn, Holds <- RenumberHolds

LEMMA RenumberedIs ==
  ASSUME NEW N, Shape(N), NEW s, NEW n \in Nat, NEW chain, DOMAIN chain \subseteq 1 .. n
  PROVE  Only({"number"}, N, Renumbered(N, s, chain))
<1>1. Renumbered(N, s, chain) = Renumbers!Loop(0, s, 0, N, chain)
  BY DEF Renumbered, RenumberTurn, FoldLeft, MapThenFoldSet, Max,
         Renumbers!Greatest, Renumbers!Loop, Renumbers!Rest, Renumbers!RestOver
<1>2. RenumberHolds(0, s, 0, N, chain, 0, N)
  BY OnlySelf DEF RenumberHolds
<1>3. ASSUME NEW k \in 1 .. n, NEW v, RenumberHolds(0, s, 0, N, chain, k - 1, v)
      PROVE  /\ k \in DOMAIN chain => RenumberHolds(0, s, 0, N, chain, k, RenumberTurn(0, s, 0, v, chain[k]))
             /\ k \notin DOMAIN chain => RenumberHolds(0, s, 0, N, chain, k, v)
  <2> DEFINE at == <<"number", chain[k]>>
  <2>1. Only({"number"}, N, v) /\ Shape(v)
    BY <1>3, OnlyShape DEF RenumberHolds
  <2>2. Address(at) /\ at[1] = "number"
    BY DEF Address, Over, Within
  <2> HIDE DEF at
  <2>3. Only({"number"}, v, Assign(v, at, s))
    BY <2>1, <2>2, AssignLogged DEF Only
  <2>4. Only({"number"} \cup {"number"}, N, Assign(v, at, s))
    BY <2>1, <2>3, OnlyOn
  <2> QED BY <2>1, <2>4 DEF RenumberHolds, RenumberTurn, at
<1>4. RenumberHolds(0, s, 0, N, chain, n, Renumbers!Loop(0, s, 0, N, chain))
  BY <1>2, <1>3, Renumbers!LoopKeeps
<1> QED BY <1>1, <1>4 DEF RenumberHolds

Linked(N, s, pos) ==
    LET s2 == N.number[pos]
        chain == Chain(N, s2)
        first == N.origin[s]
    IN [PushAll(Renumbered(N, s, chain), <<<<"next", Last(chain)>>, <<"next", first>>>>) EXCEPT
            !.next[Last(chain)] = N.next[first], !.next[first] = N.origin[s2],
            !.origin[s] = IF N.origin[s2] < @ THEN N.origin[s2] ELSE @,
            !.size[s] = @ + N.size[s2]]

LinkedAs(N, s, p, K) ==
    LET s2 == N.number[p]
        chain == Chain(N, s2)
        first == N.origin[s]
    IN /\ K.number = Renumbered(N, s, chain).number
       /\ K.next = [[N.next EXCEPT ![Last(chain)] = N.next[first]] EXCEPT ![first] = N.origin[s2]]
       /\ K.origin = [N.origin EXCEPT ![s] = IF N.origin[s2] < N.origin[s] THEN N.origin[s2] ELSE N.origin[s]]

LEMMA LinkedIs ==
  ASSUME NEW N, Shape(N), NEW s, NEW p
  PROVE  /\ Logged(Places \ {<<"origin", s>>}, N, Linked(N, s, p))
         /\ \A f \in Fields \ {"number", "next", "origin", "size", "log"} : Linked(N, s, p)[f] = N[f]
         /\ LinkedAs(N, s, p, Linked(N, s, p))
<1> DEFINE s2 == N.number[p]
           first == N.origin[s]
           chain == Chain(N, s2)
           l == Last(chain)
           c1 == <<"next", l>>
           c2 == <<"next", first>>
           ats == <<c1, c2>>
           least(x) == IF N.origin[s2] < x THEN N.origin[s2] ELSE x
           J == Renumbered(N, s, chain)
           I == PushAll(J, ats)
           K == Linked(N, s, p)
<1>1. Only({"number"}, N, J) /\ Shape(J)
  <2>1. Only({"number"}, N, J)
    BY ChainEntries, RenumberedIs
  <2> QED BY <2>1, OnlyShape
<1>2. Address(c1) /\ Address(c2)
  BY DEF Address, Over, Within
<1>3. K = [I EXCEPT !.next[l] = N.next[first], !.next[first] = N.origin[s2],
                    !.origin[s] = least(@), !.size[s] = @ + N.size[s2]]
  BY DEF Linked
<1> HIDE DEF J, K
<1>4. Only({}, J, I) /\ Pushed(J, I, c1) /\ Pushed(J, I, c2)
  <2>1. DOMAIN ats = 1 .. 2 /\ ats[1] = c1 /\ ats[2] = c2
    OBVIOUS
  <2> HIDE DEF ats, c1, c2
  <2>2. DOMAIN ats \subseteq 1 .. 2 /\ \A x \in DOMAIN ats : Address(ats[x])
    BY <1>2, <2>1
  <2>3. Only({}, J, I) /\ \A x \in DOMAIN ats : Pushed(J, I, ats[x])
    BY <1>1, <2>2, PushAllIs
  <2> QED BY <2>1, <2>3
<1> HIDE DEF I
<1>5. Only({} \cup {"number"}, N, I) /\ Shape(I)
  <2>1. Only({"number"} \cup {}, N, I)
    BY <1>1, <1>4, OnlyOn
  <2> QED BY <2>1, OnlyShape
<1>6. Pushed(N, I, c1) /\ Pushed(N, I, c2)
  <2>1. Len(N.log) <= Len(J.log) /\ Len(N.log) \in Nat /\ Len(J.log) \in Nat
    BY <1>1 DEF Only, Logged, Longer
  <2> HIDE DEF c1, c2
  <2> QED BY <1>4, <2>1 DEF Pushed
<1>7. /\ K = [f \in Fields |-> K[f]]
      /\ \A f \in Fields \ {"next", "origin", "size"} : K[f] = I[f]
      /\ K["next"] = [[I["next"] EXCEPT ![l] = N.next[first]] EXCEPT ![first] = N.origin[s2]]
      /\ K["origin"] = [I["origin"] EXCEPT ![s] = least(I["origin"][s])]
      /\ K["size"] = [I["size"] EXCEPT ![s] = I["size"][s] + N.size[s2]]
  <2>1. I = [f \in Fields |-> I[f]] /\ {"next", "origin", "size"} \subseteq Fields
    BY <1>5 DEF Shape, Fields
  <2> HIDE DEF least, l, first, s2
  <2> QED BY <1>3, <2>1
<1>8. /\ \A f \in {"next", "origin"} : I[f] = N[f]
      /\ \A f \in Fields \ {"number", "next", "origin", "size", "log"} : K[f] = N[f]
      /\ K["number"] = J["number"]
  <2>1. {"next", "origin", "number"} \subseteq Fields
    BY DEF Fields
  <2> QED BY <1>4, <1>5, <1>7, <2>1 DEF Only
<1>9. Shape(K) /\ K.log = I.log
  <2>1. "log" \in Fields \ {"next", "origin", "size"} /\ {"next", "origin", "size"} \cap DOMAIN Within = {}
    BY DEF Fields, Within
  <2>2. ASSUME NEW f \in Fields
        PROVE  K[f] = I[f] \/ Redone(f, I[f], K[f])
    <3> HIDE DEF l, first, s2, least
    <3>1. CASE f \in {"next", "origin", "size"}
      <4>1. K[f] = [x \in DOMAIN I[f] |-> K[f][x]]
        BY <1>7, <3>1
      <4> QED BY <2>1, <3>1, <4>1 DEF Redone
    <3> QED BY <1>7, <3>1
  <2>3. Shape(I) /\ K = [f \in Fields |-> K[f]] /\ IsLog(K.log) /\ K.log = I.log
    BY <1>5, <1>7, <2>1 DEF Shape
  <2>4. Shape(K)
    BY <2>2, <2>3, ShapeStill
  <2> QED BY <2>3, <2>4
<1>10. ASSUME NEW c \in Places \ {<<"origin", s>>}, c # c1, c # c2 PROVE Peek(K, c) = Peek(I, c)
  <2>1. CASE c[1] \in {"next", "origin"}
    <3>1. \/ \E x \in Points \ {l, first} : c = <<"next", x>>
          \/ \E x \in Slots \ {s} : c = <<"origin", x>>
      BY <1>10, <2>1 DEF Places
    <3>2. \A f \in {"next", "origin"} : I[f] = [x \in Over[f] |-> I[f][x]]
      BY <1>5, ShapeOver DEF Over
    <3>3. Over["next"] = Points /\ Over["origin"] = Slots
      BY DEF Over
    <3>4. /\ \A x \in Points \ {l, first} : K["next"][x] = I["next"][x]
          /\ \A x \in Slots \ {s} : K["origin"][x] = I["origin"][x]
      <4> HIDE DEF least, l, first, s2
      <4> QED BY <1>7, <3>2, <3>3
    <3> QED BY <3>1, <3>4, PeekIs
  <2>2. CASE c[1] \notin {"next", "origin"}
    <3>1. c[1] \in Fields \ {"next", "origin", "size"}
      BY <1>10, <2>2 DEF Places, Fields
    <3> QED BY <1>7, <3>1, PeekSame
  <2> QED BY <2>1, <2>2
<1>11. Logged(Places \ {<<"origin", s>>}, N, K)
  <2> DEFINE C == Places \ {<<"origin", s>>}
  <2>1. Logged(C, N, I)
    BY <1>5, LoggedLess DEF Only
  <2>2. \A c \in C : Peek(K, c) = Peek(I, c) \/ Pushed(N, I, c)
    BY <1>6, <1>10
  <2>3. Shape(K) /\ K.log = I.log
    BY <1>9
  <2> HIDE DEF C, c1, c2
  <2>4. Logged(C, N, K)
    BY <2>1, <2>2, <2>3, Written
  <2> QED BY <2>4 DEF C
<1>12. LinkedAs(N, s, p, K)
  <2>1. K.next = [[N.next EXCEPT ![l] = N.next[first]] EXCEPT ![first] = N.origin[s2]]
        /\ K.origin = [N.origin EXCEPT ![s] = least(N.origin[s])]
        /\ K.number = J.number
    <3> HIDE DEF least, l, first, s2
    <3> QED BY <1>7, <1>8
  <2> QED BY <2>1 DEF LinkedAs, J
<1> QED BY <1>8, <1>11, <1>12 DEF K

TakeTurn(a, s, c, B, q) ==
    IF B.m.board[q] = "empty" /\ q \notin B.ml
    THEN [m |-> AddLiberty(B.m, s, q), ml |-> B.ml \cup {q}] ELSE B
TakeHolds(a, s, c, base, seq, k, v) == v = [m |-> v.m, ml |-> v.ml] /\ Only(Lists, base.m, v.m)
Takes == INSTANCE Recursion WITH Turn <- TakeTurn, Holds <- TakeHolds

InheritTurn(a, s, s2, N, t) ==
    LET K == RemoveNeighbor(N, t, s2) IN IF Contains(NeighborList(K, s), t) THEN K ELSE Meet(K, s, t)
Inherits == INSTANCE Recursion WITH Turn <- InheritTurn, Holds <- ListsHold

LEMMA TakenIs ==
  ASSUME NEW N, Shape(N), NEW ml, NEW s, NEW n \in Nat, NEW seq, DOMAIN seq \subseteq 1 .. n
  PROVE  LET A == Takes!Loop(0, s, 0, [m |-> N, ml |-> ml], seq) IN
         A = [m |-> A.m, ml |-> A.ml] /\ Only(Lists, N, A.m)
<1> DEFINE base == [m |-> N, ml |-> ml]
<1>0. base.m = N
  OBVIOUS
<1>1. TakeHolds(0, s, 0, base, seq, 0, base)
  BY OnlySelf DEF TakeHolds
<1> HIDE DEF base
<1>2. ASSUME NEW k \in 1 .. n, NEW v, TakeHolds(0, s, 0, base, seq, k - 1, v)
      PROVE  /\ k \in DOMAIN seq => TakeHolds(0, s, 0, base, seq, k, TakeTurn(0, s, 0, v, seq[k]))
             /\ k \notin DOMAIN seq => TakeHolds(0, s, 0, base, seq, k, v)
  <2>1. Only(Lists, N, v.m) /\ Shape(v.m) /\ v = [m |-> v.m, ml |-> v.ml]
    BY <1>0, <1>2, OnlyShape DEF TakeHolds
  <2>2. Only(Lists, N, AddLiberty(v.m, s, seq[k]))
    BY <2>1, AddLibertyIs, ListsOn
  <2> DEFINE w == [m |-> AddLiberty(v.m, s, seq[k]), ml |-> v.ml \cup {seq[k]}]
  <2>3. w = [m |-> w.m, ml |-> w.ml] /\ Only(Lists, N, w.m)
    BY <2>2
  <2>4. TakeTurn(0, s, 0, v, seq[k]) \in {w, v}
    BY DEF TakeTurn
  <2> HIDE DEF w
  <2> QED BY <1>0, <2>1, <2>3, <2>4 DEF TakeHolds
<1>3. TakeHolds(0, s, 0, base, seq, n, Takes!Loop(0, s, 0, base, seq))
  BY <1>1, <1>2, Takes!LoopKeeps
<1> QED BY <1>0, <1>3 DEF TakeHolds, base

LEMMA InheritedIs ==
  ASSUME NEW N, Shape(N), NEW s, NEW s2, NEW n \in Nat, NEW seq, DOMAIN seq \subseteq 1 .. n
  PROVE  Only(Lists, N, Inherits!Loop(0, s, s2, N, seq))
<1>1. ListsHold(0, s, s2, N, seq, 0, N)
  BY OnlySelf DEF ListsHold
<1>2. ASSUME NEW k \in 1 .. n, NEW v, ListsHold(0, s, s2, N, seq, k - 1, v)
      PROVE  /\ k \in DOMAIN seq => ListsHold(0, s, s2, N, seq, k, InheritTurn(0, s, s2, v, seq[k]))
             /\ k \notin DOMAIN seq => ListsHold(0, s, s2, N, seq, k, v)
  <2> DEFINE K == RemoveNeighbor(v, seq[k], s2)
  <2>1. Only(Lists, N, v) /\ Shape(v)
    BY <1>2, OnlyShape DEF ListsHold
  <2>2. Only(Lists, v, K)
    BY <2>1, RemoveNeighborIs
  <2> HIDE DEF K
  <2>3. Only(Lists, N, K) /\ Shape(K)
    BY <2>1, <2>2, ListsOn, OnlyShape
  <2>4. Only(Lists, N, Meet(K, s, seq[k]))
    BY <2>3, MeetIs, ListsOn
  <2> QED BY <2>1, <2>3, <2>4 DEF ListsHold, InheritTurn, K
<1>3. ListsHold(0, s, s2, N, seq, n, Inherits!Loop(0, s, s2, N, seq))
  BY <1>1, <1>2, Inherits!LoopKeeps
<1> QED BY <1>3 DEF ListsHold

LEMMA AssimilateStringIs ==
  ASSUME NEW A, Shape(A.m), NEW s, NEW p
  PROVE  LET B == AssimilateString(A, s, p) IN
         B = [m |-> B.m, ml |-> B.ml] /\ Only(Lists, Linked(A.m, s, p), B.m)
<1> DEFINE N == A.m
           s2 == N.number[p]
           K == Linked(N, s, p)
           libs == LibertyList(N, s2)
           foes == NeighborList(N, s2)
           fed == IF N.liberties[s2] <= MaxLiberties
                  THEN Takes!Loop(0, s, 0, [m |-> K, ml |-> A.ml], libs)
                  ELSE [m |-> UpdateLiberties([K EXCEPT !.liberties[s] = 0], s),
                        ml |-> ToSet(EmptyAround(K, Chain(K, s)))]
           B == [fed EXCEPT !.m = Inherits!Loop(0, s, s2, fed.m, foes)]
<1>1. B = AssimilateString(A, s, p)
  BY DEF AssimilateString, Linked, Renumbered, TakeTurn, InheritTurn, FoldLeft, MapThenFoldSet, Max,
         Takes!Greatest, Takes!Loop, Takes!Rest, Takes!RestOver,
         Inherits!Greatest, Inherits!Loop, Inherits!Rest, Inherits!RestOver
<1>2. Shape(K)
  BY LinkedIs DEF Logged
<1> HIDE DEF K
<1>3. fed = [m |-> fed.m, ml |-> fed.ml] /\ Only(Lists, K, fed.m)
  <2>1. CASE N.liberties[s2] <= MaxLiberties
    BY <1>2, <2>1, ListEntries, TakenIs
  <2>2. CASE ~(N.liberties[s2] <= MaxLiberties)
    <3> DEFINE J == [K EXCEPT !.liberties[s] = 0]
    <3>1. K = [f \in Fields |-> K[f]]
      BY <1>2 DEF Shape
    <3>2. J = [f \in Fields |-> J[f]] /\ \A f \in Fields \ Lists : J[f] = K[f]
      BY <3>1 DEF Fields, Lists
    <3>3. Only(Lists, K, J) /\ Shape(J)
      <4>1. /\ "liberties" \in DOMAIN Over \ DOMAIN Within /\ Lists \subseteq Fields
            /\ J["liberties"] = [z \in DOMAIN K["liberties"] |-> J["liberties"][z]]
            /\ \A f \in Lists \ {"liberties"} : J[f] = K[f]
        BY <3>1 DEF Fields, Lists, Over, Within
      <4>2. \A f \in Lists : Formed(f, K[f])
        BY <1>2, <4>1 DEF Shape
      <4>3. Formed("liberties", J["liberties"])
        BY <4>1, <4>2, FormedEntry DEF Lists
      <4>4. \A f \in Lists : Formed(f, J[f])
        BY <4>1, <4>2, <4>3
      <4> HIDE DEF J
      <4> QED BY <1>2, <3>2, <4>4, ListsWritten, OnlyShape
    <3> HIDE DEF J
    <3>4. Only(Lists, K, UpdateLiberties(J, s))
      BY <3>3, UpdateLibertiesIs, ListsOn
    <3> QED BY <2>2, <3>4 DEF J
  <2> QED BY <2>1, <2>2
<1> HIDE DEF fed
<1>4. Shape(fed.m)
  BY <1>3, OnlyShape
<1>5. Only(Lists, fed.m, Inherits!Loop(0, s, s2, fed.m, foes))
  BY <1>4, ListEntries, InheritedIs
<1>6. B = [m |-> B.m, ml |-> B.ml] /\ B.m = Inherits!Loop(0, s, s2, fed.m, foes)
  BY <1>3
<1> HIDE DEF B
<1>7. Only(Lists, K, B.m)
  BY <1>3, <1>5, <1>6, ListsOn
<1> QED BY <1>1, <1>6, <1>7 DEF K, N

-----------------------------------------------------------------------------
(* A stone joins several strings.                                          *)
AbsorbTurn(color, s, c, A, q) ==
    LET N == A.m IN
    CASE N.board[q] = "empty" /\ q \notin A.ml ->
            [m |-> AddLiberty(N, s, q), ml |-> A.ml \cup {q}]
      [] N.board[q] = Other(color) /\ ~Contains(NeighborList(N, s), N.number[q]) ->
            [A EXCEPT !.m = Meet(N, s, N.number[q])]
      [] N.board[q] = color /\ N.number[q] # s -> AssimilateString(A, s, q)
      [] OTHER -> A

(* The strings are written, but for the slot s everything comes back.      *)
StringsOnly(s, N, K) ==
    /\ Logged(Places \ {<<"origin", s>>}, N, K)
    /\ \A f \in Fields \ ((Strings \ {"next_string"}) \cup Lists \cup {"log"}) : K[f] = N[f]

LEMMA StringsOnlyOn ==
  ASSUME NEW s, NEW N, NEW K, NEW J, StringsOnly(s, N, K), StringsOnly(s, K, J)
  PROVE  StringsOnly(s, N, J)
BY LoggedOn DEF StringsOnly

LEMMA StringsOnlyLists ==
  ASSUME NEW s, NEW N, NEW K, Only(Lists, N, K)
  PROVE  StringsOnly(s, N, K)
<1>1. Logged(Places \ {<<"origin", s>>}, N, K)
  BY LoggedLess DEF Only
<1> QED BY <1>1 DEF Only, StringsOnly

LEMMA StringsOnlyShape ==
  ASSUME NEW s, NEW N, NEW K, StringsOnly(s, N, K)
  PROVE  Shape(K)
BY DEF StringsOnly, Logged

AbsorbHolds(color, s, c, base, seq, k, v) == v = [m |-> v.m, ml |-> v.ml] /\ StringsOnly(s, base.m, v.m)
Absorbs == INSTANCE Recursion WITH Turn <- AbsorbTurn, Holds <- AbsorbHolds

LEMMA AbsorbTurnIs ==
  ASSUME NEW color, NEW s, NEW A, A = [m |-> A.m, ml |-> A.ml], Shape(A.m), NEW q
  PROVE  LET B == AbsorbTurn(color, s, 0, A, q) IN B = [m |-> B.m, ml |-> B.ml] /\ StringsOnly(s, A.m, B.m)
<1> DEFINE N == A.m
           B1 == [m |-> AddLiberty(N, s, q), ml |-> A.ml \cup {q}]
           B2 == [A EXCEPT !.m = Meet(N, s, N.number[q])]
           B3 == AssimilateString(A, s, q)
           Good(B) == B = [m |-> B.m, ml |-> B.ml] /\ StringsOnly(s, N, B.m)
<1>1. Good(A)
  <2>1. Only(Lists, N, N)
    BY OnlySelf
  <2> QED BY <2>1, StringsOnlyLists
<1>2. Good(B1)
  BY AddLibertyIs, StringsOnlyLists
<1>3. Good(B2)
  <2>1. StringsOnly(s, N, Meet(N, s, N.number[q]))
    BY MeetIs, StringsOnlyLists
  <2> QED BY <2>1
<1>4. Good(B3)
  <2> DEFINE K == Linked(N, s, q)
  <2>1. B3 = [m |-> B3.m, ml |-> B3.ml] /\ Only(Lists, K, B3.m)
    BY AssimilateStringIs
  <2>2. StringsOnly(s, N, K)
    <3>1. Logged(Places \ {<<"origin", s>>}, N, K)
      BY LinkedIs, Zenon
    <3>2. \A f \in Fields \ {"number", "next", "origin", "size", "log"} : K[f] = N[f]
      <4>1. Shape(N)
        OBVIOUS
      <4> HIDE DEF N
      <4> QED BY <4>1, LinkedIs
    <3> QED BY <3>1, <3>2 DEF StringsOnly, Strings
  <2> HIDE DEF K, B3
  <2>3. StringsOnly(s, N, B3.m)
    BY <2>1, <2>2, StringsOnlyLists, StringsOnlyOn
  <2> QED BY <2>1, <2>3
<1>5. AbsorbTurn(color, s, 0, A, q) \in {A, B1, B2, B3}
  BY DEF AbsorbTurn
<1> HIDE DEF B1, B2, B3
<1> QED BY <1>1, <1>2, <1>3, <1>4, <1>5

LEMMA AssimilateNeighborStringsIs ==
  ASSUME NEW N, Shape(N), NEW p \in Points
  PROVE  StringsOnly(N.next_string, Singleton(N, p), AssimilateNeighborStrings(N, p))
<1> DEFINE s == N.next_string
           color == N.board[p]
           K == Singleton(N, p)
           base == [m |-> K, ml |-> {}]
           seq == Around[p]
           n == Len(seq)
           A == Absorbs!Loop(color, s, 0, base, seq)
<1>1. AssimilateNeighborStrings(N, p) = A.m
  BY DEF AssimilateNeighborStrings, AbsorbTurn, FoldLeft, MapThenFoldSet, Max,
         Absorbs!Greatest, Absorbs!Loop, Absorbs!Rest, Absorbs!RestOver
<1>2. Shape(K)
  BY SingletonIs DEF Logged
<1>3. n \in Nat /\ DOMAIN seq \subseteq 1 .. n
  BY StringAssumption
<1>4. base.m = K /\ base = [m |-> base.m, ml |-> base.ml]
  OBVIOUS
<1> HIDE DEF seq, n, K, s, color, base
<1>5. AbsorbHolds(color, s, 0, base, seq, 0, base)
  BY <1>2, <1>4, OnlySelf, StringsOnlyLists DEF AbsorbHolds
<1>6. ASSUME NEW k \in 1 .. n, NEW v, AbsorbHolds(color, s, 0, base, seq, k - 1, v)
      PROVE  /\ k \in DOMAIN seq => AbsorbHolds(color, s, 0, base, seq, k, AbsorbTurn(color, s, 0, v, seq[k]))
             /\ k \notin DOMAIN seq => AbsorbHolds(color, s, 0, base, seq, k, v)
  <2> DEFINE w == AbsorbTurn(color, s, 0, v, seq[k])
  <2>1. v = [m |-> v.m, ml |-> v.ml] /\ StringsOnly(s, K, v.m) /\ Shape(v.m)
    BY <1>4, <1>6, StringsOnlyShape DEF AbsorbHolds
  <2>2. w = [m |-> w.m, ml |-> w.ml] /\ StringsOnly(s, v.m, w.m)
    BY <2>1, AbsorbTurnIs
  <2> HIDE DEF w
  <2>3. StringsOnly(s, K, w.m)
    BY <2>1, <2>2, StringsOnlyOn
  <2> QED BY <1>4, <2>1, <2>2, <2>3 DEF AbsorbHolds, w
<1>7. AbsorbHolds(color, s, 0, base, seq, n, Absorbs!Loop(color, s, 0, base, seq))
  BY <1>3, <1>5, <1>6, Absorbs!LoopKeeps
<1> QED BY <1>1, <1>4, <1>7 DEF AbsorbHolds, K, s

-----------------------------------------------------------------------------
(* A move.                                                                 *)
LookTurn(color, pos, c, A, q) ==
    LET N == A.m  t == N.number[q] IN
    IF N.board[q] = "empty" \/ t \in A.seen THEN A
    ELSE IF N.board[q] = color THEN [A EXCEPT !.seen = @ \cup {t}, !.allies = Append(@, t)]
    ELSE IF N.liberties[t] > 1 THEN [A EXCEPT !.m = RemoveLiberty(N, t, pos), !.seen = @ \cup {t}]
    ELSE [A EXCEPT !.m = DoRemoveString(N, t), !.taken = @ + N.size[t]]

(* Stones go, and the prisoners are not pushed.                            *)
StonesOnly(N, K) ==
    /\ Logged(Places \ Captured, N, K) /\ Vacated(N, K)
    /\ \A f \in Fields \ (Lists \cup {"board", "hash", "captured", "log"}) : K[f] = N[f]

Looked(A) == A = [f \in {"m", "seen", "allies", "taken"} |-> A[f]]
LookHolds(color, pos, c, base, seq, k, v) == Looked(v) /\ StonesOnly(base.m, v.m)
Looks == INSTANCE Recursion WITH Turn <- LookTurn, Holds <- LookHolds

LEMMA StonesOnlyOn ==
  ASSUME NEW N, NEW K, NEW J, StonesOnly(N, K), StonesOnly(K, J)
  PROVE  StonesOnly(N, J)
BY LoggedOn, VacatedOn DEF StonesOnly, Logged

LEMMA StonesOnlyLists ==
  ASSUME NEW N, NEW K, Only(Lists, N, K)
  PROVE  StonesOnly(N, K)
<1>1. Logged(Places \ Captured, N, K)
  BY LoggedLess DEF Only
<1>2. "board" \in Fields \ (Lists \cup {"log"})
  BY DEF Fields, Lists
<1>3. Vacated(N, K)
  BY <1>2, VacatedSame DEF Only
<1> QED BY <1>1, <1>3 DEF Only, StonesOnly

LEMMA LookTurnIs ==
  ASSUME NEW color, NEW p, NEW A, Looked(A), Shape(A.m), NEW q
  PROVE  LET B == LookTurn(color, p, 0, A, q) IN Looked(B) /\ StonesOnly(A.m, B.m)
<1> DEFINE N == A.m
           t == N.number[q]
           B1 == [A EXCEPT !.seen = @ \cup {t}, !.allies = Append(@, t)]
           B2 == [A EXCEPT !.m = RemoveLiberty(N, t, p), !.seen = @ \cup {t}]
           B3 == [A EXCEPT !.m = DoRemoveString(N, t), !.taken = @ + N.size[t]]
           Good(B) == Looked(B) /\ StonesOnly(N, B.m)
<1>1. StonesOnly(N, N)
  BY OnlySelf, StonesOnlyLists
<1>6. A = [f \in {"m", "seen", "allies", "taken"} |-> A[f]]
  BY DEF Looked
<1>2. Good(B1)
  <2>1. B1 = [f \in {"m", "seen", "allies", "taken"} |-> B1[f]] /\ B1.m = N
    BY <1>6
  <2> HIDE DEF B1
  <2> QED BY <1>1, <2>1 DEF Looked
<1>3. Good(B2)
  <2>1. StonesOnly(N, RemoveLiberty(N, t, p))
    BY RemoveLibertyIs, StonesOnlyLists
  <2>2. B2 = [f \in {"m", "seen", "allies", "taken"} |-> B2[f]] /\ B2.m = RemoveLiberty(N, t, p)
    BY <1>6
  <2> HIDE DEF B2
  <2> QED BY <2>1, <2>2 DEF Looked
<1>4. Good(B3)
  <2>1. StonesOnly(N, DoRemoveString(N, t))
    BY DoRemoveStringIs DEF StonesOnly
  <2>2. B3 = [f \in {"m", "seen", "allies", "taken"} |-> B3[f]] /\ B3.m = DoRemoveString(N, t)
    BY <1>6
  <2> HIDE DEF B3
  <2> QED BY <2>1, <2>2 DEF Looked
<1>5. LookTurn(color, p, 0, A, q) \in {A, B1, B2, B3}
  BY DEF LookTurn
<1> HIDE DEF B1, B2, B3
<1> QED BY <1>1, <1>2, <1>3, <1>4, <1>5

PutAs(N, p, color, K) ==
    /\ \A c \in Places : Peek(K, c) = IF c = <<"board", p>> THEN color
                                      ELSE IF c = <<"number", p>> THEN NoString ELSE Peek(N, c)
    /\ K.hash = SymDiff(N.hash, {StoneHash(p, color)})

StonePutOn(N, pos, color) ==
    [Assign(N, <<"board", pos>>, color) EXCEPT
        !.number[pos] = NoString, !.hash = SymDiff(@, {StoneHash(pos, color)})]

LEMMA PutIs ==
  ASSUME NEW N, Shape(N), NEW p, NEW color
  PROVE  /\ Logged(Places \ {<<"number", p>>}, N, StonePutOn(N, p, color))
         /\ \A f \in Fields \ {"board", "number", "hash", "log"} : StonePutOn(N, p, color)[f] = N[f]
         /\ PutAs(N, p, color, StonePutOn(N, p, color))
<1> DEFINE at == <<"board", p>>
           name == <<"number", p>>
           C == Places \ {name}
           J == Assign(N, at, color)
           I == Poke(J, name, NoString)
           K == [I EXCEPT !.hash = SymDiff(@, {StoneHash(p, color)})]
<1>1. Address(at) /\ at[1] = "board" /\ Address(name) /\ name[1] = "number" /\ name \notin C
      /\ C \in SUBSET Places /\ \A c \in Places : c[1] \in Fields \ {"hash"}
  BY DEF Address, Over, Within, Places, Fields
<1>2. \A L : Poke(L, name, NoString) = [L EXCEPT !.number[p] = NoString]
  BY DEF Poke
<1>3. StonePutOn(N, p, color) = [J EXCEPT !.number[p] = NoString, !.hash = SymDiff(@, {StoneHash(p, color)})]
  BY DEF StonePutOn
<1> HIDE DEF at, name, C
<1>4. Logged(Places, N, J) /\ Shape(J) /\ (\A f \in Fields \ {"log", "board"} : J[f] = N[f])
      /\ \A c \in Places : Peek(J, c) = IF c = at THEN color ELSE Peek(N, c)
  <2>1. Logged(Places, N, J) /\ (\A f \in Fields \ {"log", "board"} : J[f] = N[f])
        /\ \A c \in Places : Peek(J, c) = IF c = at THEN color ELSE Peek(N, c)
    BY <1>1, AssignLogged
  <2> QED BY <2>1 DEF Logged
<1> HIDE DEF J
<1>11. StonePutOn(N, p, color) = K
  <2>1. J = [f \in Fields |-> J[f]] /\ "number" \in Fields /\ "hash" \in Fields
    BY <1>4 DEF Shape, Fields
  <2>2. I = [J EXCEPT !.number[p] = NoString]
    BY <1>2
  <2> QED BY <1>3, <2>1, <2>2
<1>5. Logged(C, N, I) /\ Shape(I) /\ (\A f \in Fields \ {"number"} : I[f] = J[f])
      /\ \A c \in Places : Peek(I, c) = IF c = name THEN NoString ELSE Peek(J, c)
  <2>1. Logged(C, N, J)
    BY <1>1, <1>4, LoggedLess
  <2>2. Logged(C, N, I)
    BY <1>1, <2>1, PokeLogged
  <2> QED BY <1>1, <1>4, <2>2, PokeIs
<1> HIDE DEF I
<1>6. Logged(C, N, K) /\ \A f \in Fields \ {"hash", "log"} : K[f] = I[f]
  <2>1. Only({"hash"}, I, K)
    BY <1>5, HashWritten
  <2> HIDE DEF K
  <2>2. Logged(C, I, K)
    BY <1>1, <2>1, LoggedLess DEF Only
  <2>3. Logged(C, N, K)
    BY <1>5, <2>2, LoggedOn
  <2> QED BY <2>1, <2>3 DEF Only
<1>7. K.hash = SymDiff(N.hash, {StoneHash(p, color)})
  <2>1. I = [f \in Fields |-> I[f]] /\ "hash" \in Fields /\ I.hash = N.hash
    BY <1>4, <1>5 DEF Shape, Fields
  <2> QED BY <2>1
<1>8. \A c \in Places : Peek(K, c) = Peek(I, c)
  <2>1. \A f \in Fields \ {"hash"} : K[f] = I[f]
    <3>1. I = [f \in Fields |-> I[f]]
      BY <1>5 DEF Shape
    <3> QED BY <3>1
  <2> HIDE DEF K
  <2> QED BY <1>1, <2>1, PeekSame
<1>9. \A c \in Places : Peek(K, c) = IF c = at THEN color ELSE IF c = name THEN NoString ELSE Peek(N, c)
  <2>1. at # name
    BY <1>1
  <2> HIDE DEF K
  <2> QED BY <1>4, <1>5, <1>8, <2>1
<1> HIDE DEF K
<1>10. \A f \in Fields \ {"board", "number", "hash", "log"} : K[f] = N[f]
  BY <1>4, <1>5, <1>6
<1>12. PutAs(N, p, color, K)
  BY <1>7, <1>9 DEF PutAs, at, name
<1> QED BY <1>6, <1>10, <1>11, <1>12 DEF C, name

LEMMA PutStoneIs ==
  ASSUME NEW N, Shape(N), NEW p \in Points, NEW color
  PROVE  StonesOnly(StonePutOn(N, p, color), PutStone(N, p, color).m)
<1> DEFINE K == StonePutOn(N, p, color)
           base == [m |-> K, seen |-> {}, allies |-> <<>>, taken |-> 0]
           seq == Around[p]
           n == Len(seq)
           A == Looks!Loop(color, p, 0, base, seq)
<1>1. PutStone(N, p, color) = A
  BY DEF PutStone, StonePutOn, LookTurn, FoldLeft, MapThenFoldSet, Max,
         Looks!Greatest, Looks!Loop, Looks!Rest, Looks!RestOver
<1>2. Shape(K)
  BY PutIs DEF Logged
<1>3. n \in Nat /\ DOMAIN seq \subseteq 1 .. n
  BY StringAssumption
<1>4. base.m = K /\ Looked(base)
  BY DEF Looked
<1> HIDE DEF seq, n, K, base
<1>5. LookHolds(color, p, 0, base, seq, 0, base)
  BY <1>2, <1>4, OnlySelf, StonesOnlyLists DEF LookHolds
<1>6. ASSUME NEW k \in 1 .. n, NEW v, LookHolds(color, p, 0, base, seq, k - 1, v)
      PROVE  /\ k \in DOMAIN seq => LookHolds(color, p, 0, base, seq, k, LookTurn(color, p, 0, v, seq[k]))
             /\ k \notin DOMAIN seq => LookHolds(color, p, 0, base, seq, k, v)
  <2> DEFINE w == LookTurn(color, p, 0, v, seq[k])
  <2>1. Looked(v) /\ StonesOnly(K, v.m) /\ Shape(v.m)
    BY <1>4, <1>6 DEF LookHolds, StonesOnly, Logged
  <2>2. Looked(w) /\ StonesOnly(v.m, w.m)
    BY <2>1, LookTurnIs
  <2> HIDE DEF w
  <2>3. StonesOnly(K, w.m)
    BY <2>1, <2>2, StonesOnlyOn
  <2> QED BY <1>4, <2>1, <2>2, <2>3 DEF LookHolds, w
<1>7. LookHolds(color, p, 0, base, seq, n, Looks!Loop(color, p, 0, base, seq))
  BY <1>3, <1>5, <1>6, Looks!LoopKeeps
<1> QED BY <1>1, <1>4, <1>7 DEF LookHolds, K

(* The ko and the hash are written without a push.                         *)
LEMMA KoWritten ==
  ASSUME NEW N, Shape(N), NEW ko, NEW hash
  PROVE  LET K == [N EXCEPT !.ko = ko, !.hash = hash] IN
         Logged(Places \ {<<"ko">>}, N, K) /\ \A f \in Fields \ {"ko", "hash"} : K[f] = N[f]
<1> DEFINE K == [N EXCEPT !.ko = ko, !.hash = hash]
<1>1. N = [f \in Fields |-> N[f]] /\ {"ko", "hash", "log"} \subseteq Fields /\ DOMAIN Over \subseteq Fields \ {"ko", "hash"}
  BY DEF Shape, Fields, Over
<1>2. K = [f \in Fields |-> K[f]] /\ \A f \in Fields \ {"ko", "hash"} : K[f] = N[f]
  BY <1>1
<1> HIDE DEF K
<1>3. Shape(K) /\ K.log = N.log
  <2>1. K.log = N.log
    BY <1>1, <1>2
  <2>2. IsLog(K.log)
    BY <2>1 DEF Shape
  <2>3. \A f \in Fields : K[f] = N[f] \/ Redone(f, N[f], K[f])
    BY <1>1, <1>2 DEF Redone
  <2> QED BY <1>2, <2>1, <2>2, <2>3, ShapeStill
<1>4. ASSUME NEW at \in Places \ {<<"ko">>} PROVE Peek(K, at) = Peek(N, at)
  <2>1. at[1] \in Fields \ {"ko", "hash"}
    BY DEF Places, Fields
  <2> QED BY <1>2, <2>1, PeekSame
<1>5. Logged(Places \ {<<"ko">>}, N, K)
  <2>1. Logged(Places \ {<<"ko">>}, N, N)
    BY LoggedSelf
  <2> QED BY <1>3, <1>4, <2>1, Written
<1> QED BY <1>2, <1>5 DEF K

LEMMA NoteKoIs ==
  ASSUME NEW N, Shape(N), NEW s, NEW taken
  PROVE  /\ Logged(Places \ {<<"ko">>}, N, NoteKo(N, s, taken))
         /\ \A f \in Fields \ {"ko", "hash"} : NoteKo(N, s, taken)[f] = N[f]
<1> DEFINE ko == N.lib[s][1]
           hash == SymDiff(SymDiff(N.hash, KoPart(N.ko)), {KoHash(ko)})
           K == [N EXCEPT !.ko = ko, !.hash = hash]
<1>1. Logged(Places \ {<<"ko">>}, N, N)
  BY LoggedSelf
<1>2. NoteKo(N, s, taken) \in {N, K}
  BY DEF NoteKo
<1> HIDE DEF ko, hash
<1>3. Logged(Places \ {<<"ko">>}, N, K)
  BY KoWritten
<1>4. \A f \in Fields \ {"ko", "hash"} : K[f] = N[f]
  <2>1. N = [f \in Fields |-> N[f]]
    BY DEF Shape
  <2> QED BY <2>1
<1> HIDE DEF K
<1> QED BY <1>1, <1>2, <1>3, <1>4

LEMMA LoggedAlso ==
  ASSUME NEW C, NEW D, NEW E, NEW F, NEW N, NEW K, NEW J,
         Logged(D, N, K), Logged(E, K, J), C \subseteq D, C \subseteq E
  PROVE  Logged(C, N, J)
BY LoggedLess, LoggedOn

(* What a move leaves the log able to give back.                           *)
LEMMA PlayStoneIs ==
  ASSUME NEW N, Shape(N), NEW p \in Points, NEW color
  PROVE  /\ Logged(Places \ Unsaved(N, p), N, PlayStone(N, p, color))
         /\ PlayStone(N, p, color).next_string \in {N.next_string, N.next_string + 1}
<1> DEFINE C == Places \ Unsaved(N, p)
           K == StonePutOn(N, p, color)
           A == PutStone(N, p, color)
           J == A.m
           S == Singleton(J, p)
           B1 == CreateNewString(J, p)
           B2 == ExtendNeighborString(J, p, A.allies[1])
           B3 == AssimilateNeighborStrings(J, p)
<1>1. Logged(C, N, K) /\ K.next_string = N.next_string
  <2>1. Logged(Places \ {<<"number", p>>}, N, K)
    BY PutIs
  <2>2. C \in SUBSET (Places \ {<<"number", p>>})
    BY DEF Unsaved
  <2>3. "next_string" \in Fields \ {"board", "number", "hash", "log"}
    BY DEF Fields
  <2>4. \A f \in Fields \ {"board", "number", "hash", "log"} : K[f] = N[f]
    BY PutIs
  <2> HIDE DEF K, C
  <2> QED BY <2>1, <2>2, <2>3, <2>4, LoggedLess
<1>2. Logged(C, N, J) /\ Shape(J) /\ J.next_string = N.next_string
  <2>1. StonesOnly(K, J)
    BY PutStoneIs
  <2>2. C \subseteq Places \ Captured
    BY DEF Unsaved
  <2>3. "next_string" \in Fields \ (Lists \cup {"board", "hash", "captured", "log"})
    BY DEF Fields, Lists
  <2> HIDE DEF K, J, C
  <2>4. Logged(C, N, J)
    BY <1>1, <2>1, <2>2, LoggedAlso DEF StonesOnly
  <2> QED BY <1>1, <2>1, <2>3, <2>4 DEF StonesOnly, Logged
<1>3. C = Places \ Unsaved(J, p)
  BY <1>2 DEF Unsaved
<1> HIDE DEF K, J
<1>4. Logged(C, N, S) /\ S.next_string = N.next_string + 1
  <2>1. Logged(C, N, S)
    BY <1>2, <1>3, SingletonIs, LoggedOn
  <2>2. S.next_string = J.next_string + 1
    BY <1>2, SingletonIs
  <2> QED BY <1>2, <2>1, <2>2
<1>5. ASSUME NEW s, NEW taken
      PROVE  Logged(C, N, NoteKo(B1, s, taken)) /\ NoteKo(B1, s, taken).next_string = N.next_string + 1
  <2>1. Only(Lists, S, B1) /\ Shape(B1)
    BY <1>2, CreateNewStringIs, OnlyShape
  <2>2. C \subseteq Places /\ C \subseteq Places \ {<<"ko">>}
    BY DEF Unsaved
  <2> HIDE DEF S, B1, C
  <2>3. Logged(C, N, B1)
    BY <1>4, <2>1, <2>2, LoggedAlso DEF Only
  <2>4. /\ Logged(Places \ {<<"ko">>}, B1, NoteKo(B1, s, taken))
        /\ \A f \in Fields \ {"ko", "hash"} : NoteKo(B1, s, taken)[f] = B1[f]
    BY <2>1, NoteKoIs
  <2>5. "next_string" \in Fields \ {"ko", "hash"} /\ "next_string" \in Fields \ (Lists \cup {"log"})
    BY DEF Fields, Lists
  <2>6. NoteKo(B1, s, taken).next_string = N.next_string + 1
    BY <1>4, <2>1, <2>4, <2>5 DEF Only
  <2> QED BY <2>2, <2>3, <2>4, <2>6, LoggedAlso
<1>6. Logged(C, N, B2) /\ B2.next_string = N.next_string
  <2> DEFINE s == A.allies[1]
             I == Joined(J, p, s)
  <2> HIDE DEF s
  <2>1. Logged(C, J, I) /\ Shape(I)
    BY <1>2, <1>3, JoinedIs DEF Logged
  <2>2. Only(Lists, I, ExtendNeighborString(J, p, s))
    BY <1>2, ExtendNeighborStringIs
  <2>3. C \subseteq Places
    OBVIOUS
  <2>6. "next_string" \in Fields \ {"number", "next", "origin", "size", "log"}
        /\ "next_string" \in Fields \ (Lists \cup {"log"})
    BY DEF Fields, Lists
  <2>7. \A f \in Fields \ {"number", "next", "origin", "size", "log"} : I[f] = J[f]
    BY <1>2, JoinedIs
  <2> HIDE DEF I, C
  <2>4. Logged(C, N, I)
    BY <1>2, <2>1, LoggedOn
  <2>5. Logged(C, N, ExtendNeighborString(J, p, s))
    BY <2>2, <2>3, <2>4, LoggedAlso DEF Only
  <2>8. ExtendNeighborString(J, p, s).next_string = N.next_string
    BY <1>2, <2>2, <2>6, <2>7 DEF Only
  <2> QED BY <2>5, <2>8 DEF s
<1>7. Logged(C, N, B3) /\ B3.next_string = N.next_string + 1
  <2>1. StringsOnly(J.next_string, S, B3)
    BY <1>2, AssimilateNeighborStringsIs
  <2>2. C \subseteq Places \ {<<"origin", J.next_string>>}
    BY <1>2 DEF Unsaved
  <2>3. "next_string" \in Fields \ ((Strings \ {"next_string"}) \cup Lists \cup {"log"})
    BY DEF Fields, Lists
  <2> HIDE DEF S, B3, C
  <2>4. B3.next_string = N.next_string + 1
    BY <1>4, <2>1, <2>3 DEF StringsOnly
  <2> QED BY <1>4, <2>1, <2>2, <2>4, LoggedAlso DEF StringsOnly
<1>8. PlayStone(N, p, color) \in {NoteKo(B1, B1.number[p], A.taken), B2, B3}
  BY DEF PlayStone, J
<1> HIDE DEF B1, B2, B3, C, A
<1>9. /\ Logged(C, N, PlayStone(N, p, color))
      /\ PlayStone(N, p, color).next_string \in {N.next_string, N.next_string + 1}
  BY <1>5, <1>6, <1>7, <1>8
<1> QED BY <1>9 DEF C

LEMMA SingletonBoard ==
  ASSUME NEW N, Shape(N), NEW p
  PROVE  Singleton(N, p).board = N.board
<1>1. \A f \in Fields \ (Strings \cup Lists \cup {"log"}) : Singleton(N, p)[f] = N[f]
  BY SingletonIs
<1>2. "board" \in Fields \ (Strings \cup Lists \cup {"log"})
  BY DEF Fields, Strings, Lists
<1> QED BY <1>1, <1>2

LEMMA VacatedAlso ==
  ASSUME NEW N, NEW J, NEW K, NEW C, Vacated(N, J), Longer(N.log, J.log), Logged(C, J, K), K.board = J.board
  PROVE  Vacated(N, K) /\ Longer(N.log, K.log)
BY VacatedSame, VacatedOn, LongerStill DEF Logged

LEMMA PlayStoneVacates ==
  ASSUME NEW N, Shape(N), NEW p \in Points, NEW color \in Colors
  PROVE  Vacated(N, PlayStone(N, p, color))
<1> DEFINE K == StonePutOn(N, p, color)
           A == PutStone(N, p, color)
           J == A.m
           S == Singleton(J, p)
           B1 == CreateNewString(J, p)
           B2 == ExtendNeighborString(J, p, A.allies[1])
           B3 == AssimilateNeighborStrings(J, p)
           Fine(B) == Vacated(N, B) /\ Longer(N.log, B.log)
<1>1. Fine(K) /\ Shape(K)
  <2> DEFINE at == <<"board", p>>  name == <<"number", p>>
  <2>1. Logged(Places \ {name}, N, K) /\ PutAs(N, p, color, K)
    BY PutIs
  <2> HIDE DEF K
  <2>2. ASSUME NEW q \in Points, N.board[q] # "empty" PROVE K.board[q] # "empty"
    <3> DEFINE c == <<"board", q>>
    <3>1. c \in Places /\ c # name /\ Peek(K, c) = K.board[q] /\ Peek(N, c) = N.board[q]
      BY PeekIs DEF Places
    <3>2. Peek(K, c) = IF c = at THEN color ELSE Peek(N, c)
      BY <2>1, <3>1 DEF PutAs
    <3> HIDE DEF c, at
    <3> QED BY <2>2, <3>1, <3>2 DEF Colors
  <2> QED BY <2>1, <2>2 DEF Vacated, Logged
<1>2. Fine(J) /\ Shape(J)
  <2>1. StonesOnly(K, J)
    BY PutStoneIs
  <2> HIDE DEF K, J
  <2> QED BY <1>1, <2>1, VacatedOn, LongerStill DEF StonesOnly, Logged
<1> HIDE DEF K, J
<1>3. Fine(S) /\ Shape(S)
  <2>0. Logged(Places \ Unsaved(J, p), J, S)
    BY <1>2, SingletonIs
  <2>2. Singleton(J, p).board = J.board
    BY <1>2, SingletonBoard
  <2> HIDE DEF S
  <2>3. S.board = J.board /\ Shape(S)
    BY <2>0, <2>2 DEF Logged, S
  <2> QED BY <1>2, <2>0, <2>3, VacatedAlso
<1>4. "board" \in Fields \ (Lists \cup {"log"}) /\ "board" \in Fields \ {"ko", "hash"}
      /\ "board" \in Fields \ {"number", "next", "origin", "size", "log"}
      /\ "board" \in Fields \ ((Strings \ {"next_string"}) \cup Lists \cup {"log"})
  BY DEF Fields, Strings, Lists
<1>5. ASSUME NEW I, NEW B, Fine(I), Only(Lists, I, B) PROVE Fine(B) /\ Shape(B)
  BY <1>4, <1>5, VacatedAlso DEF Only, Logged
<1>6. ASSUME NEW s, NEW taken PROVE Fine(NoteKo(B1, s, taken))
  <2>1. Only(Lists, S, B1)
    BY <1>2, CreateNewStringIs
  <2> HIDE DEF S, B1
  <2>2. Fine(B1) /\ Shape(B1)
    BY <1>3, <1>5, <2>1
  <2>3. Logged(Places \ {<<"ko">>}, B1, NoteKo(B1, s, taken)) /\ NoteKo(B1, s, taken).board = B1.board
    BY <1>4, <2>2, NoteKoIs
  <2> QED BY <2>2, <2>3, VacatedAlso
<1>7. Fine(B2)
  <2> DEFINE s == A.allies[1]
             I == Joined(J, p, s)
  <2> HIDE DEF s
  <2>1. Logged(Places \ Unsaved(J, p), J, I) /\ I.board = J.board
    BY <1>2, <1>4, JoinedIs
  <2>2. Only(Lists, I, ExtendNeighborString(J, p, s))
    BY <1>2, ExtendNeighborStringIs
  <2> HIDE DEF I
  <2>3. Fine(I)
    BY <1>2, <2>1, VacatedAlso
  <2> QED BY <1>5, <2>2, <2>3 DEF s
<1>8. Fine(B3)
  <2>1. StringsOnly(J.next_string, S, B3)
    BY <1>2, AssimilateNeighborStringsIs
  <2> HIDE DEF S, B3
  <2>2. Logged(Places \ {<<"origin", J.next_string>>}, S, B3) /\ B3.board = S.board
    BY <1>4, <2>1 DEF StringsOnly
  <2> QED BY <1>3, <2>2, VacatedAlso
<1>9. PlayStone(N, p, color) \in {NoteKo(B1, B1.number[p], A.taken), B2, B3}
  BY DEF PlayStone, J
<1> HIDE DEF B1, B2, B3, A
<1> QED BY <1>6, <1>7, <1>8, <1>9

-----------------------------------------------------------------------------
(* What matters of a memory: the position, the number and the link of      *)
(* every stone, and the origin of every string there is.                   *)
Kept(P) ==
    {at \in Places : /\ at[1] \in {"number", "next"} => P.board[at[2]] # "empty"
                     /\ at[1] = "origin" => at[2] < P.next_string}

(* The log of K down to b gives P back.                                    *)
GivesBack(b, K, P) == \A at \in Kept(P) : Restores(K.log, b, Len(K.log), at, Peek(K, at), Peek(P, at))

LEMMA GivesBackOn ==
  ASSUME NEW N, NEW K, NEW P, NEW b \in Nat, b <= Len(N.log), GivesBack(b, N, P), NEW C, Logged(C, N, K),
         \A at \in Kept(P) \ C : \E i \in b + 1 .. Len(N.log) : N.log[i].at = at
  PROVE  GivesBack(b, K, P)
<1> SUFFICES ASSUME NEW at \in Kept(P)
             PROVE  Restores(K.log, b, Len(K.log), at, Peek(K, at), Peek(P, at))
  BY DEF GivesBack
<1>1. Longer(N.log, K.log) /\ Restores(N.log, b, Len(N.log), at, Peek(N, at), Peek(P, at))
  BY DEF Logged, GivesBack
<1>2. CASE at \in C
  <2>1. Restores(K.log, Len(N.log), Len(K.log), at, Peek(K, at), Peek(N, at))
    BY <1>2 DEF Logged
  <2> QED BY <1>1, <2>1, RestoresOn
<1>3. CASE at \notin C
  <2>1. ~Unpushed(N.log, b, Len(N.log), at)
    BY <1>3 DEF Unpushed
  <2>2. PICK i \in b + 1 .. Len(N.log) :
           N.log[i].at = at /\ N.log[i].was = Peek(P, at) /\ Unpushed(N.log, b, i - 1, at)
    BY <1>1, <2>1 DEF Restores, PushedFirst
  <2>3. i \in b + 1 .. Len(K.log) /\ K.log[i] = N.log[i] /\ \A j \in b + 1 .. i - 1 : K.log[j] = N.log[j]
    BY <1>1, <2>2 DEF Longer
  <2>4. PushedFirst(K.log, b, Len(K.log), at, Peek(P, at))
    BY <2>2, <2>3 DEF PushedFirst, Unpushed
  <2> QED BY <2>4 DEF Restores
<1> QED BY <1>2, <1>3

LEMMA KoGivenUp ==
  ASSUME NEW N, Shape(N)
  PROVE  Logged(Places \ {<<"ko">>}, N, KoCleared(N)) /\ \A f \in Fields \ {"ko", "hash"} : KoCleared(N)[f] = N[f]
<1> DEFINE hash == SymDiff(N.hash, KoPart(N.ko))
           K == [N EXCEPT !.ko = NoMove, !.hash = hash]
<1>1. KoCleared(N) = K
  BY DEF KoCleared
<1> HIDE DEF hash
<1>2. Logged(Places \ {<<"ko">>}, N, K) /\ \A f \in Fields \ {"ko", "hash"} : K[f] = N[f]
  <2>1. Logged(Places \ {<<"ko">>}, N, K)
    BY KoWritten
  <2>2. \A f \in Fields \ {"ko", "hash"} : K[f] = N[f]
    <3>1. N = [f \in Fields |-> N[f]]
      BY DEF Shape
    <3> QED BY <3>1
  <2> QED BY <2>1, <2>2
<1> HIDE DEF K
<1> QED BY <1>1, <1>2

LEMMA BeginIs ==
  ASSUME NEW N, Shape(N)
  PROVE  LET K == BeginChangeRecord(N) IN
         /\ Shape(K) /\ (\A f \in Fields \ {"log"} : K[f] = N[f]) /\ (\A at \in Places : Peek(K, at) = Peek(N, at))
         /\ Len(N.log) \in Nat /\ Len(K.log) = Len(N.log) + 1
         /\ (\A i \in 1 .. Len(N.log) : K.log[i] = N.log[i]) /\ K.log[Len(N.log) + 1] = Mark
<1> DEFINE K == BeginChangeRecord(N)
           L == Append(N.log, Mark)
<1>1. N = [f \in Fields |-> N[f]] /\ "log" \in Fields /\ IsLog(N.log) /\ DOMAIN Over \subseteq Fields \ {"log"}
      /\ \A at \in Places : at[1] \in Fields \ {"log"}
  BY DEF Shape, Fields, Over, Places
<1>2. K = [N EXCEPT !.log = L]
  BY DEF BeginChangeRecord
<1> HIDE DEF K
<1>3. /\ IsLog(L) /\ Len(N.log) \in Nat /\ Len(L) = Len(N.log) + 1
      /\ (\A i \in 1 .. Len(N.log) : L[i] = N.log[i]) /\ L[Len(N.log) + 1] = Mark
  <2> DEFINE e == Mark
  <2> HIDE DEF e
  <2>1. L = Append(N.log, e)
    BY DEF e
  <2> HIDE DEF L
  <2>2. /\ IsLog(L) /\ Len(N.log) \in Nat /\ Len(L) = Len(N.log) + 1
        /\ (\A i \in 1 .. Len(N.log) : L[i] = N.log[i]) /\ L[Len(N.log) + 1] = e
    <3> DEFINE l == N.log
    <3> HIDE DEF l
    <3>1. IsLog(l) /\ L = Append(l, e)
      BY <1>1, <2>1 DEF l
    <3>2. Len(l) \in Nat /\ Len(L) = Len(l) + 1
      BY <3>1, LogGrows
    <3>3. IsLog(L)
      BY <3>1, LogGrows
    <3>4. L[Len(l) + 1] = e
      BY <3>1, LogGrows
    <3>5. \A i \in 1 .. Len(l) : L[i] = l[i]
      BY <3>1, LogGrows
    <3> QED BY <3>2, <3>3, <3>4, <3>5 DEF l
  <2> QED BY <2>2 DEF e
<1> HIDE DEF L
<1>4. K = [f \in Fields |-> K[f]] /\ K.log = L /\ \A f \in Fields \ {"log"} : K[f] = N[f]
  BY <1>1, <1>2
<1>5. Shape(K)
  <2>1. IsLog(K.log)
    BY <1>3, <1>4
  <2>2. \A f \in Fields : K[f] = N[f] \/ Redone(f, N[f], K[f])
    BY <1>4 DEF Redone, Over
  <2> QED BY <1>4, <2>1, <2>2, ShapeStill
<1>6. \A at \in Places : Peek(K, at) = Peek(N, at)
  BY <1>1, <1>4, PeekSame
<1> QED BY <1>3, <1>4, <1>5, <1>6 DEF K

(* Whatever a trial move does, the log down to its mark gives back what it *)
(* was made from.                                                          *)
LEMMA TrymoveGivesBack ==
  ASSUME Shape(M), M.next_string \in Nat, NEW p \in Points \cup {NoMove}, NEW color \in Colors,
         p # NoMove => M.board[p] = "empty"
  PROVE  LET B == BeginChangeRecord(M)  K == ReallyDoTrymove(p, color) IN
         /\ Shape(K) /\ Longer(B.log, K.log) /\ GivesBack(Len(B.log), K, M) /\ Vacated(B, K)
         /\ K.next_string \in Nat /\ K.next_string \in {M.next_string, M.next_string + 1}
<1> DEFINE B == BeginChangeRecord(M)
           b == Len(B.log)
           ko == <<"ko">>
           c1 == <<"captured", "black">>
           c2 == <<"captured", "white">>
           ats == <<c1, c2>>
           N1 == Push(B, ko)
           N2 == KoCleared(N1)
           N3 == PushAll(N2, ats)
           N4 == PlayStone(N3, p, color)
<1>1. /\ Address(ko) /\ Address(c1) /\ Address(c2) /\ ko \in Places
      /\ DOMAIN ats = 1 .. 2 /\ ats[1] = c1 /\ ats[2] = c2 /\ Captured = {c1, c2}
  BY DEF Address, Places, Over, Captured, Colors
<1>2. ReallyDoTrymove(p, color) = IF p = NoMove THEN N2 ELSE N4
  BY DEF ReallyDoTrymove
<1>3. Unsaved(N3, p) = Captured \cup {ko, <<"number", p>>, <<"next", p>>, <<"origin", N3.next_string>>}
  BY DEF Unsaved
<1> HIDE DEF ko, c1, c2, ats
<1>4. /\ Shape(B) /\ b \in Nat /\ (\A f \in Fields \ {"log"} : B[f] = M[f])
      /\ \A at \in Places : Peek(B, at) = Peek(M, at)
  <2> HIDE DEF B
  <2>1. Len(M.log) \in Nat /\ Len(B.log) = Len(M.log) + 1
    BY BeginIs DEF B
  <2> QED BY <2>1, BeginIs DEF B
<1> HIDE DEF B
<1>5. GivesBack(b, B, M)
  BY <1>4 DEF GivesBack, Restores, Unpushed, Kept
<1>6. Logged(Places, B, N1) /\ Shape(N1) /\ Pushed(B, N1, ko) /\ \A f \in Fields \ {"log"} : N1[f] = B[f]
  <2>1. Longer(B.log, B.log)
    BY <1>4, LoggedSelf DEF Logged
  <2> QED BY <1>1, <1>4, <2>1, PushLogged, PushIs, PushPushes
<1> HIDE DEF N1
<1>7. b <= Len(N1.log) /\ Longer(B.log, N1.log)
  BY <1>6 DEF Logged, Longer
<1>8. GivesBack(b, N1, M)
  BY <1>4, <1>5, <1>6, GivesBackOn DEF Kept
<1>9. /\ Logged(Places \ {ko}, N1, N2) /\ Shape(N2) /\ \A f \in Fields \ {"ko", "hash"} : N2[f] = N1[f]
  <2>1. /\ Logged(Places \ {ko}, N1, N2) /\ \A f \in Fields \ {"ko", "hash"} : N2[f] = N1[f]
    BY <1>6, KoGivenUp DEF ko
  <2> QED BY <2>1 DEF Logged
<1> HIDE DEF N2
<1>10. GivesBack(b, N2, M)
  BY <1>4, <1>6, <1>7, <1>8, <1>9, GivesBackOn DEF Kept, Pushed
<1>11. Longer(B.log, N2.log) /\ Pushed(B, N2, ko)
  BY <1>6, <1>7, <1>9, LongerStill, PushedStays DEF Logged
<1>14. N2.next_string = M.next_string
  <2>1. "next_string" \in Fields \ {"log", "ko", "hash"}
    BY DEF Fields
  <2> QED BY <1>4, <1>6, <1>9, <2>1
<1>15. N2.board = B.board
  <2>1. "board" \in Fields \ {"log"} /\ "board" \in Fields \ {"ko", "hash"}
    BY DEF Fields
  <2> QED BY <1>6, <1>9, <2>1
<1>12. CASE p = NoMove
  BY <1>2, <1>9, <1>10, <1>11, <1>12, <1>14, <1>15, VacatedSame DEF B, b
<1>13. CASE p # NoMove
  <2>1. Only({}, N2, N3) /\ Shape(N3) /\ Pushed(N2, N3, c1) /\ Pushed(N2, N3, c2)
    <3>1. DOMAIN ats \subseteq 1 .. 2 /\ \A x \in DOMAIN ats : Address(ats[x])
      BY <1>1
    <3>2. Only({}, N2, N3) /\ \A x \in DOMAIN ats : Pushed(N2, N3, ats[x])
      BY <1>9, <3>1, PushAllIs
    <3> QED BY <1>1, <3>2, OnlyShape
  <2> HIDE DEF N3
  <2>2. GivesBack(b, N3, M)
    <3>1. b <= Len(N2.log)
      BY <1>11 DEF Longer
    <3> QED BY <1>4, <1>10, <2>1, <3>1, GivesBackOn DEF Kept, Only
  <2>3. Longer(B.log, N3.log) /\ Pushed(B, N3, ko) /\ Pushed(B, N3, c1) /\ Pushed(B, N3, c2)
    <3>1. Longer(N2.log, N3.log)
      BY <2>1 DEF Only, Logged
    <3>2. Longer(B.log, N3.log) /\ Pushed(B, N3, ko)
      BY <1>11, <3>1, LongerStill, PushedStays
    <3>3. \A x \in Len(N2.log) + 1 .. Len(N3.log) : x \in b + 1 .. Len(N3.log)
      BY <1>11, <3>1 DEF Longer
    <3> QED BY <2>1, <3>2, <3>3 DEF Pushed
  <2>4. N3.next_string = M.next_string
    <3>1. "next_string" \in Fields \ {"log"}
      BY DEF Fields
    <3> QED BY <1>14, <2>1, <3>1 DEF Only
  <2>5. Logged(Places \ Unsaved(N3, p), N3, N4) /\ N4.next_string \in {M.next_string, M.next_string + 1}
    BY <1>13, <2>1, <2>4, PlayStoneIs
  <2>6. ASSUME NEW at \in Kept(M) \ (Places \ Unsaved(N3, p)) PROVE at \in {ko, c1, c2}
    <3>1. at \in Places /\ at \in Unsaved(N3, p)
      BY DEF Kept
    <3>2. at \notin {<<"number", p>>, <<"next", p>>}
      BY <1>13 DEF Kept
    <3>3. at # <<"origin", N3.next_string>>
      BY <2>4 DEF Kept
    <3> QED BY <1>1, <1>3, <3>1, <3>2, <3>3
  <2> HIDE DEF N4
  <2>7. GivesBack(b, N4, M)
    <3>1. b <= Len(N3.log)
      BY <2>3 DEF Longer
    <3> QED BY <1>4, <2>2, <2>3, <2>5, <2>6, <3>1, GivesBackOn DEF Pushed
  <2>8. Longer(B.log, N4.log) /\ Shape(N4)
    BY <2>3, <2>5, LongerStill DEF Logged
  <2>9. N4.next_string \in Nat /\ N4.next_string \in {M.next_string, M.next_string + 1}
    BY <2>5
  <2>10. Vacated(B, N4)
    <3>1. "board" \in Fields \ ({} \cup {"log"})
      BY DEF Fields
    <3>2. Vacated(B, N3)
      BY <1>15, <2>1, <3>1, VacatedSame DEF Only
    <3>3. Vacated(N3, N4)
      BY <1>13, <2>1, PlayStoneVacates DEF N4
    <3> QED BY <2>3, <2>5, <3>2, <3>3, VacatedOn DEF Logged
  <2> QED BY <1>2, <1>13, <2>7, <2>8, <2>9, <2>10 DEF B, b
<1> QED BY <1>12, <1>13

LEMMA SetNewKomasterIs ==
  ASSUME NEW N, Shape(N), NEW komaster, NEW kom_pos
  PROVE  LET K == SetNewKomaster(N, komaster, kom_pos) IN
         Only({"komaster", "kom_pos", "hash"}, N, K)
<1> DEFINE c1 == <<"komaster">>
           c2 == <<"kom_pos">>
           J == Assign(N, c1, komaster)
           I == Assign(J, c2, kom_pos)
           Turned(a, b) == SymDiff({a}, {b})
           hash == SymDiff(SymDiff(I.hash, Turned(KomasterHash(N.komaster), KomasterHash(komaster))),
                           Turned(KomPosHash(N.kom_pos), KomPosHash(kom_pos)))
           K == [I EXCEPT !.hash = hash]
<1>1. SetNewKomaster(N, komaster, kom_pos) = K
  BY DEF SetNewKomaster
<1>2. Address(c1) /\ Address(c2) /\ c1[1] = "komaster" /\ c2[1] = "kom_pos"
  BY DEF Address, Places
<1> HIDE DEF c1, c2
<1>3. Only({"komaster"}, N, J) /\ Shape(J)
  BY <1>2, AssignLogged DEF Only, Logged
<1> HIDE DEF J
<1>4. Only({"kom_pos"}, J, I) /\ Shape(I)
  BY <1>2, <1>3, AssignLogged DEF Only, Logged
<1> HIDE DEF I, hash
<1>5. Only({"hash"}, I, K)
  BY <1>4, HashWritten
<1> HIDE DEF K
<1>6. Only({"komaster"} \cup ({"kom_pos"} \cup {"hash"}), N, K)
  BY <1>3, <1>4, <1>5, OnlyOn
<1>7. {"komaster"} \cup ({"kom_pos"} \cup {"hash"}) = {"komaster", "kom_pos", "hash"}
  OBVIOUS
<1> QED BY <1>1, <1>6, <1>7

LEMMA KomasterAfterIs ==
  ASSUME NEW N, Shape(N), NEW color, NEW ko_move, NEW kpos
  PROVE  Only({"komaster", "kom_pos", "hash"}, N, KomasterAfter(N, color, ko_move, kpos))
<1>1. KomasterAfter(N, color, ko_move, kpos) \in
        {N, SetNewKomaster(N, "empty", NoMove), SetNewKomaster(N, Gray(Other(color)), N.kom_pos),
         SetNewKomaster(N, color, kpos), SetNewKomaster(N, "weak_ko", M.ko)}
  BY DEF KomasterAfter
<1> QED BY <1>1, OnlySelf, SetNewKomasterIs

-----------------------------------------------------------------------------
(* Permanent moves.                                                        *)
KillTurn(color, b, c, v, q) == IF v.board[q] = color THEN DoRemoveString(v, v.number[q]) ELSE v
KillHolds(color, b, c, base, seq, k, v) == Shape(v) /\ v.next_string = base.next_string
Kills == INSTANCE Recursion WITH Turn <- KillTurn, Holds <- KillHolds

LEMMA CommitSuicideIs ==
  ASSUME NEW N, Shape(N), NEW p \in Points, NEW color
  PROVE  Shape(CommitSuicide(N, p, color)) /\ CommitSuicide(N, p, color).next_string = N.next_string
<1> DEFINE seq == Around[p]
           n == Len(seq)
           J == Kills!Loop(color, 0, 0, N, seq)
           x == J.captured[color] + 1
           K == [J EXCEPT !.captured[color] = x]
<1>1. CommitSuicide(N, p, color) = K
  BY DEF CommitSuicide, KillTurn, FoldLeft, MapThenFoldSet, Max,
         Kills!Greatest, Kills!Loop, Kills!Rest, Kills!RestOver
<1>2. n \in Nat /\ DOMAIN seq \subseteq 1 .. n
  BY StringAssumption
<1> HIDE DEF seq, n
<1>3. KillHolds(color, 0, 0, N, seq, 0, N)
  BY DEF KillHolds
<1>4. ASSUME NEW k \in 1 .. n, NEW v, KillHolds(color, 0, 0, N, seq, k - 1, v)
      PROVE  /\ k \in DOMAIN seq => KillHolds(color, 0, 0, N, seq, k, KillTurn(color, 0, 0, v, seq[k]))
             /\ k \notin DOMAIN seq => KillHolds(color, 0, 0, N, seq, k, v)
  <2> DEFINE w == DoRemoveString(v, v.number[seq[k]])
  <2>1. StonesOnly(v, w)
    BY <1>4, DoRemoveStringIs DEF KillHolds, StonesOnly
  <2>2. "next_string" \in Fields \ (Lists \cup {"board", "hash", "captured", "log"})
    BY DEF Fields, Lists
  <2>3. Shape(w) /\ w.next_string = v.next_string
    BY <2>1, <2>2 DEF StonesOnly, Logged
  <2> QED BY <1>4, <2>3 DEF KillHolds, KillTurn
<1>5. KillHolds(color, 0, 0, N, seq, n, Kills!Loop(color, 0, 0, N, seq))
  BY <1>2, <1>3, <1>4, Kills!LoopKeeps
<1>6. Shape(J) /\ J.next_string = N.next_string
  BY <1>5 DEF KillHolds
<1> HIDE DEF J, x
<1>7. Shape(K)
  <2>1. Logged(Places, J, J) /\ Places \in SUBSET Places
    BY <1>6, LoggedSelf
  <2>2. Logged(Places \ Captured, J, K)
    BY <2>1, CapturedWritten
  <2> QED BY <2>2 DEF Logged
<1>8. K.next_string = J.next_string
  <2>1. J = [f \in Fields |-> J[f]] /\ "next_string" \in Fields
    BY <1>6 DEF Shape, Fields
  <2> QED BY <2>1
<1> HIDE DEF K
<1> QED BY <1>1, <1>6, <1>7, <1>8

LEMMA PlayedIs ==
  ASSUME Shape(M), M.next_string \in Nat, NEW p \in Points \cup {NoMove}, NEW color
  PROVE  /\ Shape(Played(p, color)) /\ Played(p, color).next_string \in Nat
         /\ Played(p, color).next_string \in {M.next_string, M.next_string + 1}
<1> DEFINE N == KoCleared(M)
<1>1. Shape(N) /\ N.next_string = M.next_string
  <2>1. "next_string" \in Fields \ {"ko", "hash"}
    BY DEF Fields
  <2> QED BY <2>1, KoGivenUp DEF Logged
<1> HIDE DEF N
<1>2. CASE p = NoMove
  BY <1>1, <1>2 DEF Played, N
<1>3. CASE p # NoMove
  <2>1. p \in Points
    BY <1>3
  <2>2. Shape(CommitSuicide(N, p, color)) /\ CommitSuicide(N, p, color).next_string = N.next_string
    BY <1>1, <2>1, CommitSuicideIs
  <2>3. Shape(PlayStone(N, p, color)) /\ PlayStone(N, p, color).next_string \in {N.next_string, N.next_string + 1}
    BY <1>1, <2>1, PlayStoneIs DEF Logged
  <2>4. Played(p, color) \in {CommitSuicide(N, p, color), PlayStone(N, p, color)}
    BY <1>3 DEF Played, N
  <2> QED BY <1>1, <2>2, <2>3, <2>4
<1> QED BY <1>2, <1>3

(* What new_position starts from: the records may be anything.             *)
Bared(N) ==
    /\ N = [f \in Fields |-> N[f]]
    /\ N.board = [p \in Points |-> N.board[p]] /\ N.captured = [c \in Colors |-> N.captured[c]]

Records == {"number", "next", "color", "size", "origin", "liberties", "lib", "neighbors", "nb", "next_string", "log"}

LEMMA EmptyLog ==
  IsLog(<<>>)
<1>1. <<>> \in Seq({})
  OBVIOUS
<1> QED BY <1>1 DEF IsLog

LEMMA FormedValues ==
  ASSUME NEW f \in DOMAIN Over \ DOMAIN Within, NEW v, v = [x \in Over[f] |-> v[x]]
  PROVE  Formed(f, v)
BY DEF Formed

LEMMA FormedLists ==
  ASSUME NEW f \in DOMAIN Within, NEW v, v = [s \in Slots |-> v[s]],
         \A s \in Slots : v[s] = [k \in Within[f] |-> v[s][k]]
  PROVE  Formed(f, v)
<1>1. f \in DOMAIN Over => Over[f] = Slots
  BY DEF Over, Within
<1> QED BY <1>1 DEF Formed

LEMMA RecordsFormed ==
  ASSUME NEW K,
         K.number = [p \in Points |-> K.number[p]], K.next = [p \in Points |-> K.next[p]],
         K.color = [s \in Slots |-> K.color[s]], K.size = [s \in Slots |-> K.size[s]],
         K.origin = [s \in Slots |-> K.origin[s]], K.liberties = [s \in Slots |-> K.liberties[s]],
         K.neighbors = [s \in Slots |-> K.neighbors[s]],
         K.lib = [s \in Slots |-> K.lib[s]], K.nb = [s \in Slots |-> K.nb[s]],
         \A s \in Slots : K.lib[s] = [k \in 1 .. MaxLiberties |-> K.lib[s][k]],
         \A s \in Slots : K.nb[s] = [k \in 1 .. MaxStrings |-> K.nb[s][k]]
  PROVE  \A f \in Fields \cap Records : Formed(f, K[f])
<1> SUFFICES ASSUME NEW f \in Fields \cap Records PROVE Formed(f, K[f])
  OBVIOUS
<1>1. CASE f \in {"number", "next"}
  <2>1. f \in DOMAIN Over \ DOMAIN Within /\ Over[f] = Points
    BY <1>1 DEF Over, Within
  <2>2. K[f] = [x \in Points |-> K[f][x]]
    BY <1>1
  <2> QED BY <2>1, <2>2, FormedValues
<1>2. CASE f \in {"color", "size", "origin", "liberties", "neighbors"}
  <2>1. f \in DOMAIN Over \ DOMAIN Within /\ Over[f] = Slots
    BY <1>2 DEF Over, Within
  <2>2. K[f] = [x \in Slots |-> K[f][x]]
    BY <1>2
  <2> QED BY <2>1, <2>2, FormedValues
<1>3. CASE f = "lib"
  <2>1. f \in DOMAIN Over /\ Over[f] = Slots /\ Within[f] = 1 .. MaxLiberties
    BY <1>3 DEF Over, Within
  <2>2. \A s \in Slots : K[f][s] = [k \in Within[f] |-> K[f][s][k]]
    BY <1>3, <2>1
  <2>3. K[f] = [s \in Over[f] |-> K[f][s]]
    BY <1>3, <2>1
  <2> QED BY <2>2, <2>3 DEF Formed
<1>4. CASE f = "nb"
  <2>1. f \in DOMAIN Over /\ Over[f] = Slots /\ Within[f] = 1 .. MaxStrings
    BY <1>4 DEF Over, Within
  <2>2. \A s \in Slots : K[f][s] = [k \in Within[f] |-> K[f][s][k]]
    BY <1>4, <2>1
  <2>3. K[f] = [s \in Over[f] |-> K[f][s]]
    BY <1>4, <2>1
  <2> QED BY <2>2, <2>3 DEF Formed
<1>5. CASE f \in {"next_string", "log"}
  <2>1. f \notin DOMAIN Over
    BY <1>5 DEF Over
  <2> QED BY <2>1, FormedFlat
<1> QED BY <1>1, <1>2, <1>3, <1>4, <1>5 DEF Records

LEMMA ShapeBared ==
  ASSUME NEW N, Shape(N)
  PROVE  Bared(N)
<1>1. /\ "board" \in DOMAIN Over /\ Over["board"] = Points
      /\ "captured" \in DOMAIN Over /\ Over["captured"] = Colors
  BY DEF Over
<1>2. N.board = [p \in Points |-> N.board[p]]
  BY <1>1, ShapeOver
<1>3. N.captured = [c \in Colors |-> N.captured[c]]
  BY <1>1, ShapeOver
<1>4. N = [f \in Fields |-> N[f]]
  BY DEF Shape
<1> QED BY <1>2, <1>3, <1>4 DEF Bared

LEMMA RecordsWritten ==
  ASSUME NEW N, Bared(N), NEW K, K = [f \in Fields |-> K[f]], \A f \in Fields \ Records : K[f] = N[f],
         \A f \in Fields \cap Records : Formed(f, K[f]), IsLog(K.log)
  PROVE  Shape(K)
<1>3. K.board = N.board /\ K.captured = N.captured
  <2>1. {"board", "captured"} \subseteq Fields \ Records
    BY DEF Fields, Records
  <2> QED BY <2>1
<1>4. ASSUME NEW f \in Fields \ Records PROVE Formed(f, K[f])
  <2>1. CASE f = "board"
    <3>1. f \in DOMAIN Over \ DOMAIN Within /\ Over[f] = Points
      BY <2>1 DEF Over, Within
    <3>2. K[f] = [x \in Points |-> K[f][x]]
      BY <1>3, <2>1 DEF Bared
    <3> QED BY <3>1, <3>2, FormedValues
  <2>2. CASE f = "captured"
    <3>1. f \in DOMAIN Over \ DOMAIN Within /\ Over[f] = Colors
      BY <2>2 DEF Over, Within
    <3>2. K[f] = [x \in Colors |-> K[f][x]]
      BY <1>3, <2>2 DEF Bared
    <3> QED BY <3>1, <3>2, FormedValues
  <2>3. CASE f \notin {"board", "captured"}
    <3>1. f \notin DOMAIN Over
      BY <2>3 DEF Over, Records, Fields
    <3> QED BY <3>1, FormedFlat
  <2> QED BY <2>1, <2>2, <2>3
<1> QED BY <1>4 DEF Shape

LEMMA NewPositionIs ==
  ASSUME NEW N, Bared(N)
  PROVE  /\ Shape(NewPosition(N)) /\ NewPosition(N).log = <<>> /\ NewPosition(N).next_string \in Nat
         /\ \A f \in Fields \ Records : NewPosition(N)[f] = N[f]
<1> DEFINE origins == Ascending({p \in Points : N.board[p] # "empty" /\ p = Min(StringAt(N.board, p))})
           strings == [i \in DOMAIN origins |-> StringAt(N.board, origins[i])]
           chain == [i \in DOMAIN strings |-> Ascending(strings[i])]
           Of(p) == CHOOSE i \in DOMAIN strings : p \in strings[i]
           Successor(p) == LET c == chain[Of(p)]  k == CHOOSE k \in DOMAIN c : c[k] = p IN c[(k % Len(c)) + 1]
           Stone(p) == N.board[p] # "empty"
           Used(s) == s < Len(strings)
           ColorOf(s) == N.board[chain[s + 1][1]]
           Libs(s) == EmptyAround(N, chain[s + 1])
           Foes(s) == Ascending({Of(q) - 1 : q \in {q \in Points : N.board[q] = Other(ColorOf(s))
                                                        /\ Neighbors[q] \cap strings[s + 1] # {}}})
           Padded(list, n) == [k \in 1 .. n |-> IF k <= Len(list) THEN list[k] ELSE 0]
           number == [p \in Points |-> IF Stone(p) THEN Of(p) - 1 ELSE NoString]
           next == [p \in Points |-> IF Stone(p) THEN Successor(p) ELSE 0]
           color == [s \in Slots |-> IF Used(s) THEN ColorOf(s) ELSE "empty"]
           size == [s \in Slots |-> IF Used(s) THEN Cardinality(strings[s + 1]) ELSE 0]
           origin == [s \in Slots |-> IF Used(s) THEN chain[s + 1][1] ELSE 0]
           liberties == [s \in Slots |-> IF Used(s) THEN Len(Libs(s)) ELSE 0]
           lib == [s \in Slots |-> Padded(IF Used(s) THEN Libs(s) ELSE <<>>, MaxLiberties)]
           neighbors == [s \in Slots |-> IF Used(s) THEN Len(Foes(s)) ELSE 0]
           nb == [s \in Slots |-> Padded(IF Used(s) THEN Foes(s) ELSE <<>>, MaxStrings)]
           many == Len(strings)
           K == [N EXCEPT !.number = number, !.next = next, !.color = color, !.size = size, !.origin = origin,
                          !.liberties = liberties, !.lib = lib, !.neighbors = neighbors, !.nb = nb,
                          !.next_string = many, !.log = <<>>]
<1>1. N = [f \in Fields |-> N[f]]
  BY DEF Bared
<1>6. NewPosition(N) = K
  BY DEF NewPosition
<1>7. /\ number = [p \in Points |-> number[p]] /\ next = [p \in Points |-> next[p]]
      /\ origin = [s \in Slots |-> origin[s]] /\ color = [s \in Slots |-> color[s]]
      /\ size = [s \in Slots |-> size[s]] /\ liberties = [s \in Slots |-> liberties[s]]
      /\ neighbors = [s \in Slots |-> neighbors[s]]
  <2> HIDE DEF Stone, Of, Successor, Used, chain, ColorOf, Libs, Foes
  <2> QED OBVIOUS
<1>8. /\ lib = [s \in Slots |-> lib[s]] /\ \A s \in Slots : lib[s] = [k \in 1 .. MaxLiberties |-> lib[s][k]]
      /\ nb = [s \in Slots |-> nb[s]] /\ \A s \in Slots : nb[s] = [k \in 1 .. MaxStrings |-> nb[s][k]]
  <2> HIDE DEF Used, Libs, Foes
  <2> QED OBVIOUS
<1> HIDE DEF number, next, color, size, origin, liberties, lib, neighbors, nb, many
<1>2. /\ K = [f \in Fields |-> K[f]] /\ \A f \in Fields \ Records : K[f] = N[f]
      /\ K.number = number /\ K.next = next /\ K.origin = origin /\ K.log = <<>> /\ K.next_string = many
      /\ K.color = color /\ K.size = size /\ K.liberties = liberties /\ K.neighbors = neighbors
      /\ K.lib = lib /\ K.nb = nb
  BY <1>1 DEF Fields, Records
<1>4. Len(strings) \in Nat
  <2> DEFINE S == {p \in Points : N.board[p] # "empty" /\ p = Min(StringAt(N.board, p))}
             n == Cardinality(S)
  <2>1. n \in Nat
    BY PointsAssumption, FS_Subset, FS_CardinalityType
  <2>2. DOMAIN origins = 1 .. n
    BY DEF Ascending
  <2> HIDE DEF n, origins
  <2>3. strings = [i \in 1 .. n |-> strings[i]]
    BY <2>2
  <2> HIDE DEF strings
  <2>4. strings \in Seq({strings[i] : i \in 1 .. n})
    BY <2>1, <2>3
  <2> QED BY <2>4
<1> HIDE DEF K, strings
<1>9. \A f \in Fields \cap Records : Formed(f, K[f])
  <2>1. /\ K.number = [p \in Points |-> K.number[p]] /\ K.next = [p \in Points |-> K.next[p]]
        /\ K.origin = [s \in Slots |-> K.origin[s]] /\ K.color = [s \in Slots |-> K.color[s]]
        /\ K.size = [s \in Slots |-> K.size[s]] /\ K.liberties = [s \in Slots |-> K.liberties[s]]
        /\ K.neighbors = [s \in Slots |-> K.neighbors[s]]
        /\ K.lib = [s \in Slots |-> K.lib[s]] /\ K.nb = [s \in Slots |-> K.nb[s]]
    BY <1>2, <1>7, <1>8
  <2>2. /\ \A s \in Slots : K.lib[s] = [k \in 1 .. MaxLiberties |-> K.lib[s][k]]
        /\ \A s \in Slots : K.nb[s] = [k \in 1 .. MaxStrings |-> K.nb[s][k]]
    BY <1>2, <1>8
  <2> QED BY <2>1, <2>2, RecordsFormed
<1>5. Shape(K)
  <2>1. IsLog(K.log)
    BY <1>2, EmptyLog
  <2> QED BY <1>2, <1>9, <2>1, RecordsWritten
<1> QED BY <1>2, <1>4, <1>5, <1>6 DEF many

LEMMA FreshIs ==
  ASSUME NEW b, b = [p \in Points |-> b[p]]
  PROVE  /\ Shape(Fresh(b)) /\ Fresh(b).log = <<>> /\ Fresh(b).next_string \in Nat
         /\ Bare(Fresh(b)) = Stack!Start(b)
<1> DEFINE N == [board |-> b, ko |-> NoMove, captured |-> [c \in Colors |-> 0],
                 hash |-> HashRecalc(b, NoMove), komaster |-> "empty", kom_pos |-> NoMove,
                 number |-> <<>>, next |-> <<>>, color |-> <<>>, size |-> <<>>, origin |-> <<>>,
                 liberties |-> <<>>, lib |-> <<>>, neighbors |-> <<>>, nb |-> <<>>,
                 next_string |-> 0, log |-> <<>>]
<1>1. N = [f \in Fields |-> N[f]]
  BY DEF Fields
<1>2. /\ N.board = b /\ N.captured = [c \in Colors |-> 0]
      /\ N.ko = NoMove /\ N.komaster = "empty" /\ N.kom_pos = NoMove
  OBVIOUS
<1>3. Fresh(b) = NewPosition(N)
  BY DEF Fresh
<1> HIDE DEF N
<1>4. Bared(N)
  BY <1>1, <1>2 DEF Bared
<1>5. {"board", "captured", "ko", "komaster", "kom_pos"} \subseteq Fields \ Records
  BY DEF Fields, Records
<1>6. Bare(NewPosition(N)) = Stack!Start(b)
  <2>1. \A f \in Fields \ Records : NewPosition(N)[f] = N[f]
    BY <1>4, NewPositionIs
  <2> QED BY <1>2, <1>5, <2>1 DEF Bare, Stack!Start, Stack!Colors, Colors
<1> QED BY <1>3, <1>4, <1>6, NewPositionIs

(* What undo leaves in free slots is forgotten, and nothing that is kept.  *)
LEMMA ForgetIs ==
  ASSUME NEW N, Shape(N)
  PROVE  /\ Shape(Forget(N)) /\ Forget(N).log = N.log /\ Forget(N).next_string = N.next_string
         /\ \A f \in Fields \ Records : Forget(N)[f] = N[f]
         /\ \A at \in Kept(N) : Peek(Forget(N), at) = Peek(N, at)
<1> DEFINE K == Forget(N)
<1>1. N = [f \in Fields |-> N[f]] /\ IsLog(N.log) /\ Bared(N)
  BY ShapeBared DEF Shape
<1>2. /\ K = [f \in Fields |-> K[f]] /\ K.log = N.log /\ K.next_string = N.next_string
      /\ \A f \in Fields \ Records : K[f] = N[f]
  BY <1>1 DEF Forget, Fields, Records
<1>3. /\ K.number = [p \in Points |-> IF N.board[p] = "empty" THEN NoString ELSE N.number[p]]
      /\ K.next = [p \in Points |-> IF N.board[p] = "empty" THEN 0 ELSE N.next[p]]
      /\ K.origin = [s \in Slots |-> IF s < N.next_string THEN N.origin[s] ELSE 0]
  BY <1>1 DEF Forget, Fields
<1>4. /\ K.number = [p \in Points |-> K.number[p]] /\ K.next = [p \in Points |-> K.next[p]]
      /\ K.origin = [s \in Slots |-> K.origin[s]] /\ K.color = [s \in Slots |-> K.color[s]]
      /\ K.size = [s \in Slots |-> K.size[s]] /\ K.liberties = [s \in Slots |-> K.liberties[s]]
      /\ K.neighbors = [s \in Slots |-> K.neighbors[s]]
      /\ K.lib = [s \in Slots |-> K.lib[s]] /\ K.nb = [s \in Slots |-> K.nb[s]]
  BY <1>1 DEF Forget, Fields
<1>7. \A s \in Slots : DOMAIN K.lib[s] = DOMAIN N.lib[s] /\ DOMAIN K.nb[s] = DOMAIN N.nb[s]
                      /\ K.lib[s] = [k \in DOMAIN N.lib[s] |-> K.lib[s][k]]
                      /\ K.nb[s] = [k \in DOMAIN N.nb[s] |-> K.nb[s][k]]
  BY <1>1 DEF Forget, Fields
<1>8. \A s \in Slots : DOMAIN N.lib[s] = 1 .. MaxLiberties /\ DOMAIN N.nb[s] = 1 .. MaxStrings
  <2>1. /\ "lib" \in DOMAIN Within /\ Within["lib"] = 1 .. MaxLiberties
        /\ "nb" \in DOMAIN Within /\ Within["nb"] = 1 .. MaxStrings
    BY DEF Within
  <2>2. \A s \in Slots : DOMAIN N.lib[s] = 1 .. MaxLiberties
    BY <2>1, ListDomainIs
  <2>3. \A s \in Slots : DOMAIN N.nb[s] = 1 .. MaxStrings
    BY <2>1, ListDomainIs
  <2> QED BY <2>2, <2>3
<1> HIDE DEF K
<1>9. /\ \A s \in Slots : K.lib[s] = [k \in 1 .. MaxLiberties |-> K.lib[s][k]]
      /\ \A s \in Slots : K.nb[s] = [k \in 1 .. MaxStrings |-> K.nb[s][k]]
  BY <1>7, <1>8
<1>5. /\ Shape(K) /\ K.log = N.log /\ K.next_string = N.next_string
      /\ \A f \in Fields \ Records : K[f] = N[f]
  <2>1. \A f \in Fields \cap Records : Formed(f, K[f])
    BY <1>4, <1>9, RecordsFormed
  <2>2. IsLog(K.log)
    BY <1>1, <1>2
  <2> QED BY <1>1, <1>2, <2>1, <2>2, RecordsWritten
<1>6. ASSUME NEW at \in Kept(N) PROVE Peek(K, at) = Peek(N, at)
  <2>1. CASE at[1] \in {"number", "next"}
    <3>1. \E p \in Points : N.board[p] # "empty" /\ at \in {<<"number", p>>, <<"next", p>>}
      BY <2>1 DEF Kept, Places
    <3> QED BY <1>3, <3>1, PeekIs
  <2>2. CASE at[1] = "origin"
    <3>1. \E s \in Slots : s < N.next_string /\ at = <<"origin", s>>
      BY <2>2 DEF Kept, Places
    <3> QED BY <1>3, <3>1, PeekIs
  <2>3. CASE at[1] \notin {"number", "next", "origin"}
    <3>1. at[1] \in Fields \ Records \/ at[1] = "next_string"
      BY <2>3 DEF Kept, Places, Fields, Records
    <3>2. at \in Places /\ K[at[1]] = N[at[1]]
      BY <1>5, <3>1 DEF Kept
    <3> QED BY <3>2, PeekSame
  <2> QED BY <2>1, <2>2, <2>3
<1> QED BY <1>5, <1>6 DEF K

-----------------------------------------------------------------------------
(* Undo.                                                                   *)

(* One entry is put back: what the others give back does not change.       *)
LEMMA RestoresBack ==
  ASSUME NEW L, NEW j \in Nat, NEW m \in Nat, j < m, NEW at, NEW now, NEW before,
         Restores(L, j, m, at, now, before)
  PROVE  Restores(L, j, m - 1, at, IF L[m].at = at THEN L[m].was ELSE now, before)
<1>1. m \in j + 1 .. m /\ \A i \in j + 1 .. m : i = m \/ i \in j + 1 .. m - 1
  OBVIOUS
<1>2. CASE Unpushed(L, j, m, at) /\ now = before
  <2>1. L[m].at # at
    BY <1>1, <1>2 DEF Unpushed
  <2>2. Unpushed(L, j, m - 1, at)
    BY <1>2 DEF Unpushed
  <2> QED BY <1>2, <2>1, <2>2 DEF Restores
<1>3. CASE PushedFirst(L, j, m, at, before)
  <2>1. PICK i \in j + 1 .. m : L[i].at = at /\ L[i].was = before /\ Unpushed(L, j, i - 1, at)
    BY <1>3 DEF PushedFirst
  <2>2. CASE i = m
    BY <2>1, <2>2 DEF Restores
  <2>3. CASE i # m
    <3>1. i \in j + 1 .. m - 1
      BY <1>1, <2>3
    <3> QED BY <2>1, <3>1 DEF Restores, PushedFirst
  <2> QED BY <2>2, <2>3
<1> QED BY <1>2, <1>3 DEF Restores

UndoTurn(a, b, c, v, e) == Poke(v, e.at, e.was)
Undone(N, b, k, v) ==
    \A before : \A at \in Places :
        Restores(N.log, b, Len(N.log), at, Peek(N, at), before)
            => Restores(N.log, b, Len(N.log) - k, at, Peek(v, at), before)
UndoHolds(a, b, c, base, seq, k, v) == Shape(v) /\ v.log = base.log /\ Undone(base, b, k, v)
Undoes == INSTANCE Recursion WITH Turn <- UndoTurn, Holds <- UndoHolds

LEMMA UndoTurnIs ==
  ASSUME NEW N, Shape(N), NEW b \in Nat, NEW k \in 1 .. Len(N.log) - b, NEW v,
         Shape(v), v.log = N.log, Undone(N, b, k - 1, v), NEW e, e = N.log[Len(N.log) - k + 1], Address(e.at)
  PROVE  LET w == Poke(v, e.at, e.was) IN Shape(w) /\ w.log = N.log /\ Undone(N, b, k, w)
<1> DEFINE w == Poke(v, e.at, e.was)
           m == Len(N.log) - k + 1
<1>1. Shape(w) /\ w.log = N.log /\ \A at \in Places : Peek(w, at) = IF at = e.at THEN e.was ELSE Peek(v, at)
  BY PokeIs
<1>2. Len(N.log) \in Nat /\ m \in Nat /\ m - 1 = Len(N.log) - k /\ m = Len(N.log) - (k - 1)
      /\ b < m
  BY LogLength
<1>3. e = N.log[m]
  OBVIOUS
<1> HIDE DEF w, m
<1>4. ASSUME NEW at \in Places, NEW before,
             Restores(N.log, b, Len(N.log), at, Peek(N, at), before)
      PROVE  Restores(N.log, b, Len(N.log) - k, at, Peek(w, at), before)
  <2>4. Restores(N.log, b, Len(N.log) - (k - 1), at, Peek(v, at), before)
    BY <1>4 DEF Undone
  <2>1. Restores(N.log, b, m, at, Peek(v, at), before)
    BY <1>2, <2>4
  <2>2. Restores(N.log, b, m - 1, at, IF N.log[m].at = at THEN N.log[m].was ELSE Peek(v, at), before)
    BY <1>2, <2>1, RestoresBack
  <2>3. (IF N.log[m].at = at THEN N.log[m].was ELSE Peek(v, at)) = Peek(w, at)
    BY <1>1, <1>3
  <2> QED BY <1>2, <2>2, <2>3
<1> QED BY <1>1, <1>4 DEF Undone, w

(* The marks: the last one of a log is where undo stops.                   *)
LEMMA LastMark ==
  ASSUME NEW L, NEW n \in Nat, NEW b \in 1 .. n, L[b] = Mark, \A i \in b + 1 .. n : Address(L[i].at)
  PROVE  (CHOOSE i \in 1 .. n : L[i] = Mark /\ \A j \in i + 1 .. n : L[j] # Mark) = b
<1>1. \A i \in b + 1 .. n : L[i] # Mark
  BY FieldOf DEF Mark
<1>2. \A i \in 1 .. n : L[i] = Mark /\ (\A j \in i + 1 .. n : L[j] # Mark) => i = b
  <2> TAKE i \in 1 .. n
  <2>1. i < b => b \in i + 1 .. n
    OBVIOUS
  <2>2. i > b => i \in b + 1 .. n
    OBVIOUS
  <2> QED BY <1>1, <2>1, <2>2
<1> QED BY <1>1, <1>2

LEMMA PopMoveIs ==
  ASSUME NEW N, Shape(N), NEW b \in 1 .. Len(N.log), N.log[b] = Mark,
         \A i \in b + 1 .. Len(N.log) : Address(N.log[i].at)
  PROVE  /\ Shape(PopMove(N)) /\ Len(PopMove(N).log) = b - 1
         /\ \A i \in 1 .. b - 1 : PopMove(N).log[i] = N.log[i]
         /\ \A before : \A at \in Places :
               Restores(N.log, b, Len(N.log), at, Peek(N, at), before) => Peek(PopMove(N), at) = before
<1> DEFINE L == N.log
           n == Len(L)
           begin == CHOOSE i \in DOMAIN L : L[i] = Mark /\ \A j \in i + 1 .. n : L[j] # Mark
           seq == Reverse(SubSeq(L, b + 1, n))
           J == Undoes!Loop(0, b, 0, N, seq)
           rest == SubSeq(J.log, 1, b - 1)
           K == [J EXCEPT !.log = rest]
<1>1. n \in Nat /\ DOMAIN L = 1 .. n /\ IsLog(L)
  BY LogLength DEF Shape
<1>2. begin = b
  <2> HIDE DEF L, n
  <2>1. L[b] = Mark /\ b \in 1 .. n /\ \A i \in b + 1 .. n : Address(L[i].at)
    BY DEF L, n
  <2> QED BY <1>1, <2>1, LastMark
<1>3. PopMove(N) = K
  <2>1. PopMove(N) = [Undoes!Loop(0, b, 0, N, Reverse(SubSeq(N.log, begin + 1, Len(N.log))))
                         EXCEPT !.log = SubSeq(@, 1, begin - 1)]
    BY DEF PopMove, UndoTurn, FoldLeft, MapThenFoldSet, Max,
           Undoes!Greatest, Undoes!Loop, Undoes!Rest, Undoes!RestOver
  <2> HIDE DEF begin
  <2> QED BY <1>2, <2>1
<1>4. DOMAIN seq = 1 .. n - b /\ \A k \in 1 .. n - b : seq[k] = L[n - k + 1]
  <2>1. PICK S : L \in Seq(S)
    BY <1>1 DEF IsLog
  <2>2. b \in Nat /\ b <= n
    BY <1>1
  <2> HIDE DEF L, n
  <2> DEFINE sub == SubSeq(L, b + 1, n)
  <2>3. sub = [i \in 1 .. n - b |-> L[b + i]]
    BY <1>1, <2>1, <2>2
  <2>4. Len(sub) = n - b
    BY <1>1, <2>1, <2>2
  <2> HIDE DEF sub
  <2>5. Reverse(sub) = [i \in 1 .. n - b |-> sub[n - b - i + 1]]
    BY <2>4 DEF Reverse
  <2>6. \A k \in 1 .. n - b : sub[n - b - k + 1] = L[n - k + 1]
    BY <1>1, <2>2, <2>3
  <2> QED BY <2>5, <2>6 DEF sub
<1>5. n - b \in Nat /\ DOMAIN seq \subseteq 1 .. n - b
  BY <1>1, <1>4
<1> HIDE DEF begin, seq
<1>6. UndoHolds(0, b, 0, N, seq, 0, N)
  BY <1>1 DEF UndoHolds, Undone
<1>7. ASSUME NEW k \in 1 .. n - b, NEW v, UndoHolds(0, b, 0, N, seq, k - 1, v)
      PROVE  UndoHolds(0, b, 0, N, seq, k, UndoTurn(0, b, 0, v, seq[k]))
  <2> DEFINE e == seq[k]
  <2>1. e = N.log[Len(N.log) - k + 1] /\ b \in Nat
    BY <1>4
  <2>2. Len(N.log) - k + 1 \in b + 1 .. Len(N.log)
    BY <1>1
  <2>3. Address(e.at)
    BY <2>1, <2>2
  <2> HIDE DEF e
  <2> QED BY <1>7, <2>1, <2>3, UndoTurnIs DEF UndoHolds, UndoTurn, e
<1>8. UndoHolds(0, b, 0, N, seq, n - b, J)
  <2> HIDE DEF L
  <2> QED BY <1>4, <1>5, <1>6, <1>7, Undoes!LoopKeeps
<1>9. Shape(J) /\ J.log = N.log /\ Undone(N, b, n - b, J)
  BY <1>8 DEF UndoHolds
<1> HIDE DEF J
<1>10. IsLog(rest) /\ Len(rest) = b - 1 /\ \A i \in 1 .. b - 1 : rest[i] = N.log[i]
  <2>1. PICK S : L \in Seq(S)
    BY <1>1 DEF IsLog
  <2>2. b \in Nat /\ b - 1 \in Nat /\ b <= n
    BY <1>1
  <2>3. rest = SubSeq(L, 1, b - 1)
    BY <1>9
  <2> HIDE DEF L, n, rest
  <2>4. rest \in Seq(S) /\ Len(rest) = b - 1 /\ \A i \in 1 .. b - 1 : rest[i] = L[i]
    BY <1>1, <2>1, <2>2, <2>3
  <2> QED BY <2>4 DEF IsLog, L
<1> HIDE DEF rest
<1>11. /\ K = [f \in Fields |-> K[f]] /\ K.log = rest /\ \A f \in Fields \ {"log"} : K[f] = J[f]
  <2>1. J = [f \in Fields |-> J[f]] /\ "log" \in Fields
    BY <1>9 DEF Shape, Fields
  <2> QED BY <2>1
<1> HIDE DEF K
<1>12. Shape(K)
  <2>1. IsLog(K.log)
    BY <1>10, <1>11
  <2>2. \A f \in Fields : K[f] = J[f] \/ Redone(f, J[f], K[f])
    BY <1>11 DEF Redone, Over
  <2> QED BY <1>9, <1>11, <2>1, <2>2, ShapeStill
<1>13. \A at \in Places : Peek(K, at) = Peek(J, at)
  <2>1. \A at \in Places : at[1] \in Fields \ {"log"}
    BY DEF Places, Fields
  <2> QED BY <1>11, <2>1, PeekSame
<1>14. ASSUME NEW at \in Places, NEW before, Restores(N.log, b, Len(N.log), at, Peek(N, at), before)
       PROVE  Peek(K, at) = before
  <2>1. Len(N.log) - (n - b) = b
    BY <1>1
  <2>2. Restores(N.log, b, Len(N.log) - (n - b), at, Peek(J, at), before)
    BY <1>9, <1>14 DEF Undone
  <2>3. ~PushedFirst(N.log, b, b, at, before)
    BY DEF PushedFirst
  <2> QED BY <1>13, <2>1, <2>2, <2>3 DEF Restores
<1> QED BY <1>3, <1>10, <1>11, <1>12, <1>14

-----------------------------------------------------------------------------
(* The stack of memories.  A memory is under another when the log of that  *)
(* one goes on from a mark on top of its own and gives it back.            *)
Under(P, Q) ==
    /\ Prolonged(P.log, Q.log) /\ Len(P.log) < Len(Q.log) /\ Q.log[Len(P.log) + 1] = Mark
    /\ GivesBack(Len(P.log) + 1, Q, P) /\ Vacated(P, Q) /\ P.next_string <= Q.next_string

(* With no mark between: one move.                                         *)
Tight(P, Q) == \A i \in Len(P.log) + 2 .. Len(Q.log) : Address(Q.log[i].at)

(* The same log, and the same where it matters.                            *)
Same(Q, R) ==
    /\ Shape(R) /\ Len(R.log) = Len(Q.log) /\ (\A i \in 1 .. Len(Q.log) : R.log[i] = Q.log[i])
    /\ \A at \in Kept(Q) : Peek(R, at) = Peek(Q, at)

LEMMA KeptAlways ==
  ASSUME NEW P
  PROVE  /\ \A p \in Points : <<"board", p>> \in Kept(P)
         /\ \A c \in Colors : <<"captured", c>> \in Kept(P)
         /\ \A f \in {"ko", "komaster", "kom_pos", "next_string"} : <<f>> \in Kept(P)
BY DEF Kept, Places

LEMMA SameFields ==
  ASSUME NEW Q, Shape(Q), NEW R, Same(Q, R)
  PROVE  R.board = Q.board /\ R.next_string = Q.next_string /\ Bare(R) = Bare(Q)
<1>1. ASSUME NEW p \in Points PROVE R.board[p] = Q.board[p]
  <2> DEFINE c == <<"board", p>>
  <2>1. c \in Kept(Q) /\ Peek(R, c) = R.board[p] /\ Peek(Q, c) = Q.board[p]
    BY KeptAlways, PeekIs
  <2> HIDE DEF c
  <2> QED BY <2>1 DEF Same
<1>2. ASSUME NEW k \in Colors PROVE R.captured[k] = Q.captured[k]
  <2> DEFINE c == <<"captured", k>>
  <2>1. c \in Kept(Q) /\ Peek(R, c) = R.captured[k] /\ Peek(Q, c) = Q.captured[k]
    BY KeptAlways, PeekIs
  <2> HIDE DEF c
  <2> QED BY <2>1 DEF Same
<1>3. ASSUME NEW f \in {"ko", "komaster", "kom_pos", "next_string"} PROVE R[f] = Q[f]
  <2> DEFINE c == <<f>>
  <2>1. c \in Kept(Q) /\ Peek(R, c) = R[f] /\ Peek(Q, c) = Q[f]
    BY KeptAlways, PeekIs
  <2> HIDE DEF c
  <2> QED BY <2>1 DEF Same
<1>4. \A N : Shape(N) => N.board = [p \in Points |-> N.board[p]] /\ N.captured = [c \in Colors |-> N.captured[c]]
  BY ShapeBared DEF Bared
<1>5. Shape(R)
  BY DEF Same
<1>6. R.board = Q.board
  BY <1>1, <1>4, <1>5
<1>7. R.captured = Q.captured
  BY <1>2, <1>4, <1>5
<1> QED BY <1>3, <1>6, <1>7 DEF Bare

(* What is kept below and not above has been pushed.                       *)
LEMMA PushedOnce ==
  ASSUME NEW P, NEW Q, Shape(P), Shape(Q), Under(P, Q), P.next_string \in Nat, Q.next_string \in Nat,
         NEW at \in Kept(P) \ Kept(Q)
  PROVE  PushedFirst(Q.log, Len(P.log) + 1, Len(Q.log), at, Peek(P, at))
<1>1. Pushed(P, Q, at)
  <2>1. at \in Places
    BY DEF Kept
  <2>2. CASE at[1] \in {"number", "next"}
    <3>1. PICK p \in Points : P.board[p] # "empty" /\ Q.board[p] = "empty" /\ at \in {<<"number", p>>, <<"next", p>>}
      BY <2>2 DEF Kept, Places
    <3> QED BY <3>1 DEF Under, Vacated
  <2>3. CASE at[1] = "origin"
    <3>1. PICK s \in Slots : s < P.next_string /\ ~(s < Q.next_string)
      BY <2>3 DEF Kept, Places
    <3>2. s \in Int
      BY StringAssumption DEF Slots
    <3> QED BY <3>1, <3>2 DEF Under
  <2>4. CASE at[1] \notin {"number", "next", "origin"}
    BY <2>4 DEF Kept
  <2> QED BY <2>2, <2>3, <2>4
<1>2. PICK i \in Len(P.log) + 1 .. Len(Q.log) : Q.log[i].at = at
  BY <1>1 DEF Pushed
<1>3. at # <<>> /\ Len(P.log) \in Nat /\ Len(Q.log) \in Nat
  <2>1. Address(at)
    BY DEF Kept, Address
  <2> QED BY <2>1, FieldOf DEF Under, Prolonged
<1>4. i # Len(P.log) + 1
  BY <1>2, <1>3 DEF Under, Mark
<1>5. i \in (Len(P.log) + 1) + 1 .. Len(Q.log)
  BY <1>2, <1>3, <1>4
<1>6. ~Unpushed(Q.log, Len(P.log) + 1, Len(Q.log), at)
  BY <1>2, <1>5 DEF Unpushed
<1> QED BY <1>6 DEF Under, GivesBack, Restores

LEMMA PushedFirstStill ==
  ASSUME NEW L, NEW K, Prolonged(L, K), NEW b \in Nat, NEW at, NEW before, PushedFirst(L, b, Len(L), at, before)
  PROVE  PushedFirst(K, b, Len(K), at, before)
<1>1. PICK i \in b + 1 .. Len(L) : L[i].at = at /\ L[i].was = before /\ Unpushed(L, b, i - 1, at)
  BY DEF PushedFirst
<1>2. i \in b + 1 .. Len(K) /\ K[i] = L[i] /\ \A j \in b + 1 .. i - 1 : K[j] = L[j]
  BY <1>1 DEF Prolonged
<1> QED BY <1>1, <1>2 DEF PushedFirst, Unpushed

LEMMA UnderOn ==
  ASSUME NEW P, NEW N, NEW K, Shape(P), Shape(N), Shape(K), Under(P, N), Under(N, K),
         P.next_string \in Nat, N.next_string \in Nat, K.next_string \in Nat
  PROVE  Under(P, K)
<1> DEFINE p == Len(P.log)  n == Len(N.log)  k == Len(K.log)
<1>1. p \in Nat /\ n \in Nat /\ k \in Nat /\ p < n /\ n < k /\ (\A i \in 1 .. p : N.log[i] = P.log[i])
      /\ \A i \in 1 .. n : K.log[i] = N.log[i]
  BY DEF Under, Prolonged
<1>2. Prolonged(P.log, N.log) /\ Prolonged(N.log, K.log) /\ Prolonged(P.log, K.log)
  BY <1>1 DEF Under, Prolonged
<1>3. K.log[p + 1] = Mark
  <2>1. p + 1 \in 1 .. n
    BY <1>1
  <2> QED BY <1>1, <2>1 DEF Under
<1>4. Vacated(P, K)
  BY <1>2, VacatedOver DEF Under
<1>5. ASSUME NEW at \in Kept(P)
      PROVE  Restores(K.log, p + 1, k, at, Peek(K, at), Peek(P, at))
  <2>1. CASE at \in Kept(N)
    <3>1. Restores(N.log, p + 1, n, at, Peek(N, at), Peek(P, at))
      BY DEF Under, GivesBack
    <3>2. Restores(K.log, n + 1, k, at, Peek(K, at), Peek(N, at))
      BY <2>1 DEF Under, GivesBack
    <3>3. at # <<>> /\ K.log[n + 1].at = <<>>
      <4>1. Address(at)
        BY DEF Kept, Address
      <4> QED BY <4>1, FieldOf DEF Under, Mark
    <3>4. \A m \in n + 1 .. k : Unpushed(K.log, n + 1, m, at) => Unpushed(K.log, n, m, at)
      BY <1>1, <3>3 DEF Unpushed
    <3>5. Restores(K.log, n, k, at, Peek(K, at), Peek(N, at))
      <4>1. CASE Unpushed(K.log, n + 1, k, at) /\ Peek(K, at) = Peek(N, at)
        <5>1. k \in n + 1 .. k
          BY <1>1
        <5> QED BY <3>4, <4>1, <5>1 DEF Restores
      <4>2. CASE PushedFirst(K.log, n + 1, k, at, Peek(N, at))
        <5>1. PICK i \in n + 1 + 1 .. k :
                 K.log[i].at = at /\ K.log[i].was = Peek(N, at) /\ Unpushed(K.log, n + 1, i - 1, at)
          BY <4>2 DEF PushedFirst
        <5>2. i - 1 \in n + 1 .. k /\ i \in n + 1 .. k
          BY <1>1, <5>1
        <5> QED BY <3>4, <5>1, <5>2 DEF Restores, PushedFirst
      <4> QED BY <3>2, <4>1, <4>2 DEF Restores
    <3>6. p + 1 \in Nat /\ p + 1 <= n
      BY <1>1
    <3> QED BY <1>2, <3>1, <3>5, <3>6, RestoresOver
  <2>2. CASE at \notin Kept(N)
    <3>1. PushedFirst(N.log, p + 1, n, at, Peek(P, at))
      BY <2>2, PushedOnce
    <3>2. p + 1 \in Nat
      BY <1>1
    <3>3. PushedFirst(K.log, p + 1, k, at, Peek(P, at))
      BY <1>2, <3>1, <3>2, PushedFirstStill
    <3> QED BY <3>3 DEF Restores
  <2> QED BY <2>1, <2>2
<1>6. P.next_string <= K.next_string
  BY DEF Under
<1>7. p < k
  BY <1>1
<1> QED BY <1>2, <1>3, <1>4, <1>5, <1>6, <1>7 DEF Under, GivesBack

LEMMA UnderSame ==
  ASSUME NEW P, NEW Q, NEW R, Shape(P), Shape(Q), Under(P, Q), Same(Q, R),
         P.next_string \in Nat, Q.next_string \in Nat
  PROVE  Under(P, R) /\ (Tight(P, Q) => Tight(P, R))
<1> DEFINE p == Len(P.log)  q == Len(Q.log)
<1>1. p \in Nat /\ q \in Nat /\ Len(R.log) = q /\ p < q /\ (\A i \in 1 .. q : R.log[i] = Q.log[i])
      /\ (\A i \in 1 .. p : Q.log[i] = P.log[i])
  BY DEF Under, Prolonged, Same
<1>2. Prolonged(P.log, R.log) /\ Prolonged(Q.log, R.log)
  BY <1>1 DEF Prolonged
<1>3. R.log[p + 1] = Mark
  <2>1. p + 1 \in 1 .. q
    BY <1>1
  <2> QED BY <1>1, <2>1 DEF Under
<1>4. R.board = Q.board /\ R.next_string = Q.next_string
  BY SameFields
<1>5. Vacated(P, R)
  BY <1>2, <1>4, VacatedOver, VacatedSame DEF Under
<1>6. ASSUME NEW at \in Kept(P)
      PROVE  Restores(R.log, p + 1, q, at, Peek(R, at), Peek(P, at))
  <2>0. p + 1 \in Nat /\ p + 1 <= q
    BY <1>1
  <2>1. CASE at \in Kept(Q)
    <3>1. Restores(Q.log, p + 1, q, at, Peek(Q, at), Peek(P, at))
      BY DEF Under, GivesBack
    <3>2. Peek(R, at) = Peek(Q, at)
      BY <2>1 DEF Same
    <3>3. Restores(R.log, q, q, at, Peek(R, at), Peek(Q, at))
      BY <1>1, <3>2 DEF Restores, Unpushed
    <3> QED BY <1>1, <1>2, <2>0, <3>1, <3>3, RestoresOver
  <2>2. CASE at \notin Kept(Q)
    <3>1. PushedFirst(Q.log, p + 1, q, at, Peek(P, at))
      BY <2>2, PushedOnce
    <3>2. PushedFirst(R.log, p + 1, q, at, Peek(P, at))
      BY <1>1, <1>2, <2>0, <3>1, PushedFirstStill
    <3> QED BY <3>2 DEF Restores
  <2> QED BY <2>1, <2>2
<1>7. Tight(P, Q) => Tight(P, R)
  BY <1>1 DEF Tight
<1> QED BY <1>1, <1>2, <1>3, <1>4, <1>5, <1>6, <1>7 DEF Under, GivesBack

(* A trial move puts its memory on top.                                    *)
LEMMA TryIs ==
  ASSUME Shape(M), M.next_string \in Nat, NEW p \in Points \cup {NoMove}, NEW color \in Colors,
         p # NoMove => M.board[p] = "empty",
         NEW F, "next_string" \notin F, "board" \notin F, NEW K, Only(F, ReallyDoTrymove(p, color), K)
  PROVE  /\ Shape(K) /\ K.next_string \in Nat /\ Under(M, K) /\ Tight(M, K)
         /\ K.next_string \in {M.next_string, M.next_string + 1}
<1> DEFINE B == BeginChangeRecord(M)
           R == ReallyDoTrymove(p, color)
<1>1. /\ Shape(R) /\ Longer(B.log, R.log) /\ GivesBack(Len(B.log), R, M) /\ Vacated(B, R)
      /\ R.next_string \in Nat /\ R.next_string \in {M.next_string, M.next_string + 1}
  BY TrymoveGivesBack
<1>2. Len(M.log) \in Nat /\ Len(B.log) = Len(M.log) + 1 /\ (\A i \in 1 .. Len(M.log) : B.log[i] = M.log[i])
      /\ B.log[Len(M.log) + 1] = Mark
  BY BeginIs
<1>3. B.board = M.board
  <2>1. "board" \in Fields \ {"log"}
    BY DEF Fields
  <2> QED BY <2>1, BeginIs
<1> HIDE DEF B, R
<1>4. K.next_string = R.next_string /\ K.board = R.board
  <2>1. "board" \in Fields \ (F \cup {"log"}) /\ "next_string" \in Fields \ (F \cup {"log"})
    BY DEF Fields
  <2> QED BY <2>1 DEF Only, R
<1>5. Logged(Places, R, K) /\ Shape(K) /\ Longer(R.log, K.log)
  BY DEF Only, Logged, R
<1>6. Longer(B.log, K.log)
  BY <1>1, <1>5, LongerStill
<1>7. GivesBack(Len(B.log), K, M)
  <2>1. Len(B.log) \in Nat /\ Len(B.log) <= Len(R.log)
    BY <1>1 DEF Longer
  <2>2. Kept(M) \ Places = {}
    BY DEF Kept
  <2> QED BY <1>1, <1>5, <2>1, <2>2, GivesBackOn
<1>8. Vacated(B, K)
  BY <1>1, <1>4, <1>5, VacatedSame, VacatedOn
<1>9. Prolonged(M.log, K.log) /\ Len(M.log) < Len(K.log) /\ K.log[Len(M.log) + 1] = Mark
  <2>1. Len(M.log) + 1 \in 1 .. Len(B.log) /\ \A i \in 1 .. Len(M.log) : i \in 1 .. Len(B.log)
    BY <1>2
  <2> QED BY <1>2, <1>6, <2>1 DEF Longer, Prolonged
<1>10. Vacated(M, K)
  <2>1. \A at : Pushed(B, K, at) => Pushed(M, K, at)
    <3>1. \A i \in Len(B.log) + 1 .. Len(K.log) : i \in Len(M.log) + 1 .. Len(K.log)
      BY <1>2, <1>9 DEF Prolonged
    <3> QED BY <3>1 DEF Pushed
  <2> QED BY <1>3, <1>8, <2>1 DEF Vacated
<1>11. Tight(M, K)
  <2>1. Len(M.log) + 2 = Len(B.log) + 1
    BY <1>2
  <2> QED BY <1>6, <2>1 DEF Tight, Longer
<1> QED BY <1>1, <1>2, <1>4, <1>5, <1>7, <1>9, <1>10, <1>11 DEF Under

(* Undo takes the memory on top off and leaves the one under it.           *)
LEMMA UndoIs ==
  ASSUME NEW P, NEW Q, Shape(P), Shape(Q), Under(P, Q), Tight(P, Q), P.next_string \in Nat, NEW hash
  PROVE  /\ Same(P, Forget([PopMove(Q) EXCEPT !.hash = hash]))
         /\ Forget([PopMove(Q) EXCEPT !.hash = hash]).hash = hash
<1> DEFINE b == Len(P.log) + 1
           J == PopMove(Q)
           R == [J EXCEPT !.hash = hash]
           K == Forget(R)
<1>1. Len(P.log) \in Nat /\ Len(Q.log) \in Nat /\ b \in 1 .. Len(Q.log) /\ b - 1 = Len(P.log)
      /\ Q.log[b] = Mark /\ \A i \in 1 .. Len(P.log) : Q.log[i] = P.log[i]
  BY DEF Under, Prolonged
<1>2. \A i \in b + 1 .. Len(Q.log) : Address(Q.log[i].at)
  <2>1. b + 1 = Len(P.log) + 2
    BY <1>1
  <2> QED BY <2>1 DEF Tight
<1>3. GivesBack(b, Q, P)
  BY DEF Under
<1> HIDE DEF b
<1>4. /\ Shape(J) /\ Len(J.log) = b - 1 /\ (\A i \in 1 .. b - 1 : J.log[i] = Q.log[i])
  BY <1>1, <1>2, PopMoveIs
<1>5. ASSUME NEW at \in Kept(P) PROVE Peek(J, at) = Peek(P, at)
  <2>1. at \in Places /\ Restores(Q.log, b, Len(Q.log), at, Peek(Q, at), Peek(P, at))
    BY <1>3 DEF Kept, GivesBack
  <2> QED BY <1>1, <1>2, <2>1, PopMoveIs
<1> HIDE DEF J
<1>6. Same(P, J)
  BY <1>1, <1>4, <1>5 DEF Same
<1>7. Shape(R) /\ R.log = J.log /\ R.hash = hash /\ \A f \in Fields \ {"hash"} : R[f] = J[f]
  <2>1. Only({"hash"}, J, R)
    BY <1>4, HashWritten
  <2>2. J = [f \in Fields |-> J[f]] /\ "log" \in Fields \ {"hash"} /\ "hash" \in Fields
    BY <1>4 DEF Shape, Fields
  <2>3. Shape(R)
    BY <2>1, OnlyShape
  <2> QED BY <2>2, <2>3
<1> HIDE DEF R
<1>8. \A at \in Kept(P) : Peek(R, at) = Peek(J, at)
  <2>1. \A at \in Kept(P) : at \in Places /\ at[1] \in Fields \ {"hash"}
    BY DEF Kept, Places, Fields
  <2> QED BY <1>7, <2>1, PeekSame
<1>9. Same(P, R)
  BY <1>6, <1>7, <1>8 DEF Same
<1>10. R.board = P.board /\ R.next_string = P.next_string
  BY <1>9, SameFields
<1>11. Kept(R) = Kept(P)
  BY <1>10 DEF Kept
<1>12. Shape(K) /\ K.log = R.log /\ K.hash = R.hash
  <2>1. "hash" \in Fields \ Records
    BY DEF Fields, Records
  <2>2. \A f \in Fields \ Records : Forget(R)[f] = R[f]
    BY <1>7, ForgetIs
  <2>3. Shape(K) /\ K.log = R.log
    BY <1>7, ForgetIs
  <2> QED BY <2>1, <2>2, <2>3
<1>13. \A at \in Kept(P) : Peek(K, at) = Peek(R, at)
  <2> HIDE DEF K
  <2>1. \A at \in Kept(R) : Peek(K, at) = Peek(R, at)
    BY <1>7, ForgetIs DEF K
  <2> QED BY <1>11, <2>1
<1> HIDE DEF K
<1>14. Same(P, K)
  BY <1>9, <1>12, <1>13 DEF Same
<1> QED BY <1>7, <1>12, <1>14 DEF K, R, J

-----------------------------------------------------------------------------
(* Sequences of anything.                                                  *)
LEMMA FrontOf ==
  ASSUME NEW L, IsLog(L), Len(L) # 0
  PROVE  /\ IsLog(Front(L)) /\ Len(L) \in Nat /\ Len(Front(L)) = Len(L) - 1
         /\ \A i \in 1 .. Len(L) - 1 : Front(L)[i] = L[i]
<1>1. PICK S : L \in Seq(S)
  BY DEF IsLog
<1> DEFINE n == Len(L) - 1
<1>2. n \in Nat /\ Len(L) \in Nat /\ n + 1 = Len(L) /\ n <= Len(L)
  BY <1>1
<1>3. Front(L) = SubSeq(L, 1, n)
  BY DEF Front
<1> HIDE DEF n
<1>4. SubSeq(L, 1, n) \in Seq(S) /\ Len(SubSeq(L, 1, n)) = n /\ \A i \in 1 .. n : SubSeq(L, 1, n)[i] = L[i]
  BY <1>1, <1>2
<1> QED BY <1>2, <1>3, <1>4 DEF IsLog, n

LEMMA NoMovesYet ==
  ASSUME NEW L, IsLog(L), Len(L) = 0
  PROVE  L = <<>>
<1>1. PICK S : L \in Seq(S)
  BY DEF IsLog
<1> QED BY <1>1

-----------------------------------------------------------------------------
(* Every level of reading still is in the memory: mem has the memories the *)
(* moves were tried from, and the present one on top.                      *)
Levelled(mem) ==
    /\ mem[stackp + 1] = M
    /\ \A k \in 1 .. stackp + 1 : Shape(mem[k]) /\ mem[k].next_string \in Nat
    /\ \A k \in 1 .. stackp + 1 : \A j \in 1 .. k - 1 : Under(mem[j], mem[k])
    /\ \A k \in 1 .. stackp : Tight(mem[k], mem[k + 1]) /\ Bare(mem[k]) = saved[k]

UndoInv ==
    /\ IsLog(moves) /\ IsLog(hashes) /\ IsLog(saved)
    /\ Len(hashes) = stackp /\ Len(saved) = stackp /\ (replaying => stackp = 0)
    /\ Shape(M) /\ M.next_string \in Nat
    /\ \E mem : Levelled(mem)

LEMMA StackHeight ==
  ASSUME UndoInv
  PROVE  stackp \in Nat
<1>1. PICK S : moves \in Seq(S)
  BY DEF UndoInv, IsLog
<1> QED BY <1>1 DEF stackp

LEMMA Grounded ==
  ASSUME Shape(M), M.next_string \in Nat, stackp = 0
  PROVE  \E mem : Levelled(mem)
<1> DEFINE mem == [k \in 1 .. 1 |-> M]
<1>1. \A k \in 1 .. stackp + 1 : k = 1
  OBVIOUS
<1>2. Levelled(mem)
  BY <1>1 DEF Levelled
<1> QED BY <1>2

(* A level is added, or taken off again, and those below stay.             *)
RaisedTo(mem, mem2) == Levelled(mem2)' /\ \A k \in 1 .. stackp + 1 : mem2[k] = mem[k]
LoweredTo(mem, mem2) ==
    /\ Levelled(mem2)' /\ \A k \in 1 .. stackp - 1 : mem2[k] = mem[k]
    /\ Same(mem[stackp], M') /\ M'.hash = hashes[stackp]

LEMMA PushKeeps ==
  ASSUME UndoInv, NEW mem, Levelled(mem), NEW pos, NEW color, ~replaying, Stacked(pos, color),
         Shape(M'), M'.next_string \in Nat, Under(M, M'), Tight(M, M')
  PROVE  UndoInv' /\ \E mem2 : RaisedTo(mem, mem2)
<1> DEFINE n == stackp
<1>2. n \in Nat
  BY StackHeight
<1>3. IsLog(moves') /\ stackp' = n + 1
  <2> DEFINE L == moves  K == moves'  e == [pos |-> pos, color |-> color]
  <2>1. IsLog(L) /\ K = Append(L, e)
    BY DEF UndoInv, Stacked
  <2> HIDE DEF L, K, e
  <2>2. IsLog(K) /\ Len(K) = Len(L) + 1
    BY <2>1, LogGrows
  <2> QED BY <2>2 DEF stackp, L, K
<1>4. IsLog(hashes') /\ Len(hashes') = n + 1
  <2> DEFINE L == hashes  K == hashes'  e == M.hash
  <2>1. IsLog(L) /\ K = Append(L, e) /\ Len(L) = n
    BY DEF UndoInv, Stacked
  <2> HIDE DEF L, K, e
  <2>2. IsLog(K) /\ Len(K) = Len(L) + 1
    BY <2>1, LogGrows
  <2> QED BY <2>1, <2>2 DEF K
<1>5. IsLog(saved') /\ Len(saved') = n + 1 /\ saved'[n + 1] = Bare(M) /\ \A k \in 1 .. n : saved'[k] = saved[k]
  <2> DEFINE L == saved  K == saved'  e == Bare(M)
  <2>1. IsLog(L) /\ K = Append(L, e) /\ Len(L) = n
    BY DEF UndoInv, Stacked
  <2> HIDE DEF L, K, e
  <2>2. IsLog(K) /\ Len(K) = Len(L) + 1
    BY <2>1, LogGrows
  <2>3. K[Len(L) + 1] = e
    BY <2>1, LogGrows
  <2>4. \A k \in 1 .. Len(L) : K[k] = L[k]
    BY <2>1, LogGrows
  <2> QED BY <2>1, <2>2, <2>3, <2>4 DEF L, K, e
<1>12. PICK mem2 : mem2 = [k \in 1 .. n + 2 |-> IF k = n + 2 THEN M' ELSE mem[k]]
  OBVIOUS
<1> HIDE DEF n
<1>6. mem2[n + 2] = M' /\ \A k \in 1 .. n + 1 : mem2[k] = mem[k]
  BY <1>2, <1>12
<1>7. /\ mem[n + 1] = M
      /\ \A k \in 1 .. n + 1 : Shape(mem[k]) /\ mem[k].next_string \in Nat
      /\ \A k \in 1 .. n + 1 : \A j \in 1 .. k - 1 : Under(mem[j], mem[k])
      /\ \A k \in 1 .. n : Tight(mem[k], mem[k + 1]) /\ Bare(mem[k]) = saved[k]
  BY DEF Levelled, n
<1>8. ASSUME NEW j \in 1 .. n + 1 PROVE Under(mem[j], M')
  <2>1. CASE j = n + 1
    BY <1>7, <2>1
  <2>2. CASE j # n + 1
    <3>1. n + 1 \in 1 .. n + 1 /\ j \in 1 .. (n + 1) - 1
      BY <1>2, <2>2
    <3>2. Under(mem[j], mem[n + 1])
      BY <1>7, <3>1
    <3>3. Shape(mem[j]) /\ mem[j].next_string \in Nat
      BY <1>7
    <3>4. Under(mem[j], M) /\ Shape(M) /\ M.next_string \in Nat
      BY <1>7, <3>2 DEF UndoInv
    <3> QED BY <3>3, <3>4, UnderOn
  <2> QED BY <2>1, <2>2
<1>9. ASSUME NEW k \in 1 .. n + 2
      PROVE  Shape(mem2[k]) /\ mem2[k].next_string \in Nat /\ \A j \in 1 .. k - 1 : Under(mem2[j], mem2[k])
  <2>1. \A j \in 1 .. k - 1 : j \in 1 .. n + 1
    BY <1>2
  <2>2. CASE k = n + 2
    BY <1>6, <1>8, <2>1, <2>2
  <2>3. CASE k # n + 2
    <3>1. k \in 1 .. n + 1
      BY <1>2, <2>3
    <3> QED BY <1>6, <1>7, <2>1, <3>1
  <2> QED BY <2>2, <2>3
<1>10. ASSUME NEW k \in 1 .. n + 1 PROVE Tight(mem2[k], mem2[k + 1]) /\ Bare(mem2[k]) = saved'[k]
  <2>1. CASE k = n + 1
    <3>1. k + 1 = n + 2
      BY <1>2, <2>1
    <3> QED BY <1>5, <1>6, <1>7, <2>1, <3>1
  <2>2. CASE k # n + 1
    <3>1. k \in 1 .. n /\ k + 1 \in 1 .. n + 1
      BY <1>2, <2>2
    <3> QED BY <1>5, <1>6, <1>7, <3>1
  <2> QED BY <2>1, <2>2
<1>11. Levelled(mem2)'
  <2>1. stackp' + 1 = n + 2 /\ stackp' = n + 1
    BY <1>2, <1>3
  <2>2. /\ mem2[stackp' + 1] = M'
        /\ \A k \in 1 .. stackp' + 1 : Shape(mem2[k]) /\ mem2[k].next_string \in Nat
        /\ \A k \in 1 .. stackp' + 1 : \A j \in 1 .. k - 1 : Under(mem2[j], mem2[k])
        /\ \A k \in 1 .. stackp' : Tight(mem2[k], mem2[k + 1]) /\ Bare(mem2[k]) = saved'[k]
    BY <1>6, <1>9, <1>10, <2>1
  <2> QED BY <2>2 DEF Levelled
<1>13. ~replaying'
  BY DEF Stacked
<1>14. RaisedTo(mem, mem2)
  BY <1>6, <1>11 DEF RaisedTo, n
<1> QED BY <1>3, <1>4, <1>5, <1>11, <1>13, <1>14 DEF UndoInv

LEMMA PopKeeps ==
  ASSUME UndoInv, NEW mem, Levelled(mem), Popgo
  PROVE  UndoInv' /\ Bare(M') = saved[stackp] /\ \E mem2 : LoweredTo(mem, mem2)
<1> DEFINE n == stackp
<1>2. n \in Nat /\ n # 0
  BY StackHeight DEF Popgo
<1>3. IsLog(moves') /\ stackp' = n - 1
  <2>1. IsLog(moves) /\ Len(moves) # 0 /\ moves' = Front(moves)
    BY <1>2 DEF UndoInv, Popgo, stackp
  <2> QED BY <2>1, FrontOf DEF stackp
<1>4. IsLog(hashes') /\ Len(hashes') = n - 1
  <2>1. IsLog(hashes) /\ Len(hashes) = n /\ Len(hashes) # 0 /\ hashes' = Front(hashes)
    BY <1>2 DEF UndoInv, Popgo
  <2> QED BY <2>1, FrontOf
<1>5. IsLog(saved') /\ Len(saved') = n - 1 /\ \A k \in 1 .. n - 1 : saved'[k] = saved[k]
  <2>1. IsLog(saved) /\ Len(saved) = n /\ Len(saved) # 0 /\ saved' = Front(saved)
    BY <1>2 DEF UndoInv, Popgo
  <2> QED BY <2>1, FrontOf
<1>6. PICK mem2 : mem2 = [k \in 1 .. n |-> IF k = n THEN M' ELSE mem[k]]
  OBVIOUS
<1>7. /\ mem[n + 1] = M
      /\ \A k \in 1 .. n + 1 : Shape(mem[k]) /\ mem[k].next_string \in Nat
      /\ \A k \in 1 .. n + 1 : \A j \in 1 .. k - 1 : Under(mem[j], mem[k])
      /\ \A k \in 1 .. n : Tight(mem[k], mem[k + 1]) /\ Bare(mem[k]) = saved[k]
  BY DEF Levelled
<1>20. M' = Forget([PopMove(M) EXCEPT !.hash = Last(hashes)])
  BY DEF Popgo
<1> HIDE DEF n
<1>8. n \in 1 .. n /\ n \in 1 .. n + 1 /\ n + 1 \in 1 .. n + 1 /\ n \in 1 .. n + 1 - 1
  BY <1>2
<1> DEFINE P == mem[n]
<1>9. Shape(P) /\ P.next_string \in Nat /\ Shape(M) /\ Bare(P) = saved[n]
  BY <1>7, <1>8
<1>10. Under(P, M) /\ Tight(P, M)
  <2>1. Under(mem[n], mem[n + 1])
    BY <1>7, <1>8
  <2> QED BY <1>7, <1>8, <2>1
<1> HIDE DEF P
<1>11. Same(P, M') /\ M'.hash = hashes[n]
  <2> DEFINE hash == Last(hashes)
  <2>1. hash = hashes[n]
    BY DEF Last, UndoInv, n
  <2>2. M' = Forget([PopMove(M) EXCEPT !.hash = hash])
    BY <1>20
  <2> HIDE DEF hash
  <2>3. Same(P, Forget([PopMove(M) EXCEPT !.hash = hash])) /\ Forget([PopMove(M) EXCEPT !.hash = hash]).hash = hash
    BY <1>9, <1>10, UndoIs
  <2> QED BY <2>1, <2>2, <2>3
<1>12. Shape(M') /\ M'.next_string \in Nat /\ Bare(M') = Bare(P)
  BY <1>9, <1>11, SameFields DEF Same
<1>13. mem2[n] = M' /\ \A k \in 1 .. n - 1 : mem2[k] = mem[k]
  BY <1>2, <1>6
<1>14. ASSUME NEW j \in 1 .. n - 1 PROVE Under(mem[j], M') /\ (Tight(mem[j], P) => Tight(mem[j], M'))
  <2>1. j \in 1 .. n + 1
    BY <1>2
  <2>2. Under(mem[j], mem[n])
    BY <1>7, <1>8
  <2>3. Shape(mem[j]) /\ mem[j].next_string \in Nat
    BY <1>7, <2>1
  <2>4. Under(mem[j], P)
    BY <2>2 DEF P
  <2> QED BY <1>9, <1>11, <2>3, <2>4, UnderSame
<1>15. ASSUME NEW k \in 1 .. n
       PROVE  Shape(mem2[k]) /\ mem2[k].next_string \in Nat /\ \A j \in 1 .. k - 1 : Under(mem2[j], mem2[k])
  <2>1. \A j \in 1 .. k - 1 : j \in 1 .. n - 1
    BY <1>2
  <2>2. CASE k = n
    BY <1>12, <1>13, <1>14, <2>1, <2>2
  <2>3. CASE k # n
    <3>1. k \in 1 .. n - 1 /\ k \in 1 .. n + 1
      BY <1>2, <2>3
    <3> QED BY <1>7, <1>13, <2>1, <3>1
  <2> QED BY <2>2, <2>3
<1>16. ASSUME NEW k \in 1 .. n - 1 PROVE Tight(mem2[k], mem2[k + 1]) /\ Bare(mem2[k]) = saved'[k]
  <2>0. k \in 1 .. n
    BY <1>2
  <2>1. Tight(mem[k], mem[k + 1]) /\ Bare(mem[k]) = saved'[k] /\ mem2[k] = mem[k]
    BY <1>5, <1>7, <1>13, <2>0
  <2>2. CASE k + 1 = n
    BY <1>13, <1>14, <2>1, <2>2 DEF P
  <2>3. CASE k + 1 # n
    <3>1. k + 1 \in 1 .. n - 1
      BY <1>2, <2>3
    <3> QED BY <1>13, <2>1, <3>1
  <2> QED BY <2>2, <2>3
<1>17. Levelled(mem2)'
  <2>1. stackp' + 1 = n /\ stackp' = n - 1
    BY <1>2, <1>3
  <2>2. /\ mem2[stackp' + 1] = M'
        /\ \A k \in 1 .. stackp' + 1 : Shape(mem2[k]) /\ mem2[k].next_string \in Nat
        /\ \A k \in 1 .. stackp' + 1 : \A j \in 1 .. k - 1 : Under(mem2[j], mem2[k])
        /\ \A k \in 1 .. stackp' : Tight(mem2[k], mem2[k + 1]) /\ Bare(mem2[k]) = saved'[k]
    BY <1>13, <1>15, <1>16, <2>1
  <2> QED BY <2>2 DEF Levelled
<1>18. ~replaying'
  BY <1>2 DEF UndoInv, Popgo, n
<1>19. LoweredTo(mem, mem2)
  BY <1>11, <1>13, <1>17 DEF LoweredTo, P, n
<1> QED BY <1>3, <1>4, <1>5, <1>9, <1>12, <1>17, <1>18, <1>19 DEF UndoInv, n

LEMMA TrymoveKeeps ==
  ASSUME UndoInv, NEW mem, Levelled(mem), NEW p \in Points \cup {NoMove}, NEW color \in Colors, NEW ignore_ko,
         Trymove(p, color, ignore_ko)
  PROVE  /\ UndoInv' /\ \E mem2 : RaisedTo(mem, mem2)
         /\ M'.next_string \in {M.next_string, M.next_string + 1}
<1>1. Shape(M) /\ M.next_string \in Nat
  BY DEF UndoInv
<1>2. p # NoMove => M.board[p] = "empty"
  BY DEF Trymove, Legal
<1>3. M' = ReallyDoTrymove(p, color) /\ Stacked(p, color)
  BY DEF Trymove
<1>4. Shape(ReallyDoTrymove(p, color))
  BY <1>1, <1>2, TrymoveGivesBack
<1>5. Only({}, ReallyDoTrymove(p, color), M')
  BY <1>3, <1>4, OnlySelf
<1>6. /\ Shape(M') /\ M'.next_string \in Nat /\ Under(M, M') /\ Tight(M, M')
      /\ M'.next_string \in {M.next_string, M.next_string + 1}
  BY <1>1, <1>2, <1>5, TryIs
<1> QED BY <1>3, <1>6, PushKeeps DEF Trymove

LEMMA KomasterTrymoveKeeps ==
  ASSUME UndoInv, NEW mem, Levelled(mem), NEW p \in Points, NEW color \in Colors, NEW consider,
         KomasterTrymove(p, color, consider)
  PROVE  /\ UndoInv' /\ \E mem2 : RaisedTo(mem, mem2)
         /\ M'.next_string \in {M.next_string, M.next_string + 1}
<1> DEFINE R == ReallyDoTrymove(p, color)
           F == {"komaster", "kom_pos", "hash"}
<1>1. Shape(M) /\ M.next_string \in Nat
  BY DEF UndoInv
<1>2. M.board[p] = "empty" /\ Stacked(p, color)
  BY DEF KomasterTrymove
<1>3. \E kpos, ko_move : M' \in {SetNewKomaster(R, color, kpos), KomasterAfter(R, color, ko_move, kpos)}
  BY DEF KomasterTrymove
<1>4. Shape(R)
  BY <1>1, <1>2, TrymoveGivesBack
<1> HIDE DEF R
<1>5. Only(F, R, M')
  BY <1>3, <1>4, SetNewKomasterIs, KomasterAfterIs
<1>6. "next_string" \notin F /\ "board" \notin F
  OBVIOUS
<1> HIDE DEF F
<1>7. /\ Shape(M') /\ M'.next_string \in Nat /\ Under(M, M') /\ Tight(M, M')
      /\ M'.next_string \in {M.next_string, M.next_string + 1}
  BY <1>1, <1>2, <1>5, <1>6, TryIs DEF R
<1> QED BY <1>2, <1>7, PushKeeps DEF KomasterTrymove

LEMMA PermanentKeeps ==
  ASSUME UndoInv, stackp = 0, moves' = moves, hashes' = hashes, saved' = saved,
         Shape(M'), M'.next_string \in Nat
  PROVE  UndoInv'
<1>1. stackp' = 0
  BY DEF stackp
<1>2. (\E mem : Levelled(mem))'
  <2>1. PICK mem : mem = [k \in 1 .. 1 |-> M']
    OBVIOUS
  <2>2. \A k \in 1 .. stackp' + 1 : k = 1
    BY <1>1
  <2>3. \A k \in 1 .. stackp' : FALSE
    BY <1>1
  <2>4. Levelled(mem)'
    BY <1>1, <2>1, <2>2, <2>3 DEF Levelled
  <2> QED BY <2>4
<1> QED BY <1>2 DEF UndoInv, stackp

LEMMA RebuiltIs ==
  ASSUME NEW N, Shape(N)
  PROVE  Shape(NewPosition(N)) /\ NewPosition(N).next_string \in Nat
<1>1. Bared(N)
  BY ShapeBared
<1> QED BY <1>1, NewPositionIs

LEMMA PlayMoveKeeps ==
  ASSUME UndoInv, NEW p \in Points \cup {NoMove}, NEW color, PlayMove(p, color)
  PROVE  UndoInv'
<1>1. Shape(Played(p, color))
  BY PlayedIs DEF UndoInv
<1>2. Shape(M') /\ M'.next_string \in Nat
  BY <1>1, RebuiltIs DEF PlayMove
<1> QED BY <1>2, PermanentKeeps DEF PlayMove, Permanently

LEMMA ReplayStepKeeps ==
  ASSUME UndoInv, NEW p \in Points \cup {NoMove}, NEW color, ReplayStep(p, color)
  PROVE  UndoInv'
<1> DEFINE N == Played(p, color)
           K == [N EXCEPT !.log = <<>>]
<1>1. Shape(N) /\ N.next_string \in Nat
  BY PlayedIs DEF UndoInv
<1>2. M' = IF N.next_string = MaxStrings THEN NewPosition(N) ELSE Forget(K)
  BY DEF ReplayStep
<1> HIDE DEF N
<1>3. Shape(K) /\ K.next_string = N.next_string
  <2>1. N = [f \in Fields |-> N[f]] /\ "log" \in Fields /\ "next_string" \in Fields \ {"log"}
    BY <1>1 DEF Shape, Fields
  <2>2. K = [f \in Fields |-> K[f]] /\ K.log = <<>> /\ \A f \in Fields \ {"log"} : K[f] = N[f]
    BY <2>1
  <2> HIDE DEF K
  <2>3. IsLog(K.log)
    BY <2>2, EmptyLog
  <2>4. \A f \in Fields : K[f] = N[f] \/ Redone(f, N[f], K[f])
    BY <2>2 DEF Redone, Over
  <2> QED BY <1>1, <2>1, <2>2, <2>3, <2>4, ShapeStill
<1> HIDE DEF K
<1>4. Shape(Forget(K)) /\ Forget(K).next_string \in Nat
  BY <1>1, <1>3, ForgetIs
<1>5. Shape(M') /\ M'.next_string \in Nat
  BY <1>1, <1>2, <1>4, RebuiltIs
<1> QED BY <1>5, PermanentKeeps DEF ReplayStep, Permanently

LEMMA UndoStarts ==
  ASSUME Init
  PROVE  UndoInv
<1>1. PICK b \in Boards : M = Fresh(b)
  BY DEF Init
<1>2. b \in [Points -> Colors \cup {"empty"}]
  BY TrialAssumption
<1>3. Shape(M) /\ M.next_string \in Nat
  BY <1>1, <1>2, FreshIs
<1>4. stackp = 0 /\ Len(hashes) = 0 /\ Len(saved) = 0
  BY DEF Init, stackp
<1> QED BY <1>3, <1>4, EmptyLog, Grounded DEF UndoInv, Init

(* Whatever is played, tried, captured and undone, the log stands for all  *)
(* the positions below the present one: entry by entry undone, it leads    *)
(* through every one of them (really_do_trymove, popgo, undo_move).        *)
THEOREM UndoInvariant ==
  Spec => []UndoInv
<1>1. Init => UndoInv
  BY UndoStarts
<1>2. UndoInv /\ [Next]_vars => UndoInv'
  <2> SUFFICES ASSUME UndoInv, [Next]_vars PROVE UndoInv'
    OBVIOUS
  <2>0. Candidates \subseteq Points
    BY TrialAssumption
  <2>6. PICK mem : Levelled(mem)
    BY DEF UndoInv
  <2>1. ASSUME NEW pos \in Candidates \cup {NoMove}, NEW color \in Colors,
               \/ Trymove(pos, color, FALSE) \/ Trymove(pos, color, TRUE)
               \/ PlayMove(pos, color) \/ ReplayStep(pos, color)
        PROVE  UndoInv'
    BY <2>0, <2>1, <2>6, TrymoveKeeps, PlayMoveKeeps, ReplayStepKeeps
  <2>2. ASSUME NEW pos \in Candidates, NEW color \in Colors, NEW consider, KomasterTrymove(pos, color, consider)
        PROVE  UndoInv'
    BY <2>0, <2>2, <2>6, KomasterTrymoveKeeps
  <2>3. CASE Popgo
    BY <2>3, <2>6, PopKeeps
  <2>4. CASE ReplayEnd
    <3>1. Shape(M') /\ M'.next_string \in Nat
      BY <2>4, RebuiltIs DEF ReplayEnd, UndoInv
    <3> QED BY <2>4, <3>1, PermanentKeeps DEF ReplayEnd, UndoInv
  <2>5. CASE UNCHANGED vars
    BY <2>5 DEF vars, UndoInv, Levelled, stackp
  <2> QED BY <2>1, <2>2, <2>3, <2>4, <2>5 DEF Next
<1> QED BY <1>1, <1>2, PTL DEF Spec

-----------------------------------------------------------------------------
(* The positions as a stack.                                               *)
LEMMA OnTop ==
  ASSUME NEW L, IsLog(L), NEW e
  PROVE  Front(Append(L, e)) = L /\ Len(Append(L, e)) = Len(L) + 1 /\ Len(L) \in Nat
<1>1. PICK S : L \in Seq(S)
  BY DEF IsLog
<1> DEFINE T == S \cup {e}  K == Append(L, e)  n == Len(L)
<1>2. L \in Seq(T) /\ e \in T /\ n \in Nat
  BY <1>1
<1>3. K \in Seq(T) /\ Len(K) = n + 1 /\ \A i \in 1 .. n : K[i] = L[i]
  BY <1>2
<1>4. Front(K) = SubSeq(K, 1, n)
  BY <1>2, <1>3 DEF Front
<1> HIDE DEF K, T
<1>5. SubSeq(K, 1, n) \in Seq(T) /\ Len(SubSeq(K, 1, n)) = n /\ \A i \in 1 .. n : SubSeq(K, 1, n)[i] = K[i]
  BY <1>2, <1>3
<1>6. SubSeq(K, 1, n) = L
  BY <1>2, <1>3, <1>5
<1> QED BY <1>2, <1>3, <1>4, <1>6 DEF K

LEMMA TopAgain ==
  ASSUME NEW L, IsLog(L), Len(L) # 0
  PROVE  Append(Front(L), L[Len(L)]) = L
<1> DEFINE n == Len(L)  F == Front(L)  e == L[n]  K == Append(F, e)
<1>1. IsLog(F) /\ n \in Nat /\ n # 0 /\ Len(F) = n - 1 /\ \A i \in 1 .. n - 1 : F[i] = L[i]
  BY FrontOf
<1> HIDE DEF F, e
<1>2. IsLog(K) /\ Len(K) = n /\ (\A i \in 1 .. n - 1 : K[i] = F[i]) /\ K[n] = e
  <2> DEFINE J == K
  <2>1. J = Append(F, e)
    OBVIOUS
  <2> HIDE DEF J
  <2>2. IsLog(J) /\ Len(J) = Len(F) + 1
    BY <1>1, <2>1, LogGrows
  <2>3. \A i \in 1 .. Len(F) : J[i] = F[i]
    BY <1>1, <2>1, LogGrows
  <2>4. J[Len(F) + 1] = e
    BY <1>1, <2>1, LogGrows
  <2> QED BY <1>1, <2>2, <2>3, <2>4 DEF J
<1> HIDE DEF K
<1>3. \A i \in 1 .. n : K[i] = L[i]
  <2> TAKE i \in 1 .. n
  <2>1. i \in 1 .. n - 1 \/ i = n
    BY <1>1
  <2> QED BY <1>1, <1>2, <2>1 DEF e
<1>4. PICK S : L \in Seq(S)
  BY DEF IsLog
<1>5. PICK T : K \in Seq(T)
  BY <1>2 DEF IsLog
<1>6. K = L
  <2>1. L = [i \in 1 .. n |-> L[i]]
    BY <1>4
  <2>2. K = [i \in 1 .. n |-> K[i]]
    BY <1>2, <1>5
  <2> HIDE DEF n
  <2> QED BY <1>3, <2>1, <2>2
<1> QED BY <1>6 DEF K, F, e

LEMMA PopgoPops ==
  ASSUME UndoInv, Popgo
  PROVE  Stack!Pop
<1>1. IsLog(saved) /\ Len(saved) = stackp /\ stackp \in Nat /\ stackp # 0 /\ saved' = Front(saved)
  BY StackHeight DEF UndoInv, Popgo
<1>2. Bare(M') = saved[Len(saved)]
  BY <1>1, PopKeeps DEF UndoInv
<1>3. Append(saved', Bare(M')) = saved
  BY <1>1, <1>2, TopAgain
<1>4. Front(Append(saved, Bare(M))) = saved /\ Len(Append(saved, Bare(M))) > 1
  BY <1>1, OnTop
<1> QED BY <1>3, <1>4 DEF Stack!Pop, Levels, Front, Stack!Front

(* popgo takes the position on top off, and the one it uncovers is exactly *)
(* the one that trymove, tryko or komaster_trymove was called in: board,   *)
(* ko, prisoners and komaster (undo_trymove, POP_MOVE, POP_VERTICES).      *)
THEOREM PopgoIsPop ==
  Spec => [][Popgo => Stack!Pop]_vars
<1>1. UndoInv /\ [Next]_vars => [Popgo => Stack!Pop]_vars
  BY PopgoPops
<1> QED BY <1>1, UndoInvariant, PTL DEF Spec

LEMMA StackedPushes ==
  ASSUME UndoInv, NEW pos, NEW color, Stacked(pos, color)
  PROVE  Len(Levels') = Len(Levels) + 1 /\ Front(Levels') = Levels
<1>1. IsLog(saved) /\ saved' = Levels
  BY DEF UndoInv, Stacked, Levels
<1>2. Levels' = Append(Levels, Bare(M'))
  BY <1>1 DEF Levels
<1>3. IsLog(Levels)
  BY <1>1, LogGrows DEF Levels
<1> QED BY <1>2, <1>3, OnTop

LEMMA PermanentStays ==
  ASSUME UndoInv, stackp = 0, saved' = saved
  PROVE  Len(Levels) = 1 /\ Len(Levels') = 1
<1>1. IsLog(saved) /\ Len(saved) = 0
  BY DEF UndoInv
<1> QED BY <1>1, OnTop DEF Levels

(* A trial move puts a position on top and leaves all the others; popgo    *)
(* takes one off; any other move is made where there is only one.          *)
StackStep ==
    \/ Len(Levels') = Len(Levels) + 1 /\ Front(Levels') = Levels
    \/ Stack!Pop
    \/ Len(Levels) = 1 /\ Len(Levels') = 1

(* Reading starts as TrialStack does, and what its trial moves and undos   *)
(* leave in the records and the log is a stack of positions.               *)
THEOREM LevelsAreAStack ==
  Spec => Stack!Init /\ [][StackStep]_Levels
<1>1. Init => Stack!Init
  <2> SUFFICES ASSUME Init PROVE Stack!Init
    OBVIOUS
  <2>1. PICK b \in Boards : NoDeadStrings(b) /\ M = Fresh(b)
    BY DEF Init
  <2>2. b \in [Points -> Colors \cup {"empty"}]
    BY TrialAssumption
  <2>3. Bare(M) = Stack!Start(b)
    BY <2>1, <2>2, FreshIs
  <2>4. Levels = <<Stack!Start(b)>>
    BY <2>3 DEF Levels, Init
  <2>5. Stack!NoDeadStrings(b)
    <3>1. ASSUME NEW p PROVE Stack!StringAt(b, p) = StringAt(b, p)
      BY DEF StringAt, Stones, Cardinality, Stack!StringAt, Stack!Stones, Stack!Cardinality
    <3> QED BY <2>1, <3>1 DEF NoDeadStrings, Liberties, LibertiesOf, Colors,
                              Stack!NoDeadStrings, Stack!Liberties, Stack!LibertiesOf, Stack!Colors
  <2> QED BY <2>4, <2>5 DEF Stack!Init
<1>2. UndoInv /\ [Next]_vars => [StackStep]_Levels
  <2> SUFFICES ASSUME UndoInv, [Next]_vars PROVE [StackStep]_Levels
    OBVIOUS
  <2>1. ASSUME NEW pos, NEW color, Trymove(pos, color, FALSE) \/ Trymove(pos, color, TRUE) PROVE StackStep
    BY <2>1, StackedPushes DEF Trymove, StackStep
  <2>2. ASSUME NEW pos, NEW color, NEW consider, KomasterTrymove(pos, color, consider) PROVE StackStep
    BY <2>2, StackedPushes DEF KomasterTrymove, StackStep
  <2>3. ASSUME NEW pos, NEW color, PlayMove(pos, color) \/ ReplayStep(pos, color) PROVE StackStep
    BY <2>3, PermanentStays DEF PlayMove, ReplayStep, Permanently, StackStep
  <2>4. CASE Popgo
    BY <2>4, PopgoPops DEF StackStep
  <2>5. CASE ReplayEnd
    BY <2>5, PermanentStays DEF ReplayEnd, UndoInv, StackStep
  <2>6. CASE UNCHANGED vars
    BY <2>6 DEF vars, Levels
  <2> QED BY <2>1, <2>2, <2>3, <2>4, <2>5, <2>6 DEF Next
<1> QED BY <1>1, <1>2, UndoInvariant, PTL DEF Spec
-----------------------------------------------------------------------------
(* The stones a chain lists are those of the ring, each once, and the last *)
(* is linked to the first.                                                 *)
Circled(N, s, S, m) == ToSet(Chain(N, s)) = S /\ Round(Chain(N, s), N.next, N.origin[s], S, m)

LEMMA ChainIs ==
  ASSUME NEW N, NEW s, NEW S \in SUBSET Points, Ring(N.next, N.origin[s], S)
  PROVE  \E m \in 1 .. Cardinality(Points) : Circled(N, s, S, m)
<1>1. Chain(N, s) = Path(N.next, N.origin[s], Cardinality(Points))
  BY DEF Chain, Path
<1>2. PICK m \in 1 .. Cardinality(Points) : Round(Chain(N, s), N.next, N.origin[s], S, m)
  BY <1>1, PointsAssumption, PathIs
<1>3. ToSet(Chain(N, s)) = S
  BY <1>2 DEF Round, ToSet
<1> QED BY <1>2, <1>3 DEF Circled

-----------------------------------------------------------------------------
(* The hash of a position in reading.                                      *)
Turned(a, b) == SymDiff({a}, {b})
HashOf(board, ko, komaster, kom_pos) ==
    HashRecalc(board, ko) \cup Turned(KomasterHash("empty"), KomasterHash(komaster))
                          \cup Turned(KomPosHash(NoMove), KomPosHash(kom_pos))

LEMMA SymDiffApart ==
  ASSUME NEW A, NEW B, NEW K, A \cap K = {}, B \cap K = {}
  PROVE  SymDiff(A \cup K, B) = SymDiff(A, B) \cup K
BY DEF SymDiff

LEMMA TurnedOn ==
  ASSUME NEW a, NEW b, NEW c
  PROVE  SymDiff(Turned(a, b), Turned(b, c)) = Turned(a, c)
BY DEF SymDiff, Turned

(* The parts of a hash are about different things.                         *)
LEMMA PartsApart ==
  ASSUME NEW board, NEW ko, NEW k, NEW l, NEW p, NEW q, NEW r, NEW c
  PROVE  LET A == BoardHash(board)
             B == KoPart(ko)
             C == Turned(KomasterHash(k), KomasterHash(l))
             D == Turned(KomPosHash(p), KomPosHash(q))
         IN /\ A \cap B = {} /\ A \cap C = {} /\ A \cap D = {} /\ B \cap C = {} /\ B \cap D = {} /\ C \cap D = {}
            /\ StoneHash(r, c) \notin B \cup C \cup D
<1>1. /\ \A x \in BoardHash(board) : \E y, z : x = StoneHash(y, z)
      /\ \A x \in KoPart(ko) : \E y : x = KoHash(y)
      /\ \A x \in Turned(KomasterHash(k), KomasterHash(l)) : \E y : x = KomasterHash(y)
      /\ \A x \in Turned(KomPosHash(p), KomPosHash(q)) : \E y : x = KomPosHash(y)
  BY DEF BoardHash, KoPart, Turned, SymDiff
<1>2. \A w, x, y, z : /\ StoneHash(w, x) # KoHash(y) /\ StoneHash(w, x) # KomasterHash(y)
                      /\ StoneHash(w, x) # KomPosHash(y) /\ KoHash(y) # KomasterHash(z)
                      /\ KoHash(y) # KomPosHash(z) /\ KomasterHash(y) # KomPosHash(z)
  BY DEF StoneHash, KoHash, KomasterHash, KomPosHash
<1> QED BY <1>1, <1>2

LEMMA HashParts ==
  ASSUME NEW b, NEW ko, NEW km, NEW kp
  PROVE  HashOf(b, ko, km, kp) = BoardHash(b) \cup KoPart(ko)
             \cup Turned(KomasterHash("empty"), KomasterHash(km)) \cup Turned(KomPosHash(NoMove), KomPosHash(kp))
BY DEF HashOf, HashRecalc, BoardHash

LEMMA HashStone ==
  ASSUME NEW b, NEW b2, NEW ko, NEW km, NEW kp, NEW p, NEW c,
         SymDiff(BoardHash(b), {StoneHash(p, c)}) = BoardHash(b2)
  PROVE  SymDiff(HashOf(b, ko, km, kp), {StoneHash(p, c)}) = HashOf(b2, ko, km, kp)
<1> DEFINE K == KoPart(ko) \cup Turned(KomasterHash("empty"), KomasterHash(km))
                           \cup Turned(KomPosHash(NoMove), KomPosHash(kp))
           h == StoneHash(p, c)
           A == BoardHash(b)
<1>1. A \cap K = {} /\ {h} \cap K = {}
  <2> DEFINE B == KoPart(ko)
             C == Turned(KomasterHash("empty"), KomasterHash(km))
             D == Turned(KomPosHash(NoMove), KomPosHash(kp))
  <2>1. A \cap B = {} /\ A \cap C = {} /\ A \cap D = {}
    BY PartsApart
  <2>2. h \notin B \cup C \cup D
    BY PartsApart
  <2> HIDE DEF A, B, C, D, h
  <2>3. A \cap (B \cup C \cup D) = {} /\ {h} \cap (B \cup C \cup D) = {}
    BY <2>1, <2>2
  <2> QED BY <2>3 DEF A, B, C, D, h
<1>2. HashOf(b, ko, km, kp) = A \cup K /\ HashOf(b2, ko, km, kp) = BoardHash(b2) \cup K
  BY HashParts
<1> HIDE DEF K, A, h
<1>3. SymDiff(A \cup K, {h}) = SymDiff(A, {h}) \cup K
  BY <1>1, SymDiffApart
<1> QED BY <1>2, <1>3 DEF A, h

LEMMA HashStoneOn ==
  ASSUME NEW b \in BoardType, NEW ko, NEW km, NEW kp, NEW p \in Points, b[p] = "empty", NEW c \in Colors
  PROVE  SymDiff(HashOf(b, ko, km, kp), {StoneHash(p, c)}) = HashOf(Put(b, p, c), ko, km, kp)
BY PutHash, HashStone

LEMMA HashStoneOff ==
  ASSUME NEW b \in BoardType, NEW ko, NEW km, NEW kp, NEW p \in Points, b[p] \in Colors
  PROVE  SymDiff(HashOf(b, ko, km, kp), {StoneHash(p, b[p])}) = HashOf(Cleared(b, {p}), ko, km, kp)
<1>1. SymDiff(BoardHash(b), StoneHashes(b, {p})) = BoardHash(Cleared(b, {p}))
  BY ClearedHash
<1>2. StoneHashes(b, {p}) = {StoneHash(p, b[p])}
  BY DEF StoneHashes
<1> QED BY <1>1, <1>2, HashStone

LEMMA HashKo ==
  ASSUME NEW b, NEW ko, NEW ko2, NEW km, NEW kp
  PROVE  SymDiff(SymDiff(HashOf(b, ko, km, kp), KoPart(ko)), KoPart(ko2)) = HashOf(b, ko2, km, kp)
<1> DEFINE K == BoardHash(b) \cup Turned(KomasterHash("empty"), KomasterHash(km))
                           \cup Turned(KomPosHash(NoMove), KomPosHash(kp))
           A == KoPart(ko)
           B == KoPart(ko2)
<1>1. A \cap K = {} /\ B \cap K = {}
  BY PartsApart
<1>2. HashOf(b, ko, km, kp) = A \cup K /\ HashOf(b, ko2, km, kp) = B \cup K
  BY HashParts
<1> HIDE DEF K, A, B
<1>3. SymDiff(SymDiff(A \cup K, A), B) = B \cup K
  BY <1>1 DEF SymDiff
<1> QED BY <1>2, <1>3 DEF A, B

LEMMA HashKoOff ==
  ASSUME NEW b, NEW ko, NEW km, NEW kp
  PROVE  SymDiff(HashOf(b, ko, km, kp), KoPart(ko)) = HashOf(b, NoMove, km, kp)
<1> DEFINE h == SymDiff(HashOf(b, ko, km, kp), KoPart(ko))
<1>1. SymDiff(h, KoPart(NoMove)) = HashOf(b, NoMove, km, kp)
  BY HashKo
<1>2. KoPart(NoMove) = {}
  BY DEF KoPart
<1> HIDE DEF h
<1>3. SymDiff(h, {}) = h
  BY DEF SymDiff
<1> QED BY <1>1, <1>2, <1>3 DEF h

LEMMA HashKomaster ==
  ASSUME NEW b, NEW ko, NEW km, NEW kp, NEW km2, NEW kp2
  PROVE  SymDiff(SymDiff(HashOf(b, ko, km, kp), Turned(KomasterHash(km), KomasterHash(km2))),
                 Turned(KomPosHash(kp), KomPosHash(kp2))) = HashOf(b, ko, km2, kp2)
<1> DEFINE K == BoardHash(b) \cup KoPart(ko)
           A == Turned(KomasterHash("empty"), KomasterHash(km))
           D == Turned(KomasterHash(km), KomasterHash(km2))
           A2 == Turned(KomasterHash("empty"), KomasterHash(km2))
           B == Turned(KomPosHash(NoMove), KomPosHash(kp))
           E == Turned(KomPosHash(kp), KomPosHash(kp2))
           B2 == Turned(KomPosHash(NoMove), KomPosHash(kp2))
<1>1. /\ A \cap K = {} /\ D \cap K = {} /\ A2 \cap K = {} /\ B \cap K = {} /\ E \cap K = {}
      /\ A \cap B = {} /\ D \cap B = {} /\ A2 \cap B = {} /\ E \cap A2 = {}
  BY PartsApart
<1>2. HashOf(b, ko, km, kp) = A \cup (K \cup B) /\ HashOf(b, ko, km2, kp2) = B2 \cup (K \cup A2)
  BY HashParts
<1>3. SymDiff(A, D) = A2 /\ SymDiff(B, E) = B2
  BY TurnedOn
<1> HIDE DEF K, A, B, D, E, A2, B2
<1>4. SymDiff(A \cup (K \cup B), D) = A2 \cup (K \cup B)
  <2> DEFINE L == K \cup B
  <2>1. A \cap L = {} /\ D \cap L = {}
    BY <1>1
  <2> HIDE DEF L
  <2>2. SymDiff(A \cup L, D) = SymDiff(A, D) \cup L
    BY <2>1, SymDiffApart
  <2> QED BY <1>3, <2>2 DEF L
<1>5. SymDiff(B \cup (K \cup A2), E) = B2 \cup (K \cup A2)
  <2> DEFINE L == K \cup A2
  <2>1. B \cap L = {} /\ E \cap L = {}
    BY <1>1
  <2> HIDE DEF L
  <2>2. SymDiff(B \cup L, E) = SymDiff(B, E) \cup L
    BY <2>1, SymDiffApart
  <2> QED BY <1>3, <2>2 DEF L
<1> QED BY <1>2, <1>4, <1>5 DEF D, E

-----------------------------------------------------------------------------
(* The strings of a memory: every stone but x is in the ring of the stones *)
(* with its number; x has just been put and has none.                      *)
Members(N, s) == {p \in Points : N.board[p] # "empty" /\ N.number[p] = s}

InRing(N, p) ==
    /\ N.number[p] \in 0 .. N.next_string - 1
    /\ Ring(N.next, N.origin[N.number[p]], Members(N, N.number[p]))

Strung(N, x) ==
    /\ N.next_string \in 0 .. MaxStrings
    /\ x \in Points => N.board[x] # "empty" /\ N.number[x] = NoString
    /\ \A p \in Points : N.board[p] # "empty" /\ p # x => InRing(N, p)

HashIs(N) == N.hash = HashOf(N.board, N.ko, N.komaster, N.kom_pos)

Sound(N, x) == Shape(N) /\ N.board \in BoardType /\ HashIs(N) /\ Strung(N, x)

RingFields == {"number", "next", "origin", "next_string", "board"}
HashFields == {"board", "hash", "ko", "komaster", "kom_pos"}

LEMMA StrungSame ==
  ASSUME NEW N, NEW x, Strung(N, x), NEW K, \A f \in RingFields : K[f] = N[f]
  PROVE  Strung(K, x) /\ \A s : Members(K, s) = Members(N, s)
BY DEF Strung, InRing, Members, RingFields

LEMMA SoundSame ==
  ASSUME NEW N, NEW x, Sound(N, x), NEW K, Shape(K), \A f \in RingFields \cup HashFields : K[f] = N[f]
  PROVE  Sound(K, x)
<1>1. Strung(K, x)
  BY StrungSame DEF Sound
<1>2. K.board = N.board /\ K.hash = N.hash /\ K.ko = N.ko /\ K.komaster = N.komaster /\ K.kom_pos = N.kom_pos
  BY DEF HashFields
<1> QED BY <1>1, <1>2 DEF Sound, HashIs

LEMMA SoundLists ==
  ASSUME NEW N, NEW x, Sound(N, x), NEW K, Only(Lists, N, K)
  PROVE  Sound(K, x) /\ \A f \in RingFields \cup HashFields : K[f] = N[f]
<1>1. RingFields \cup HashFields \subseteq Fields \ (Lists \cup {"log"})
  BY DEF RingFields, HashFields, Fields, Lists
<1>2. Shape(K)
  BY OnlyShape
<1>3. \A f \in RingFields \cup HashFields : K[f] = N[f]
  BY <1>1 DEF Only
<1> QED BY <1>2, <1>3, SoundSame

(* A stone is taken off.                                                   *)
LEMMA RemoveStoneAs ==
  ASSUME NEW N, Shape(N), NEW p \in Points
  PROVE  /\ RemoveStone(N, p).board = Cleared(N.board, {p})
         /\ RemoveStone(N, p).hash = SymDiff(N.hash, {StoneHash(p, N.board[p])})
<1> DEFINE c1 == <<"number", p>>
           c2 == <<"next", p>>
           ats == <<c1, c2>>
           at == <<"board", p>>
           K == PushAll(N, ats)
           J == Assign(K, at, "empty")
           I == [J EXCEPT !.hash = SymDiff(@, {StoneHash(p, N.board[p])})]
<1>1. /\ Address(c1) /\ Address(c2) /\ Address(at) /\ at[1] = "board"
      /\ DOMAIN ats = 1 .. 2 /\ ats[1] = c1 /\ ats[2] = c2
  BY DEF Address, Over, Within
<1>2. \A q \in Points : <<"board", q>> \in Places /\ (<<"board", q>> = at <=> q = p)
  BY DEF Places
<1>3. RemoveStone(N, p) = I
  BY DEF RemoveStone
<1> HIDE DEF ats, c1, c2, at
<1>4. Only({}, N, K) /\ Shape(K)
  <2>1. DOMAIN ats \subseteq 1 .. 2 /\ \A x \in DOMAIN ats : Address(ats[x])
    BY <1>1
  <2>2. Only({}, N, K)
    BY <2>1, PushAllIs
  <2> QED BY <2>2, OnlyShape
<1> HIDE DEF K
<1>5. /\ Shape(J) /\ \A c \in Places : Peek(J, c) = IF c = at THEN "empty" ELSE Peek(K, c)
      /\ J.hash = K.hash
  <2>1. Logged(Places, K, J) /\ \A f \in Fields \ {"log", "board"} : J[f] = K[f]
    BY <1>1, <1>4, AssignLogged
  <2>2. \A c \in Places : Peek(J, c) = IF c = at THEN "empty" ELSE Peek(K, c)
    BY <1>1, <1>4, AssignLogged
  <2>3. "hash" \in Fields \ {"log", "board"}
    BY DEF Fields
  <2> QED BY <2>1, <2>2, <2>3 DEF Logged
<1>6. K.board = N.board /\ K.hash = N.hash
  <2>1. {"board", "hash"} \subseteq Fields \ ({} \cup {"log"})
    BY DEF Fields
  <2> QED BY <1>4, <2>1 DEF Only
<1> HIDE DEF J
<1>7. J = [f \in Fields |-> J[f]] /\ "hash" \in Fields /\ "board" \in Fields
  BY <1>5 DEF Shape, Fields
<1>8. I.board = J.board /\ I.hash = SymDiff(J.hash, {StoneHash(p, N.board[p])})
  BY <1>7
<1>9. J.board = [q \in Points |-> J.board[q]]
  <2>1. "board" \in DOMAIN Over /\ Over["board"] = Points
    BY DEF Over
  <2> QED BY <1>5, <2>1, ShapeOver
<1>10. \A q \in Points : J.board[q] = IF q = p THEN "empty" ELSE N.board[q]
  <2> TAKE q \in Points
  <2>1. Peek(J, <<"board", q>>) = J.board[q] /\ Peek(K, <<"board", q>>) = K.board[q]
    BY PeekIs
  <2> QED BY <1>2, <1>5, <1>6, <2>1
<1>11. J.board = Cleared(N.board, {p})
  BY <1>9, <1>10 DEF Cleared
<1> QED BY <1>3, <1>5, <1>6, <1>8, <1>11

(* The stones of a list are taken off, each once.                          *)
Gone(seq, k) == {seq[i] : i \in DOMAIN seq \cap (1 .. k)}

OffHolds(a, b, c, base, seq, k, v) ==
    /\ Shape(v) /\ v.board = Cleared(base.board, Gone(seq, k))
    /\ v.hash = HashOf(v.board, base.ko, base.komaster, base.kom_pos)
StonesOut == INSTANCE Recursion WITH Turn <- StoneTurn, Holds <- OffHolds

LEMMA StonesOffAre ==
  ASSUME NEW N, Shape(N), N.board \in BoardType, HashIs(N), NEW n \in Nat, NEW chain, DOMAIN chain = 1 .. n,
         \A i \in 1 .. n : chain[i] \in Points /\ N.board[chain[i]] # "empty",
         \A i, j \in 1 .. n : chain[i] = chain[j] => i = j
  PROVE  LET K == FoldLeft(RemoveStone, N, chain) IN
         /\ K.board = Cleared(N.board, {chain[i] : i \in 1 .. n})
         /\ K.hash = HashOf(K.board, N.ko, N.komaster, N.kom_pos)
<1>1. FoldLeft(RemoveStone, N, chain) = StonesOut!Loop(0, 0, 0, N, chain)
  BY DEF StoneTurn, FoldLeft, MapThenFoldSet, Max,
         StonesOut!Greatest, StonesOut!Loop, StonesOut!Rest, StonesOut!RestOver
<1>2. OffHolds(0, 0, 0, N, chain, 0, N)
  <2>1. Gone(chain, 0) = {}
    BY DEF Gone
  <2>2. Cleared(N.board, {}) = N.board
    BY DEF Cleared, BoardType
  <2> QED BY <2>1, <2>2 DEF OffHolds, HashIs
<1>3. ASSUME NEW k \in 1 .. n, NEW v, OffHolds(0, 0, 0, N, chain, k - 1, v)
      PROVE  OffHolds(0, 0, 0, N, chain, k, StoneTurn(0, 0, 0, v, chain[k]))
  <2> DEFINE p == chain[k]
             w == RemoveStone(v, p)
             G == Gone(chain, k - 1)
  <2>1. p \in Points /\ p \notin G
    BY DEF Gone
  <2>2. Gone(chain, k) = G \cup {p}
    <3>1. DOMAIN chain \cap (1 .. k) = (DOMAIN chain \cap (1 .. k - 1)) \cup {k}
      OBVIOUS
    <3> QED BY <3>1 DEF Gone
  <2> HIDE DEF p, G
  <2>3. v.board = Cleared(N.board, G) /\ Shape(v)
    BY <1>3 DEF OffHolds, G
  <2>4. v.board \in BoardType /\ v.board[p] \in Colors
    <3>1. N.board[p] # "empty" /\ N.board[p] \in Colors
      BY <2>1 DEF BoardType, p
    <3> QED BY <2>1, <2>3, <3>1 DEF Cleared, BoardType
  <2>5. w.board = Cleared(v.board, {p}) /\ w.hash = SymDiff(v.hash, {StoneHash(p, v.board[p])})
    BY <2>1, <2>3, RemoveStoneAs
  <2>6. Shape(w)
    BY <2>3, RemoveStoneIs, OnlyShape
  <2> HIDE DEF w
  <2>7. w.board = Cleared(N.board, G \cup {p})
    BY <2>3, <2>5 DEF Cleared
  <2>8. w.hash = HashOf(w.board, N.ko, N.komaster, N.kom_pos)
    BY <1>3, <2>1, <2>4, <2>5, HashStoneOff DEF OffHolds
  <2> QED BY <2>2, <2>6, <2>7, <2>8 DEF OffHolds, StoneTurn, w, p
<1>4. OffHolds(0, 0, 0, N, chain, n, StonesOut!Loop(0, 0, 0, N, chain))
  BY <1>2, <1>3, StonesOut!LoopKeeps
<1>5. Gone(chain, n) = {chain[i] : i \in 1 .. n}
  BY DEF Gone
<1> QED BY <1>1, <1>4, <1>5 DEF OffHolds
(* A string that is taken off leaves the others as they are.               *)
LEMMA RemoveStringAs ==
  ASSUME NEW N, NEW x, Sound(N, x), NEW q \in Points, N.board[q] # "empty", q # x,
         NEW s, s = N.number[q], NEW K, K = DoRemoveString(N, s)
  PROVE  /\ Sound(K, x) /\ K.board = Cleared(N.board, Members(N, s))
         /\ K.number = N.number /\ K.next = N.next /\ K.origin = N.origin /\ K.next_string = N.next_string
<1> DEFINE S == Members(N, s)
           F == Fields \ (Lists \cup {"board", "hash", "captured", "log"})
<1>1. InRing(N, q) /\ Shape(N) /\ N.board \in BoardType /\ HashIs(N)
  BY DEF Sound, Strung
<1>2. S \in SUBSET Points /\ Ring(N.next, N.origin[s], S)
  BY <1>1 DEF Members, InRing
<1>3. K.board = Cleared(N.board, S) /\ K.hash = HashOf(K.board, N.ko, N.komaster, N.kom_pos)
  <2>1. PICK m \in 1 .. Cardinality(Points) : Circled(N, s, S, m)
    <3> HIDE DEF S
    <3> QED BY <1>2, ChainIs
  <2> DEFINE c == Chain(N, s)
  <2>2. m \in Nat
    OBVIOUS
  <2>3. {c[i] : i \in 1 .. m} = S
    BY <2>1 DEF ToSet, Round, Circled
  <2>4. \A i \in 1 .. m : c[i] \in S
    BY <2>3
  <2>5. \A i \in 1 .. m : c[i] \in Points /\ N.board[c[i]] # "empty"
    BY <2>4 DEF Members
  <2>6. \A i, j \in 1 .. m : c[i] = c[j] => i = j
    BY <2>1 DEF Round, Circled
  <2>7. DOMAIN c = 1 .. m
    BY <2>1 DEF Round, Circled
  <2> HIDE DEF c, S
  <2>8. LET J == FoldLeft(RemoveStone, N, c) IN
        /\ J.board = Cleared(N.board, {c[i] : i \in 1 .. m})
        /\ J.hash = HashOf(J.board, N.ko, N.komaster, N.kom_pos)
    BY <1>1, <2>2, <2>5, <2>6, <2>7, StonesOffAre
  <2>9. K.board = StonesOff(N, s).board /\ K.hash = StonesOff(N, s).hash
    BY <1>1, DoRemoveStringIs
  <2> QED BY <2>3, <2>8, <2>9 DEF StonesOff, c
<1>4. Shape(K) /\ \A f \in F : K[f] = N[f]
  BY <1>1, DoRemoveStringIs DEF Logged
<1>5. {"number", "next", "origin", "next_string", "ko", "komaster", "kom_pos"} \subseteq F
  BY DEF Fields, Lists
<1>6. /\ K.number = N.number /\ K.next = N.next /\ K.origin = N.origin /\ K.next_string = N.next_string
      /\ K.ko = N.ko /\ K.komaster = N.komaster /\ K.kom_pos = N.kom_pos
  BY <1>4, <1>5
<1> HIDE DEF F
<1>7. HashIs(K) /\ K.board \in BoardType
  BY <1>1, <1>3, <1>6 DEF HashIs, Cleared, BoardType
<1>8. \A p \in Points : K.board[p] = IF p \in S THEN "empty" ELSE N.board[p]
  BY <1>3 DEF Cleared
<1>9. s \in 0 .. N.next_string - 1 /\ N.next_string \in 0 .. MaxStrings /\ s # NoString
  BY <1>1 DEF InRing, Sound, Strung, NoString
<1>10. ASSUME NEW p \in Points, K.board[p] # "empty", p # x
       PROVE  InRing(K, p)
  <2>1. N.board[p] # "empty" /\ p \notin S
    BY <1>8, <1>10
  <2>2. InRing(N, p) /\ N.number[p] # s
    BY <1>10, <2>1 DEF Sound, Strung, Members
  <2>3. Members(K, N.number[p]) = Members(N, N.number[p])
    BY <1>6, <1>8, <2>2 DEF Members
  <2> QED BY <1>6, <2>2, <2>3 DEF InRing
<1>11. x \in Points => K.board[x] # "empty" /\ K.number[x] = NoString
  <2> HAVE x \in Points
  <2>1. N.board[x] # "empty" /\ N.number[x] = NoString
    BY DEF Sound, Strung
  <2>2. x \notin S
    BY <1>9, <2>1 DEF Members
  <2> QED BY <1>6, <1>8, <2>1, <2>2
<1>12. Strung(K, x)
  BY <1>6, <1>9, <1>10, <1>11 DEF Strung
<1> QED BY <1>3, <1>4, <1>6, <1>7, <1>12 DEF Sound

LEMMA ShapePoints ==
  ASSUME NEW N, Shape(N)
  PROVE  /\ N.board = [p \in Points |-> N.board[p]] /\ N.number = [p \in Points |-> N.number[p]]
         /\ N.next = [p \in Points |-> N.next[p]] /\ N.origin = [s \in Slots |-> N.origin[s]]
<1>1. /\ {"board", "number", "next", "origin"} \subseteq DOMAIN Over
      /\ Over["board"] = Points /\ Over["number"] = Points /\ Over["next"] = Points /\ Over["origin"] = Slots
  BY DEF Over
<1>2. N["board"] = [p \in Points |-> N["board"][p]]
  BY <1>1, ShapeOver
<1>3. N["number"] = [p \in Points |-> N["number"][p]]
  BY <1>1, ShapeOver
<1>4. N["next"] = [p \in Points |-> N["next"][p]]
  BY <1>1, ShapeOver
<1>5. N["origin"] = [s \in Slots |-> N["origin"][s]]
  BY <1>1, ShapeOver
<1> QED BY <1>2, <1>3, <1>4, <1>5

LEMMA PointPlaces ==
  ASSUME NEW N, NEW p \in Points
  PROVE  /\ {<<"board", p>>, <<"number", p>>, <<"next", p>>} \subseteq Places
         /\ Peek(N, <<"board", p>>) = N.board[p] /\ Peek(N, <<"number", p>>) = N.number[p]
         /\ Peek(N, <<"next", p>>) = N.next[p]
<1>1. {<<"board", p>>, <<"number", p>>, <<"next", p>>} \subseteq Places
  BY DEF Places
<1> QED BY <1>1, PeekIs

(* A stone is put, and has no string yet.                                  *)
LEMMA PutOnAs ==
  ASSUME NEW N, Sound(N, NoMove), NEW p \in Points, N.board[p] = "empty", NEW color \in Colors,
         NEW K, K = StonePutOn(N, p, color)
  PROVE  Sound(K, p) /\ K.board = Put(N.board, p, color)
<1> DEFINE F == Fields \ {"board", "number", "hash", "log"}
<1>1. Shape(N) /\ N.board \in BoardType /\ HashIs(N) /\ Strung(N, NoMove) /\ NoMove \notin Points
  BY PointsAssumption DEF Sound
<1>2. Shape(K) /\ (\A f \in F : K[f] = N[f]) /\ PutAs(N, p, color, K)
  BY <1>1, PutIs DEF Logged
<1>3. {"next", "origin", "next_string", "ko", "komaster", "kom_pos"} \subseteq F
  BY DEF Fields
<1>4. /\ K.next = N.next /\ K.origin = N.origin /\ K.next_string = N.next_string
      /\ K.ko = N.ko /\ K.komaster = N.komaster /\ K.kom_pos = N.kom_pos
  BY <1>2, <1>3
<1> HIDE DEF F
<1>5. ASSUME NEW q \in Points
      PROVE  /\ K.board[q] = IF q = p THEN color ELSE N.board[q]
             /\ K.number[q] = IF q = p THEN NoString ELSE N.number[q]
  <2> DEFINE b == <<"board", q>>
             n == <<"number", q>>
  <2>1. /\ {b, n} \subseteq Places /\ Peek(K, b) = K.board[q] /\ Peek(N, b) = N.board[q]
        /\ Peek(K, n) = K.number[q] /\ Peek(N, n) = N.number[q]
    BY PointPlaces
  <2>2. (b = <<"board", p>> <=> q = p) /\ b # <<"number", p>> /\ n # <<"board", p>> /\ (n = <<"number", p>> <=> q = p)
    OBVIOUS
  <2> HIDE DEF b, n
  <2> QED BY <1>2, <2>1, <2>2 DEF PutAs
<1>6. K.board = Put(N.board, p, color)
  <2>1. K.board = [q \in Points |-> K.board[q]] /\ N.board = [q \in Points |-> N.board[q]]
    BY <1>1, <1>2, ShapePoints
  <2> QED BY <1>5, <2>1 DEF Put
<1>7. K.board \in BoardType
  BY <1>1, <1>6, BoardTypes
<1>8. K.hash = SymDiff(N.hash, {StoneHash(p, color)})
  BY <1>2 DEF PutAs
<1>9. HashIs(K)
  <2> DEFINE b == N.board
  <2>1. b \in BoardType /\ b[p] = "empty" /\ N.hash = HashOf(b, N.ko, N.komaster, N.kom_pos)
    BY <1>1 DEF HashIs
  <2> HIDE DEF b
  <2>2. SymDiff(HashOf(b, N.ko, N.komaster, N.kom_pos), {StoneHash(p, color)})
        = HashOf(Put(b, p, color), N.ko, N.komaster, N.kom_pos)
    BY <2>1, HashStoneOn
  <2> QED BY <1>4, <1>6, <1>8, <2>1, <2>2 DEF HashIs, b
<1>10. ASSUME NEW q \in Points, K.board[q] # "empty", q # p
       PROVE  InRing(K, q)
  <2>1. InRing(N, q) /\ K.number[q] = N.number[q]
    BY <1>1, <1>5, <1>10 DEF Strung
  <2>2. N.number[q] # NoString
    BY <1>1, <2>1 DEF InRing, Strung, NoString
  <2>3. Members(K, N.number[q]) = Members(N, N.number[q])
    BY <1>5, <2>2 DEF Members
  <2> QED BY <1>4, <2>1, <2>3 DEF InRing
<1>11. Strung(K, p)
  <2>1. K.board[p] # "empty" /\ K.number[p] = NoString
    BY <1>5, OthersColor
  <2> QED BY <1>1, <1>4, <1>10, <2>1 DEF Strung
<1> QED BY <1>2, <1>6, <1>7, <1>9, <1>11 DEF Sound

-----------------------------------------------------------------------------
(* The first half of a move: the allies a stone finds keep theirs.         *)
HasStone(N, x, t) == \E q \in Points : q # x /\ N.board[q] # "empty" /\ N.number[q] = t

Found(p, color, A) ==
    /\ Looked(A) /\ Sound(A.m, p) /\ A.m.board[p] = color /\ IsLog(A.allies)
    /\ \A i \in 1 .. Len(A.allies) : A.allies[i] \in A.seen /\ HasStone(A.m, p, A.allies[i])

LEMMA LookTurnAs ==
  ASSUME NEW p \in Points, NEW color \in Colors, NEW A, Found(p, color, A), NEW q \in Points, q # p
  PROVE  Found(p, color, LookTurn(color, p, 0, A, q))
<1> DEFINE N == A.m
           t == N.number[q]
           B == LookTurn(color, p, 0, A, q)
<1>1. A = [f \in {"m", "seen", "allies", "taken"} |-> A[f]] /\ Sound(N, p) /\ Shape(N) /\ IsLog(A.allies)
  BY DEF Found, Looked, Sound
<1>2. CASE N.board[q] = "empty" \/ t \in A.seen
  <2>1. B = A
    BY <1>2 DEF LookTurn
  <2> QED BY <2>1
<1>3. CASE ~(N.board[q] = "empty" \/ t \in A.seen) /\ N.board[q] = color
  <2>1. B = [A EXCEPT !.seen = @ \cup {t}, !.allies = Append(@, t)]
    BY <1>3 DEF LookTurn
  <2>2. Looked(B) /\ B.m = N /\ B.seen = A.seen \cup {t} /\ B.allies = Append(A.allies, t)
    BY <1>1, <2>1 DEF Looked
  <2> DEFINE L == A.allies
             K == B.allies
  <2>3. IsLog(L) /\ K = Append(L, t)
    BY <1>1, <2>2
  <2> HIDE DEF L, K
  <2>4. /\ IsLog(K) /\ Len(L) \in Nat /\ Len(K) = Len(L) + 1
        /\ (\A i \in 1 .. Len(L) : K[i] = L[i]) /\ K[Len(L) + 1] = t
    <3>1. IsLog(K) /\ Len(L) \in Nat /\ Len(K) = Len(L) + 1
      BY <2>3, LogGrows
    <3>2. \A i \in 1 .. Len(L) : K[i] = L[i]
      BY <2>3, LogGrows
    <3>3. K[Len(L) + 1] = t
      BY <2>3, LogGrows
    <3> QED BY <3>1, <3>2, <3>3
  <2>5. HasStone(N, p, t)
    BY <1>3 DEF HasStone
  <2>6. ASSUME NEW i \in 1 .. Len(K) PROVE K[i] \in B.seen /\ HasStone(N, p, K[i])
    <3>1. CASE i = Len(L) + 1
      BY <2>2, <2>4, <2>5, <3>1
    <3>2. CASE i # Len(L) + 1
      <4>1. i \in 1 .. Len(L)
        BY <2>4, <3>2
      <4>2. L[i] \in A.seen /\ HasStone(N, p, L[i])
        BY <4>1 DEF Found, L
      <4> QED BY <2>2, <2>4, <4>1, <4>2
    <3> QED BY <3>1, <3>2
  <2> QED BY <1>1, <2>2, <2>4, <2>6 DEF Found, K
<1>4. CASE ~(N.board[q] = "empty" \/ t \in A.seen) /\ N.board[q] # color /\ N.liberties[t] > 1
  <2> DEFINE J == RemoveLiberty(N, t, p)
  <2>1. B = [A EXCEPT !.m = J, !.seen = @ \cup {t}]
    BY <1>4 DEF LookTurn
  <2>2. Only(Lists, N, J)
    BY <1>1, RemoveLibertyIs
  <2> HIDE DEF J
  <2>3. Looked(B) /\ B.m = J /\ B.seen = A.seen \cup {t} /\ B.allies = A.allies
    BY <1>1, <2>1 DEF Looked
  <2>4. Sound(J, p) /\ J.board = N.board /\ J.number = N.number
    BY <1>1, <2>2, SoundLists DEF RingFields
  <2>5. \A s : HasStone(N, p, s) => HasStone(J, p, s)
    BY <2>4 DEF HasStone
  <2> QED BY <1>1, <2>3, <2>4, <2>5 DEF Found
<1>5. CASE ~(N.board[q] = "empty" \/ t \in A.seen) /\ N.board[q] # color /\ ~(N.liberties[t] > 1)
  <2> DEFINE J == DoRemoveString(N, t)
  <2>1. B = [A EXCEPT !.m = J, !.taken = @ + N.size[t]]
    BY <1>5 DEF LookTurn
  <2>2. Sound(J, p) /\ J.board = Cleared(N.board, Members(N, t)) /\ J.number = N.number
    BY <1>1, <1>5, RemoveStringAs
  <2> HIDE DEF J
  <2>3. Looked(B) /\ B.m = J /\ B.seen = A.seen /\ B.allies = A.allies
    BY <1>1, <2>1 DEF Looked
  <2>4. ASSUME NEW s, s # t, HasStone(N, p, s) PROVE HasStone(J, p, s)
    <3>1. PICK r \in Points : r # p /\ N.board[r] # "empty" /\ N.number[r] = s
      BY <2>4 DEF HasStone
    <3>2. J.board[r] = N.board[r]
      BY <2>2, <2>4, <3>1 DEF Cleared, Members
    <3> QED BY <2>2, <3>1, <3>2 DEF HasStone
  <2>5. J.board[p] = color
    <3>1. N.number[p] = NoString /\ N.board[p] = color
      BY <1>1 DEF Sound, Strung, Found
    <3>2. t # NoString
      <4>1. InRing(N, q) /\ N.next_string \in 0 .. MaxStrings
        BY <1>1, <1>5 DEF Sound, Strung
      <4> QED BY <4>1 DEF InRing, NoString
    <3> QED BY <2>2, <3>1, <3>2 DEF Cleared, Members
  <2> QED BY <1>1, <1>5, <2>2, <2>3, <2>4, <2>5 DEF Found
<1> QED BY <1>2, <1>3, <1>4, <1>5

FoundHolds(color, p, c, base, seq, k, v) == Found(p, color, v)
Finds == INSTANCE Recursion WITH Turn <- LookTurn, Holds <- FoundHolds

LEMMA AroundIs ==
  ASSUME NEW p \in Points
  PROVE  /\ Len(Around[p]) \in Nat /\ DOMAIN Around[p] = 1 .. Len(Around[p])
         /\ \A k \in DOMAIN Around[p] : Around[p][k] \in Points /\ Around[p][k] # p
<1>1. Around[p] \in Seq(Points) /\ ToSet(Around[p]) = Neighbors[p] /\ p \notin Neighbors[p]
  BY StringAssumption, PointsAssumption
<1>2. \A k \in DOMAIN Around[p] : Around[p][k] \in ToSet(Around[p]) /\ Around[p][k] \in Points
  BY <1>1 DEF ToSet
<1> QED BY <1>1, <1>2

LEMMA PutStoneAs ==
  ASSUME NEW N, Sound(N, NoMove), NEW p \in Points, N.board[p] = "empty", NEW color \in Colors
  PROVE  Found(p, color, PutStone(N, p, color))
<1> DEFINE K == StonePutOn(N, p, color)
           base == [m |-> K, seen |-> {}, allies |-> <<>>, taken |-> 0]
           seq == Around[p]
           n == Len(seq)
           A == Finds!Loop(color, p, 0, base, seq)
<1>1. PutStone(N, p, color) = A
  BY DEF PutStone, StonePutOn, LookTurn, FoldLeft, MapThenFoldSet, Max,
         Finds!Greatest, Finds!Loop, Finds!Rest, Finds!RestOver
<1>2. Sound(K, p) /\ K.board[p] = color
  <2>1. Sound(K, p) /\ K.board = Put(N.board, p, color)
    BY PutOnAs
  <2>2. N.board \in BoardType
    BY DEF Sound
  <2> QED BY <2>1, <2>2 DEF Put, BoardType
<1>3. n \in Nat /\ DOMAIN seq \subseteq 1 .. n /\ \A k \in DOMAIN seq : seq[k] \in Points /\ seq[k] # p
  BY AroundIs
<1>4. base.m = K /\ Looked(base) /\ base.allies = <<>>
  BY DEF Looked
<1> HIDE DEF seq, n, K, base
<1>5. FoundHolds(color, p, 0, base, seq, 0, base)
  BY <1>2, <1>4, EmptyLog DEF FoundHolds, Found
<1>6. ASSUME NEW k \in 1 .. n, NEW v, FoundHolds(color, p, 0, base, seq, k - 1, v)
      PROVE  /\ k \in DOMAIN seq => FoundHolds(color, p, 0, base, seq, k, LookTurn(color, p, 0, v, seq[k]))
             /\ k \notin DOMAIN seq => FoundHolds(color, p, 0, base, seq, k, v)
  BY <1>3, <1>6, LookTurnAs DEF FoundHolds
<1>7. FoundHolds(color, p, 0, base, seq, n, A)
  BY <1>3, <1>5, <1>6, Finds!LoopKeeps
<1> QED BY <1>1, <1>7 DEF FoundHolds

-----------------------------------------------------------------------------
(* A stone alone.                                                          *)
LEMMA SoundSingleton ==
  ASSUME NEW N, NEW p \in Points, Sound(N, p), N.next_string < MaxStrings, NEW K, K = Singleton(N, p)
  PROVE  /\ Sound(K, NoMove) /\ K.board = N.board /\ K.number[p] = N.next_string
         /\ K.liberties[N.next_string] = 0 /\ N.next_string \in Slots
<1> DEFINE s == N.next_string
           F == Fields \ (Strings \cup Lists \cup {"log"})
<1>1. Shape(N) /\ N.board \in BoardType /\ HashIs(N) /\ Strung(N, p)
  BY DEF Sound
<1>2. Shape(K) /\ (\A f \in F : K[f] = N[f]) /\ SingletonAs(N, p, K)
  BY <1>1, SingletonIs DEF Logged
<1>3. {"board", "hash", "ko", "komaster", "kom_pos"} \subseteq F
  BY DEF Fields, Strings, Lists
<1>4. K.board = N.board /\ K.hash = N.hash /\ K.ko = N.ko /\ K.komaster = N.komaster /\ K.kom_pos = N.kom_pos
  BY <1>2, <1>3
<1> HIDE DEF F
<1>5. HashIs(K)
  BY <1>1, <1>4 DEF HashIs
<1>6. s \in Nat /\ s \in Slots /\ s + 1 \in 0 .. MaxStrings /\ K.next_string = s + 1
  <2>1. MaxStrings \in Nat
    BY StringAssumption
  <2>2. N.next_string \in 0 .. MaxStrings
    BY <1>1 DEF Strung
  <2>3. K.next_string = s + 1
    BY <1>2 DEF SingletonAs
  <2> QED BY <2>1, <2>2, <2>3 DEF Slots
<1>7. /\ \A q \in Points : K.number[q] = IF q = p THEN s ELSE N.number[q]
      /\ \A q \in Points : K.next[q] = IF q = p THEN p ELSE N.next[q]
      /\ \A z \in Slots : K.origin[z] = IF z = s THEN p ELSE N.origin[z]
  BY <1>1, <1>2, ShapePoints DEF SingletonAs
<1>8. K.liberties[s] = 0
  <2>1. "liberties" \in DOMAIN Over /\ Over["liberties"] = Slots
    BY DEF Over
  <2>2. N["liberties"] = [z \in Slots |-> N["liberties"][z]]
    BY <1>1, <2>1, ShapeOver
  <2>3. K.liberties = [N.liberties EXCEPT ![s] = 0]
    BY <1>2 DEF SingletonAs
  <2> QED BY <1>6, <2>2, <2>3
<1>9. ASSUME NEW q \in Points, q # p, N.board[q] # "empty"
      PROVE  InRing(K, q)
  <2>1. InRing(N, q)
    BY <1>1, <1>9 DEF Strung
  <2> DEFINE n == N.number[q]
             S == Members(N, n)
  <2>2. n \in 0 .. s - 1 /\ n # s /\ n \in Slots /\ n \in 0 .. K.next_string - 1
    <3>1. n \in 0 .. N.next_string - 1
      BY <2>1 DEF InRing
    <3>2. s = N.next_string /\ s \in Nat /\ s < MaxStrings /\ K.next_string = s + 1 /\ MaxStrings \in Nat
      BY <1>1, <1>6, StringAssumption DEF Strung
    <3> HIDE DEF n, s
    <3> QED BY <3>1, <3>2 DEF Slots
  <2>3. N.number[p] = NoString
    BY <1>1 DEF Strung
  <2>4. p \notin S
    BY <2>2, <2>3 DEF Members, NoString
  <2>5. Members(K, n) = S
    BY <1>4, <1>7, <2>2, <2>4 DEF Members
  <2>6. \A r \in S : K.next[r] = N.next[r]
    BY <1>7, <2>4 DEF Members
  <2>7. Ring(N.next, N.origin[n], S) /\ K.origin[n] = N.origin[n] /\ K.number[q] = n
    BY <1>7, <1>9, <2>1, <2>2 DEF InRing
  <2> HIDE DEF n, S
  <2>8. N.origin[n] \in S
    BY <2>7 DEF Ring
  <2>9. Ring(K.next, N.origin[n], S)
    BY <2>6, <2>7, <2>8, RingSame
  <2> QED BY <2>2, <2>5, <2>7, <2>9 DEF InRing
<1>10. InRing(K, p)
  <2>1. Members(K, s) = {p}
    <3>1. ASSUME NEW q \in Members(K, s) PROVE q = p
      <4> SUFFICES ASSUME q # p PROVE FALSE
        OBVIOUS
      <4>1. q \in Points /\ N.board[q] # "empty" /\ N.number[q] = s
        BY <1>4, <1>7, <3>1 DEF Members
      <4>2. InRing(N, q)
        BY <1>1, <4>1 DEF Strung
      <4> QED BY <1>6, <4>1, <4>2 DEF InRing
    <3>2. p \in Members(K, s)
      BY <1>1, <1>4, <1>7 DEF Members, Strung
    <3> QED BY <3>1, <3>2
  <2>2. K.next[p] = p /\ K.number[p] = s /\ K.origin[s] = p
    BY <1>6, <1>7
  <2>3. Ring(K.next, p, {p})
    BY <2>2, RingOfOne
  <2>4. K.number[p] \in 0 .. K.next_string - 1
    BY <1>6, <2>2
  <2>5. Ring(K.next, K.origin[K.number[p]], Members(K, K.number[p]))
    BY <2>1, <2>2, <2>3
  <2> QED BY <2>4, <2>5 DEF InRing
<1>11. Strung(K, NoMove)
  <2>1. \A q \in Points : K.board[q] # "empty" /\ q # NoMove => InRing(K, q)
    BY <1>4, <1>9, <1>10
  <2> QED BY <1>6, <2>1, PointsAssumption DEF Strung
<1> QED BY <1>1, <1>2, <1>4, <1>5, <1>6, <1>7, <1>8, <1>11 DEF Sound

LEMMA AddLibertyAs ==
  ASSUME NEW N, Shape(N), NEW s \in Slots, N.liberties[s] \in Nat, NEW q \in Points,
         N.liberties[s] # 0 => N.lib[s][1] \in Points, NEW K, K = AddLiberty(N, s, q)
  PROVE  K.liberties[s] \in Nat /\ (K.liberties[s] # 0 => K.lib[s][1] \in Points)
<1> DEFINE n == N.liberties[s]
           list == IF n < MaxLiberties THEN [N.lib[s] EXCEPT ![n + 1] = q] ELSE N.lib[s]
<1>1. N = [f \in Fields |-> N[f]]
  BY DEF Shape
<1>2. K.liberties = [N.liberties EXCEPT ![s] = n + 1] /\ K.lib = [N.lib EXCEPT ![s] = list]
  BY <1>1 DEF AddLiberty, Fields
<1>3. s \in DOMAIN N.liberties /\ s \in DOMAIN N.lib /\ DOMAIN N.lib[s] = 1 .. MaxLiberties
  <2>1. {"liberties", "lib"} \subseteq DOMAIN Over /\ Over["liberties"] = Slots /\ Over["lib"] = Slots
        /\ "lib" \in DOMAIN Within /\ Within["lib"] = 1 .. MaxLiberties
    BY DEF Over, Within
  <2>2. N["liberties"] = [z \in Slots |-> N["liberties"][z]]
    BY <2>1, ShapeOver
  <2>3. N["lib"] = [z \in Slots |-> N["lib"][z]]
    BY <2>1, ShapeOver
  <2>4. DOMAIN N["lib"][s] = 1 .. MaxLiberties
    BY <2>1, ListDomainIs
  <2> QED BY <2>2, <2>3, <2>4
<1>4. MaxLiberties \in Nat /\ MaxLiberties # 0
  BY StringAssumption
<1>5. K.liberties[s] = n + 1 /\ K.lib[s] = list
  BY <1>2, <1>3
<1>6. CASE n = 0
  <2>1. 1 \in 1 .. MaxLiberties /\ n < MaxLiberties /\ n + 1 = 1
    BY <1>4, <1>6
  <2>2. list[1] = q
    BY <1>3, <2>1
  <2> QED BY <1>5, <1>6, <2>2
<1>7. CASE n # 0
  <2>1. n + 1 # 1
    BY <1>7
  <2>2. list[1] = N.lib[s][1]
    BY <2>1
  <2> QED BY <1>5, <1>7, <2>2
<1> QED BY <1>6, <1>7

LEMMA MeetAs ==
  ASSUME NEW N, Shape(N), NEW s, NEW t
  PROVE  Meet(N, s, t).liberties = N.liberties /\ Meet(N, s, t).lib = N.lib
<1>1. N = [f \in Fields |-> N[f]] /\ {"liberties", "lib", "nb", "neighbors", "log"} \subseteq Fields
  BY DEF Shape, Fields
<1>2. ASSUME NEW P, P = [f \in Fields |-> P[f]], NEW a, NEW b
      PROVE  LET Q == AddNeighbor(P, a, b) IN Q = [f \in Fields |-> Q[f]] /\ Q.liberties = P.liberties /\ Q.lib = P.lib
  BY <1>1, <1>2 DEF AddNeighbor
<1>3. ASSUME NEW P, P = [f \in Fields |-> P[f]], NEW at
      PROVE  LET Q == Push(P, at) IN Q = [f \in Fields |-> Q[f]] /\ Q.liberties = P.liberties /\ Q.lib = P.lib
  BY <1>1, <1>3 DEF Push
<1> DEFINE A == AddNeighbor(N, s, t)
           B == Push(A, <<"neighbors", t>>)
<1>4. A = [f \in Fields |-> A[f]] /\ A.liberties = N.liberties /\ A.lib = N.lib
  BY <1>1, <1>2
<1>6. Meet(N, s, t) = AddNeighbor(B, t, s)
  BY DEF Meet
<1> HIDE DEF A
<1>5. B = [f \in Fields |-> B[f]] /\ B.liberties = A.liberties /\ B.lib = A.lib
  BY <1>3, <1>4
<1> HIDE DEF B
<1>7. AddNeighbor(B, t, s).liberties = B.liberties /\ AddNeighbor(B, t, s).lib = B.lib
  BY <1>2, <1>5
<1> QED BY <1>4, <1>5, <1>6, <1>7

(* The first of the liberties a new string gets is a point.                *)
FirstLiberty(N, s) == N.liberties[s] \in Nat /\ (N.liberties[s] # 0 => N.lib[s][1] \in Points)

FirstHolds(a, s, c, base, seq, k, v) == Only(Lists, base, v) /\ FirstLiberty(v, s)
CreatesFirst == INSTANCE Recursion WITH Turn <- CreateTurn, Holds <- FirstHolds

LEMMA CreateNewStringAs ==
  ASSUME NEW N, NEW p \in Points, Sound(N, p), N.next_string < MaxStrings, NEW K, K = CreateNewString(N, p)
  PROVE  /\ Sound(K, NoMove) /\ K.board = N.board /\ K.number[p] = N.next_string
         /\ FirstLiberty(K, N.next_string)
<1> DEFINE s == N.next_string
           J == Singleton(N, p)
           seq == Around[p]
           n == Len(seq)
           L == CreatesFirst!Loop(0, s, 0, J, seq)
<1>1. K = L
  BY DEF CreateNewString, CreateTurn, FoldLeft, MapThenFoldSet, Max,
         CreatesFirst!Greatest, CreatesFirst!Loop, CreatesFirst!Rest, CreatesFirst!RestOver
<1>2. Sound(J, NoMove) /\ J.board = N.board /\ J.number[p] = s /\ J.liberties[s] = 0 /\ s \in Slots
  BY SoundSingleton
<1>3. n \in Nat /\ DOMAIN seq = 1 .. n /\ \A k \in DOMAIN seq : seq[k] \in Points
  BY AroundIs
<1> HIDE DEF seq, n, J, s
<1>4. FirstHolds(0, s, 0, J, seq, 0, J)
  BY <1>2, OnlySelf DEF FirstHolds, FirstLiberty, Sound
<1>5. ASSUME NEW k \in 1 .. n, NEW v, FirstHolds(0, s, 0, J, seq, k - 1, v)
      PROVE  /\ k \in DOMAIN seq => FirstHolds(0, s, 0, J, seq, k, CreateTurn(0, s, 0, v, seq[k]))
             /\ k \notin DOMAIN seq => FirstHolds(0, s, 0, J, seq, k, v)
  <2> DEFINE q == seq[k]
             A == AddLiberty(v, s, q)
             B == Meet(v, s, v.number[q])
  <2>1. Only(Lists, J, v) /\ Shape(v) /\ FirstLiberty(v, s) /\ q \in Points
    BY <1>3, <1>5, OnlyShape DEF FirstHolds
  <2>2. CreateTurn(0, s, 0, v, q) \in {A, B, v}
    BY DEF CreateTurn
  <2> HIDE DEF q
  <2>3. Only(Lists, J, A)
    BY <2>1, AddLibertyIs, ListsOn
  <2>4. A.liberties[s] \in Nat /\ (A.liberties[s] # 0 => A.lib[s][1] \in Points)
    <3>1. v.liberties[s] \in Nat /\ (v.liberties[s] # 0 => v.lib[s][1] \in Points)
      BY <2>1 DEF FirstLiberty
    <3> QED BY <1>2, <2>1, <3>1, AddLibertyAs
  <2>5. Only(Lists, J, B)
    BY <2>1, MeetIs, ListsOn
  <2>6. B.liberties = v.liberties /\ B.lib = v.lib
    BY <2>1, MeetAs
  <2> HIDE DEF A, B
  <2>7. FirstLiberty(A, s) /\ FirstLiberty(B, s)
    BY <2>1, <2>4, <2>6 DEF FirstLiberty
  <2>8. FirstHolds(0, s, 0, J, seq, k, CreateTurn(0, s, 0, v, q)) /\ FirstHolds(0, s, 0, J, seq, k, v)
    BY <2>1, <2>2, <2>3, <2>5, <2>7 DEF FirstHolds
  <2> QED BY <2>8 DEF q
<1>6. FirstHolds(0, s, 0, J, seq, n, L)
  <2>1. DOMAIN seq \subseteq 1 .. n
    BY <1>3
  <2> QED BY <1>3, <1>4, <1>5, <2>1, CreatesFirst!LoopKeeps
<1> HIDE DEF L
<1>7. Only(Lists, J, K) /\ FirstLiberty(K, s)
  BY <1>1, <1>6 DEF FirstHolds
<1>8. Sound(K, NoMove) /\ K.board = J.board /\ K.number = J.number
  BY <1>2, <1>7, SoundLists DEF RingFields
<1> QED BY <1>2, <1>7, <1>8 DEF s

(* The ko that a capture makes, and the hash with it.                      *)
LEMMA NoteKoAs ==
  ASSUME NEW N, Sound(N, NoMove), NEW s, FirstLiberty(N, s), NEW taken, NEW K, K = NoteKo(N, s, taken)
  PROVE  Sound(K, NoMove)
<1> DEFINE ko == N.lib[s][1]
           h == SymDiff(SymDiff(N.hash, KoPart(N.ko)), {KoHash(ko)})
           J == [N EXCEPT !.ko = ko, !.hash = h]
<1>1. CASE K = N
  BY <1>1
<1>2. CASE K = J /\ N.liberties[s] = 1
  <2>1. Shape(N) /\ N.board \in BoardType /\ HashIs(N) /\ Strung(N, NoMove) /\ N = [f \in Fields |-> N[f]]
    BY DEF Sound, Shape
  <2>2. ko \in Points
    BY <1>2 DEF FirstLiberty
  <2>3. KoPart(ko) = {KoHash(ko)}
    BY <2>2, PointsAssumption DEF KoPart
  <2>4. K.ko = ko /\ K.hash = SymDiff(SymDiff(N.hash, KoPart(N.ko)), KoPart(ko))
        /\ \A f \in Fields \ {"ko", "hash"} : K[f] = N[f]
    BY <1>2, <2>1, <2>3 DEF Fields
  <2>5. Shape(K)
    <3> HIDE DEF ko, h
    <3>1. Logged(Places \ {<<"ko">>}, N, J)
      BY <2>1, KoWritten
    <3>2. Shape(J)
      BY <3>1 DEF Logged
    <3> QED BY <1>2, <3>2
  <2> HIDE DEF ko, J
  <2>6. {"board", "komaster", "kom_pos"} \subseteq Fields \ {"ko", "hash"} /\ RingFields \subseteq Fields \ {"ko", "hash"}
    BY DEF Fields, RingFields
  <2>7. K.hash = HashOf(K.board, K.ko, K.komaster, K.kom_pos)
    <3>1. N.hash = HashOf(N.board, N.ko, N.komaster, N.kom_pos)
      BY <2>1 DEF HashIs
    <3>2. SymDiff(SymDiff(N.hash, KoPart(N.ko)), KoPart(ko)) = HashOf(N.board, ko, N.komaster, N.kom_pos)
      BY <3>1, HashKo
    <3>3. K.board = N.board /\ K.komaster = N.komaster /\ K.kom_pos = N.kom_pos
      BY <2>4, <2>6
    <3> QED BY <2>4, <3>2, <3>3
  <2>8. Strung(K, NoMove)
    BY <2>1, <2>4, <2>6, StrungSame
  <2>9. K.board = N.board
    BY <2>4, <2>6
  <2> QED BY <2>1, <2>5, <2>7, <2>8, <2>9 DEF Sound, HashIs
<1>3. K = N \/ (K = J /\ N.liberties[s] = 1)
  BY DEF NoteKo
<1> QED BY <1>1, <1>2, <1>3

-----------------------------------------------------------------------------
(* Stones that had no string, or another one, join string s: all get its   *)
(* number, and a stone of each of the two changes successors.              *)
Merged(N, s, S2, nx, a, b, K) ==
    /\ Shape(K) /\ \A f \in HashFields \cup {"next_string"} : K[f] = N[f]
    /\ \A q \in Points : K.number[q] = IF q \in S2 THEN s ELSE N.number[q]
    /\ K.next[a] = nx[b] /\ K.next[b] = nx[a]
    /\ \A q \in Points : q \notin {a, b} => K.next[q] = N.next[q] /\ nx[q] = N.next[q]
    /\ \A z \in Slots : z # s => K.origin[z] = N.origin[z]
    /\ K.origin[s] \in Members(N, s) \cup S2

LEMMA MergedIs ==
  ASSUME NEW N, NEW x, Sound(N, x), NEW s \in 0 .. N.next_string - 1, NEW nx, NEW o, Ring(nx, o, Members(N, s)),
         NEW S2, NEW o2, Ring(nx, o2, S2), NEW a \in Members(N, s), NEW b \in S2,
         \/ x \in Points /\ S2 = {x}
         \/ x \notin Points /\ \E s2 : s2 # s /\ S2 = Members(N, s2),
         NEW K, Merged(N, s, S2, nx, a, b, K)
  PROVE  Sound(K, NoMove)
<1> DEFINE S == Members(N, s)
<1>1. Shape(N) /\ N.board \in BoardType /\ HashIs(N) /\ Strung(N, x) /\ N.next_string \in 0 .. MaxStrings
      /\ MaxStrings \in Nat /\ NoMove \notin Points
  BY PointsAssumption, StringAssumption DEF Sound, Strung
<1>2. /\ K.board = N.board /\ K.hash = N.hash /\ K.ko = N.ko /\ K.komaster = N.komaster
      /\ K.kom_pos = N.kom_pos /\ K.next_string = N.next_string
  BY DEF Merged, HashFields
<1>3. S \cap S2 = {} /\ S2 \subseteq Points /\ (\A r \in S2 : N.board[r] # "empty") /\ S \subseteq Points
      /\ \A r \in S : N.board[r] # "empty" /\ N.number[r] = s
  <2>1. s # NoString
    BY <1>1 DEF NoString
  <2>2. CASE x \in Points /\ S2 = {x}
    BY <1>1, <2>1, <2>2 DEF Members, Strung
  <2>3. CASE \E s2 : s2 # s /\ S2 = Members(N, s2)
    BY <2>3 DEF Members
  <2> QED BY <2>2, <2>3
<1>4. Members(K, s) = S \cup S2
  BY <1>2, <1>3 DEF Members, Merged
<1>5. Ring(K.next, K.origin[s], S \cup S2)
  <2>1. K.next[a] = nx[b] /\ K.next[b] = nx[a] /\ K.origin[s] \in S \cup S2
        /\ \A q \in S \cup S2 : q \notin {a, b} => K.next[q] = nx[q]
    BY <1>3 DEF Merged
  <2> HIDE DEF S
  <2>2. Ring(nx, o, S) /\ a \in S
    BY DEF S
  <2>3. S \cap S2 = {}
    BY <1>3
  <2> DEFINE next2 == K.next
             z == K.origin[s]
  <2>4. next2[a] = nx[b] /\ next2[b] = nx[a] /\ z \in S \cup S2
        /\ \A q \in S \cup S2 : q \notin {a, b} => next2[q] = nx[q]
    BY <2>1
  <2> HIDE DEF next2, z
  <2>5. Ring(next2, z, S \cup S2)
    BY <2>2, <2>3, <2>4, RingsLinked
  <2> QED BY <2>5 DEF next2, z
<1>6. ASSUME NEW q \in S \cup S2 PROVE InRing(K, q)
  <2>1. K.number[q] = s
    BY <1>3, <1>6 DEF Merged
  <2>2. K.number[q] \in 0 .. K.next_string - 1
    BY <1>2, <2>1
  <2>3. Ring(K.next, K.origin[K.number[q]], Members(K, K.number[q]))
    BY <1>4, <1>5, <2>1
  <2> QED BY <2>2, <2>3 DEF InRing
<1>7. ASSUME NEW q \in Points, q \notin S \cup S2, N.board[q] # "empty"
      PROVE  InRing(K, q)
  <2> DEFINE n == N.number[q]
             T == Members(N, n)
  <2>1. q # x
    BY <1>7
  <2>2. InRing(N, q)
    BY <1>1, <1>7, <2>1 DEF Strung
  <2>3. n # s /\ K.number[q] = n /\ n \in 0 .. N.next_string - 1
    BY <1>7, <2>2 DEF Members, InRing, Merged
  <2>4. S2 \cap T = {}
    <3>1. CASE x \in Points /\ S2 = {x}
      <4>1. N.number[x] = NoString
        BY <1>1, <3>1 DEF Strung
      <4>2. n # NoString
        BY <1>1, <2>3 DEF NoString
      <4> QED BY <3>1, <4>1, <4>2 DEF Members
    <3>2. CASE \E s2 : s2 # s /\ S2 = Members(N, s2)
      BY <1>7, <3>2 DEF Members
    <3> QED BY <3>1, <3>2
  <2>5. Members(K, n) = T
    <3>1. \A r \in Points : K.number[r] = IF r \in S2 THEN s ELSE N.number[r]
      BY DEF Merged
    <3> QED BY <1>2, <2>3, <2>4, <3>1 DEF Members
  <2>6. a \notin T /\ b \notin T /\ T \subseteq Points
    BY <1>3, <2>3, <2>4 DEF Members
  <2>7. \A r \in T : K.next[r] = N.next[r]
    BY <2>6 DEF Merged
  <2>8. n \in Slots
    BY <1>1, <2>3 DEF Slots
  <2>9. K.origin[n] = N.origin[n]
    BY <2>3, <2>8 DEF Merged
  <2>10. Ring(N.next, N.origin[n], T)
    BY <2>2 DEF InRing
  <2> HIDE DEF T, n
  <2>11. N.origin[n] \in T
    BY <2>10 DEF Ring
  <2>12. Ring(K.next, N.origin[n], T)
    BY <2>7, <2>10, <2>11, RingSame
  <2>13. K.number[q] \in 0 .. K.next_string - 1
    BY <1>2, <2>3
  <2>14. Ring(K.next, K.origin[K.number[q]], Members(K, K.number[q]))
    BY <2>3, <2>5, <2>9, <2>12
  <2> QED BY <2>13, <2>14 DEF InRing
<1>8. Strung(K, NoMove)
  <2>1. \A q \in Points : K.board[q] # "empty" => InRing(K, q)
    <3> HIDE DEF S
    <3> QED BY <1>2, <1>6, <1>7
  <2> QED BY <1>1, <1>2, <2>1 DEF Strung
<1>9. HashIs(K) /\ Shape(K)
  BY <1>1, <1>2 DEF HashIs, Merged
<1> QED BY <1>1, <1>2, <1>8, <1>9 DEF Sound

(* A string that has a stone besides x has a ring.                         *)
LEMMA StoneHasRing ==
  ASSUME NEW N, NEW x, Sound(N, x), NEW s, HasStone(N, x, s)
  PROVE  /\ s \in 0 .. N.next_string - 1 /\ s \in Slots /\ s # NoString
         /\ Ring(N.next, N.origin[s], Members(N, s)) /\ x \notin Members(N, s)
<1>1. PICK q \in Points : q # x /\ N.board[q] # "empty" /\ N.number[q] = s
  BY DEF HasStone
<1>2. InRing(N, q) /\ Strung(N, x) /\ N.next_string \in 0 .. MaxStrings /\ MaxStrings \in Nat
  BY <1>1, StringAssumption DEF Sound, Strung
<1>3. s \in 0 .. N.next_string - 1 /\ Ring(N.next, N.origin[s], Members(N, s))
  BY <1>1, <1>2 DEF InRing
<1>4. s \in Slots /\ s # NoString
  BY <1>2, <1>3 DEF Slots, NoString
<1>5. x \notin Members(N, s)
  BY <1>2, <1>4 DEF Strung, Members
<1> QED BY <1>3, <1>4, <1>5

LEMMA ExtendNeighborStringAs ==
  ASSUME NEW N, NEW p \in Points, Sound(N, p), NEW s, HasStone(N, p, s), NEW K, K = ExtendNeighborString(N, p, s)
  PROVE  Sound(K, NoMove)
<1> DEFINE J == Joined(N, p, s)
           S == Members(N, s)
           first == N.origin[s]
           nx == [q \in Points |-> IF q = p THEN p ELSE N.next[q]]
           F == Fields \ {"number", "next", "origin", "size", "log"}
<1>1. Shape(N) /\ s \in 0 .. N.next_string - 1 /\ s \in Slots /\ Ring(N.next, first, S) /\ p \notin S /\ S \subseteq Points
  <2>1. s \in 0 .. N.next_string - 1 /\ s \in Slots /\ Ring(N.next, N.origin[s], Members(N, s)) /\ p \notin Members(N, s)
    BY StoneHasRing
  <2>2. Shape(N) /\ Members(N, s) \subseteq Points
    BY DEF Sound, Members
  <2> QED BY <2>1, <2>2
<1>2. Shape(J) /\ (\A f \in F : J[f] = N[f]) /\ JoinedAs(N, p, s, J)
  BY <1>1, JoinedIs DEF Logged
<1>3. HashFields \cup {"next_string"} \subseteq F
  BY DEF HashFields, Fields
<1>4. Only(Lists, J, K)
  BY <1>1, ExtendNeighborStringIs
<1>5. first \in S /\ first # p /\ first \in Points
  BY <1>1 DEF Ring
<1>6. /\ nx[p] = p /\ nx[first] = N.next[first] /\ (\A q \in Points : q # p => nx[q] = N.next[q])
      /\ \A q \in S : nx[q] = N.next[q]
  BY <1>1, <1>5
<1> HIDE DEF J, S, F, nx
<1>7. \A q \in Points : /\ J.number[q] = IF q = p THEN s ELSE N.number[q]
                        /\ J.next[q] = IF q = first THEN p ELSE IF q = p THEN N.next[first] ELSE N.next[q]
  <2> SUFFICES ASSUME NEW q \in Points
               PROVE  /\ J.number[q] = IF q = p THEN s ELSE N.number[q]
                      /\ J.next[q] = IF q = first THEN p ELSE IF q = p THEN N.next[first] ELSE N.next[q]
    OBVIOUS
  <2> DEFINE l == <<"next", q>>
             n == <<"number", q>>
  <2>1. /\ {l, n} \subseteq Places /\ Peek(J, l) = J.next[q] /\ Peek(N, l) = N.next[q]
        /\ Peek(J, n) = J.number[q] /\ Peek(N, n) = N.number[q]
    BY PointPlaces
  <2>2. /\ (n = <<"number", p>> <=> q = p) /\ n # <<"next", first>> /\ n # <<"next", p>> /\ n # <<"origin", s>>
        /\ (l = <<"next", p>> <=> q = p) /\ (l = <<"next", first>> <=> q = first)
        /\ l # <<"number", p>> /\ l # <<"origin", s>>
    OBVIOUS
  <2> HIDE DEF l, n
  <2> QED BY <1>2, <2>1, <2>2 DEF JoinedAs
<1>8. \A z \in Slots : J.origin[z] = IF z = s /\ p < first THEN p ELSE N.origin[z]
  <2> SUFFICES ASSUME NEW z \in Slots PROVE J.origin[z] = IF z = s /\ p < first THEN p ELSE N.origin[z]
    OBVIOUS
  <2> DEFINE o == <<"origin", z>>
  <2>1. o \in Places /\ Peek(J, o) = J.origin[z] /\ Peek(N, o) = N.origin[z]
    BY PeekIs DEF Places
  <2>2. (o = <<"origin", s>> <=> z = s) /\ o # <<"next", first>> /\ o # <<"next", p>> /\ o # <<"number", p>>
    OBVIOUS
  <2> HIDE DEF o
  <2> QED BY <1>2, <2>1, <2>2 DEF JoinedAs
<1>9. Merged(N, s, {p}, nx, first, p, J)
  <2>1. J.next[first] = nx[p] /\ J.next[p] = nx[first]
    BY <1>5, <1>6, <1>7
  <2>2. J.origin[s] \in S \cup {p}
    BY <1>1, <1>5, <1>8
  <2>3. \A q \in Points : q \notin {first, p} => J.next[q] = N.next[q] /\ nx[q] = N.next[q]
    BY <1>6, <1>7
  <2>4. \A q \in Points : J.number[q] = IF q \in {p} THEN s ELSE N.number[q]
    BY <1>7
  <2>5. \A z \in Slots : z # s => J.origin[z] = N.origin[z]
    BY <1>8
  <2> QED BY <1>2, <1>3, <2>1, <2>2, <2>3, <2>4, <2>5 DEF Merged, S
<1>10. Ring(nx, first, S)
  BY <1>1, <1>5, <1>6, RingSame
<1>11. Ring(nx, p, {p})
  BY <1>6, RingOfOne
<1>12. Sound(J, NoMove)
  <2>1. first \in Members(N, s) /\ Ring(nx, first, Members(N, s)) /\ p \in {p}
    BY <1>5, <1>10 DEF S
  <2>2. p \in Points /\ {p} = {p}
    OBVIOUS
  <2> DEFINE S2 == {p}
  <2>3. Ring(nx, p, S2) /\ p \in S2 /\ (p \in Points /\ S2 = {p}) /\ Merged(N, s, S2, nx, first, p, J)
    BY <1>9, <1>11
  <2> HIDE DEF S2
  <2> QED BY <1>1, <2>1, <2>3, MergedIs
<1> QED BY <1>4, <1>12, SoundLists

-----------------------------------------------------------------------------
(* The stones of a list get a number.                                      *)
NumberHolds(a, s, c, base, seq, k, v) ==
    Only({"number"}, base, v) /\ \A q \in Points : v.number[q] = IF q \in Gone(seq, k) THEN s ELSE base.number[q]
Numbers == INSTANCE Recursion WITH Turn <- RenumberTurn, Holds <- NumberHolds

LEMMA RenumberedAs ==
  ASSUME NEW N, Shape(N), NEW s, NEW n \in Nat, NEW chain, DOMAIN chain = 1 .. n, \A i \in 1 .. n : chain[i] \in Points
  PROVE  \A q \in Points : Renumbered(N, s, chain).number[q] = IF q \in ToSet(chain) THEN s ELSE N.number[q]
<1>1. Renumbered(N, s, chain) = Numbers!Loop(0, s, 0, N, chain)
  BY DEF Renumbered, RenumberTurn, FoldLeft, MapThenFoldSet, Max,
         Numbers!Greatest, Numbers!Loop, Numbers!Rest, Numbers!RestOver
<1>2. NumberHolds(0, s, 0, N, chain, 0, N)
  <2>1. Gone(chain, 0) = {}
    BY DEF Gone
  <2> QED BY <2>1, OnlySelf DEF NumberHolds
<1>3. ASSUME NEW k \in 1 .. n, NEW v, NumberHolds(0, s, 0, N, chain, k - 1, v)
      PROVE  NumberHolds(0, s, 0, N, chain, k, RenumberTurn(0, s, 0, v, chain[k]))
  <2> DEFINE p == chain[k]
             at == <<"number", p>>
             w == Assign(v, at, s)
             G == Gone(chain, k - 1)
  <2>1. p \in Points
    OBVIOUS
  <2>2. Gone(chain, k) = G \cup {p}
    <3>1. DOMAIN chain \cap (1 .. k) = (DOMAIN chain \cap (1 .. k - 1)) \cup {k}
      OBVIOUS
    <3> QED BY <3>1 DEF Gone
  <2> HIDE DEF p, G
  <2>3. Only({"number"}, N, v) /\ Shape(v) /\ \A q \in Points : v.number[q] = IF q \in G THEN s ELSE N.number[q]
    BY <1>3, OnlyShape DEF NumberHolds, G
  <2>4. Address(at) /\ at[1] = "number"
    BY DEF Address, Over, Within
  <2>5. ASSUME NEW q \in Points PROVE w.number[q] = IF q = p THEN s ELSE v.number[q]
    <3> DEFINE m == <<"number", q>>
    <3>1. m \in Places /\ Peek(v, m) = v.number[q] /\ (m = at <=> q = p)
      BY PointPlaces
    <3> HIDE DEF at, m
    <3>2. Peek(w, m) = IF m = at THEN s ELSE Peek(v, m)
      BY <2>3, <2>4, <3>1, AssignLogged
    <3>3. Peek(w, m) = w.number[q]
      BY PointPlaces DEF m
    <3> QED BY <3>1, <3>2, <3>3
  <2> HIDE DEF at
  <2>6. Only({"number"}, v, w)
    BY <2>3, <2>4, AssignLogged DEF Only
  <2>7. Only({"number"} \cup {"number"}, N, w)
    BY <2>3, <2>6, OnlyOn
  <2> HIDE DEF w
  <2>8. \A q \in Points : w.number[q] = IF q \in G \cup {p} THEN s ELSE N.number[q]
    BY <2>3, <2>5
  <2>9. NumberHolds(0, s, 0, N, chain, k, w)
    BY <2>2, <2>7, <2>8 DEF NumberHolds
  <2> QED BY <2>9 DEF RenumberTurn, w, at, p
<1>4. NumberHolds(0, s, 0, N, chain, n, Numbers!Loop(0, s, 0, N, chain))
  BY <1>2, <1>3, Numbers!LoopKeeps
<1>5. Gone(chain, n) = ToSet(chain)
  BY DEF Gone, ToSet
<1> QED BY <1>1, <1>4, <1>5 DEF NumberHolds

(* A string becomes part of another.                                       *)
LEMMA LinkedMerges ==
  ASSUME NEW N, Sound(N, NoMove), NEW s, HasStone(N, NoMove, s),
         NEW p \in Points, N.board[p] # "empty", N.number[p] # s, NEW K, K = Linked(N, s, p)
  PROVE  /\ Sound(K, NoMove) /\ K.board = N.board
         /\ \A q \in Points : N.number[q] = s => K.number[q] = s
<1> DEFINE s2 == N.number[p]
           S == Members(N, s)
           S2 == Members(N, s2)
           first == N.origin[s]
           chain == Chain(N, s2)
           l == Last(chain)
           F == Fields \ {"number", "next", "origin", "size", "log"}
<1>1. Shape(N) /\ S \subseteq Points /\ S2 \subseteq Points /\ NoMove \notin Points
  BY PointsAssumption DEF Sound, Members
<1>2. s \in 0 .. N.next_string - 1 /\ s \in Slots /\ Ring(N.next, first, S)
  BY StoneHasRing
<1>3. Ring(N.next, N.origin[s2], S2)
  <2>1. HasStone(N, NoMove, s2)
    BY <1>1 DEF HasStone
  <2> QED BY <2>1, StoneHasRing
<1>4. S \cap S2 = {}
  BY DEF Members
<1>5. Shape(K) /\ (\A f \in F : K[f] = N[f]) /\ LinkedAs(N, s, p, K)
  BY <1>1, LinkedIs DEF Logged
<1>6. HashFields \cup {"next_string", "board"} \subseteq F
  BY DEF HashFields, Fields
<1>7. PICK m \in 1 .. Cardinality(Points) : Circled(N, s2, S2, m)
  <2> HIDE DEF s2, S2
  <2> QED BY <1>1, <1>3, ChainIs
<1>8. /\ DOMAIN chain = 1 .. m /\ ToSet(chain) = S2 /\ chain = [k \in 1 .. m |-> chain[k]]
      /\ N.next[chain[m]] = N.origin[s2] /\ m \in Nat /\ m \in 1 .. m
  <2>1. m \in 1 .. m /\ m \in Nat
    BY ChainEntries
  <2> QED BY <1>7, <2>1 DEF Round, Circled
<1>9. \A i \in 1 .. m : chain[i] \in S2 /\ chain[i] \in Points
  BY <1>1, <1>8 DEF ToSet
<1> HIDE DEF chain, S, S2, F, l
<1>10. l = chain[m] /\ l \in S2
  <2>1. chain \in [1 .. m -> S2]
    BY <1>8, <1>9
  <2>2. Len(chain) = m
    BY <1>8, <2>1
  <2> QED BY <1>8, <1>9, <2>2 DEF l, Last
<1>11. \A q \in Points : K.number[q] = IF q \in S2 THEN s ELSE N.number[q]
  <2>1. \A q \in Points : Renumbered(N, s, chain).number[q] = IF q \in ToSet(chain) THEN s ELSE N.number[q]
    BY <1>1, <1>8, <1>9, RenumberedAs
  <2>2. K.number = Renumbered(N, s, chain).number
    BY <1>5 DEF LinkedAs, chain
  <2> QED BY <1>8, <2>1, <2>2
<1>12. first \in S /\ first \in Points /\ l \in Points /\ first # l
  BY <1>1, <1>2, <1>4, <1>10 DEF Ring
<1>13. /\ K.next[first] = N.origin[s2] /\ K.next[l] = N.next[first]
       /\ \A q \in Points : q \notin {first, l} => K.next[q] = N.next[q]
  <2>1. K.next = [[N.next EXCEPT ![l] = N.next[first]] EXCEPT ![first] = N.origin[s2]]
    BY <1>5 DEF LinkedAs, chain, l
  <2>2. N.next = [q \in Points |-> N.next[q]]
    BY <1>1, ShapePoints
  <2> HIDE DEF first, s2
  <2> QED BY <1>12, <2>1, <2>2
<1>14. /\ \A z \in Slots : z # s => K.origin[z] = N.origin[z]
       /\ K.origin[s] \in {N.origin[s2], first}
  <2>1. K.origin = [N.origin EXCEPT ![s] = IF N.origin[s2] < first THEN N.origin[s2] ELSE first]
    BY <1>5 DEF LinkedAs
  <2>2. N.origin = [z \in Slots |-> N.origin[z]]
    BY <1>1, ShapePoints
  <2> HIDE DEF first, s2
  <2> QED BY <1>2, <2>1, <2>2
<1>15. Merged(N, s, S2, N.next, first, l, K)
  <2>1. K.origin[s] \in S \cup S2
    BY <1>3, <1>12, <1>14 DEF Ring
  <2>2. K.next[first] = N.next[l] /\ K.next[l] = N.next[first]
    BY <1>8, <1>10, <1>13
  <2>3. \A f \in HashFields \cup {"next_string"} : K[f] = N[f]
    BY <1>5, <1>6
  <2>4. \A q \in Points : q \notin {first, l} => K.next[q] = N.next[q] /\ N.next[q] = N.next[q]
    BY <1>13
  <2> HIDE DEF first, s2
  <2> QED BY <1>5, <1>11, <1>14, <2>1, <2>2, <2>3, <2>4 DEF Merged, S
<1>16. Sound(K, NoMove)
  <2>1. first \in Members(N, s) /\ Ring(N.next, first, Members(N, s))
    BY <1>2, <1>12 DEF S
  <2>2. \E z : z # s /\ S2 = Members(N, z)
    BY DEF S2
  <2> DEFINE o2 == N.origin[s2]
             nx == N.next
             a == first
  <2>3. a \in Members(N, s) /\ Ring(nx, a, Members(N, s)) /\ Ring(nx, o2, S2) /\ Merged(N, s, S2, nx, a, l, K)
    BY <1>3, <1>15, <2>1
  <2> HIDE DEF o2, nx, a, first, s2
  <2> QED BY <1>1, <1>2, <1>10, <2>2, <2>3, MergedIs
<1>17. K.board = N.board
  BY <1>5, <1>6
<1> QED BY <1>11, <1>16, <1>17

-----------------------------------------------------------------------------
(* A stone joins several strings: each turn leaves s the number of a ring. *)
AbsorbingHolds(color, s, c, base, seq, k, v) ==
    /\ v = [m |-> v.m, ml |-> v.ml] /\ Sound(v.m, NoMove) /\ v.m.board = base.m.board
    /\ \A q \in Points : base.m.number[q] = s => v.m.number[q] = s
Absorbing == INSTANCE Recursion WITH Turn <- AbsorbTurn, Holds <- AbsorbingHolds

LEMMA AbsorbTurnAs ==
  ASSUME NEW color \in Colors, NEW s, NEW A, A = [m |-> A.m, ml |-> A.ml], Sound(A.m, NoMove),
         HasStone(A.m, NoMove, s), NEW q \in Points, NEW B, B = AbsorbTurn(color, s, 0, A, q)
  PROVE  /\ B = [m |-> B.m, ml |-> B.ml] /\ Sound(B.m, NoMove) /\ B.m.board = A.m.board
         /\ \A r \in Points : A.m.number[r] = s => B.m.number[r] = s
<1> DEFINE N == A.m
           B1 == [m |-> AddLiberty(N, s, q), ml |-> A.ml \cup {q}]
           B2 == [A EXCEPT !.m = Meet(N, s, N.number[q])]
           B3 == AssimilateString(A, s, q)
           Good(C) == /\ C = [m |-> C.m, ml |-> C.ml] /\ Sound(C.m, NoMove) /\ C.m.board = N.board
                      /\ \A r \in Points : N.number[r] = s => C.m.number[r] = s
<1>1. Shape(N) /\ Sound(N, NoMove)
  BY DEF Sound
<1>2. ASSUME NEW K, Only(Lists, N, K) PROVE Sound(K, NoMove) /\ K.board = N.board /\ K.number = N.number
  BY <1>1, <1>2, SoundLists DEF RingFields
<1>3. Good(A)
  BY <1>1
<1>4. Good(B1)
  <2>1. Only(Lists, N, AddLiberty(N, s, q))
    BY <1>1, AddLibertyIs
  <2> DEFINE K == AddLiberty(N, s, q)
  <2>2. Sound(K, NoMove) /\ K.board = N.board /\ K.number = N.number
    BY <1>2, <2>1
  <2> HIDE DEF K
  <2>3. B1 = [m |-> K, ml |-> A.ml \cup {q}]
    BY DEF K
  <2> HIDE DEF B1
  <2> QED BY <2>2, <2>3
<1>5. Good(B2)
  <2> DEFINE K == Meet(N, s, N.number[q])
  <2>1. Only(Lists, N, K)
    BY <1>1, MeetIs
  <2>2. Sound(K, NoMove) /\ K.board = N.board /\ K.number = N.number
    BY <1>2, <2>1
  <2> HIDE DEF K
  <2>3. B2 = [A EXCEPT !.m = K]
    BY DEF K
  <2> HIDE DEF B2
  <2> QED BY <2>2, <2>3
<1>6. CASE N.board[q] = color /\ N.number[q] # s
  <2> DEFINE K == Linked(N, s, q)
  <2>1. B3 = [m |-> B3.m, ml |-> B3.ml] /\ Only(Lists, K, B3.m)
    BY <1>1, AssimilateStringIs
  <2>2. N.board[q] # "empty"
    BY <1>6, OthersColor
  <2>3. /\ Sound(K, NoMove) /\ K.board = N.board
        /\ \A r \in Points : N.number[r] = s => K.number[r] = s
    <3>1. Sound(N, NoMove) /\ HasStone(N, NoMove, s)
      BY <1>1
    <3> HIDE DEF N
    <3> QED BY <1>6, <2>2, <3>1, LinkedMerges
  <2> HIDE DEF K, B3
  <2>4. Sound(B3.m, NoMove) /\ B3.m.board = K.board /\ B3.m.number = K.number
    BY <2>1, <2>3, SoundLists DEF RingFields
  <2>5. Good(B3)
    BY <2>1, <2>3, <2>4
  <2>6. B \in {A, B1, B2, B3}
    BY DEF AbsorbTurn, B3
  <2> HIDE DEF B1, B2, N
  <2> QED BY <1>3, <1>4, <1>5, <2>5, <2>6 DEF N
<1>7. CASE ~(N.board[q] = color /\ N.number[q] # s)
  <2>1. B \in {A, B1, B2}
    BY <1>7 DEF AbsorbTurn
  <2> HIDE DEF B1, B2, N
  <2> QED BY <1>3, <1>4, <1>5, <2>1 DEF N
<1> QED BY <1>6, <1>7

LEMMA AssimilateNeighborStringsAs ==
  ASSUME NEW N, NEW p \in Points, Sound(N, p), N.next_string < MaxStrings, N.board[p] \in Colors,
         NEW K, K = AssimilateNeighborStrings(N, p)
  PROVE  Sound(K, NoMove)
<1> DEFINE s == N.next_string
           color == N.board[p]
           J == Singleton(N, p)
           base == [m |-> J, ml |-> {}]
           seq == Around[p]
           n == Len(seq)
           A == Absorbing!Loop(color, s, 0, base, seq)
<1>1. K = A.m
  BY DEF AssimilateNeighborStrings, AbsorbTurn, FoldLeft, MapThenFoldSet, Max,
         Absorbing!Greatest, Absorbing!Loop, Absorbing!Rest, Absorbing!RestOver
<1>2. Sound(J, NoMove) /\ J.board = N.board /\ J.number[p] = s
  BY SoundSingleton
<1>3. n \in Nat /\ DOMAIN seq \subseteq 1 .. n /\ \A k \in DOMAIN seq : seq[k] \in Points
  BY AroundIs
<1>4. base.m = J /\ base = [m |-> base.m, ml |-> base.ml]
  OBVIOUS
<1>5. color \in Colors /\ color # "empty" /\ p # NoMove /\ J.board[p] = color
  BY <1>2, OthersColor, PointsAssumption
<1> HIDE DEF seq, n, J, s, color, base
<1>6. AbsorbingHolds(color, s, 0, base, seq, 0, base)
  BY <1>2, <1>4 DEF AbsorbingHolds
<1>7. ASSUME NEW k \in 1 .. n, NEW v, AbsorbingHolds(color, s, 0, base, seq, k - 1, v)
      PROVE  /\ k \in DOMAIN seq => AbsorbingHolds(color, s, 0, base, seq, k, AbsorbTurn(color, s, 0, v, seq[k]))
             /\ k \notin DOMAIN seq => AbsorbingHolds(color, s, 0, base, seq, k, v)
  <2>1. AbsorbingHolds(color, s, 0, base, seq, k, v)
    BY <1>7 DEF AbsorbingHolds
  <2>2. ASSUME k \in DOMAIN seq
        PROVE  AbsorbingHolds(color, s, 0, base, seq, k, AbsorbTurn(color, s, 0, v, seq[k]))
    <3> DEFINE q == seq[k]
               w == AbsorbTurn(color, s, 0, v, q)
    <3>1. q \in Points
      BY <1>3, <2>2
    <3>2. /\ v = [m |-> v.m, ml |-> v.ml] /\ Sound(v.m, NoMove) /\ v.m.board = J.board
          /\ \A r \in Points : J.number[r] = s => v.m.number[r] = s
      BY <1>4, <2>1 DEF AbsorbingHolds
    <3>3. HasStone(v.m, NoMove, s)
      BY <1>2, <1>5, <3>2 DEF HasStone
    <3> HIDE DEF q
    <3>4. /\ w = [m |-> w.m, ml |-> w.ml] /\ Sound(w.m, NoMove) /\ w.m.board = v.m.board
          /\ \A r \in Points : v.m.number[r] = s => w.m.number[r] = s
      BY <1>5, <3>1, <3>2, <3>3, AbsorbTurnAs
    <3> HIDE DEF w
    <3>5. AbsorbingHolds(color, s, 0, base, seq, k, w)
      BY <1>4, <3>2, <3>4 DEF AbsorbingHolds
    <3> QED BY <3>5 DEF w, q
  <2> QED BY <2>1, <2>2
<1>8. AbsorbingHolds(color, s, 0, base, seq, n, A)
  BY <1>3, <1>6, <1>7, Absorbing!LoopKeeps
<1> HIDE DEF A
<1> QED BY <1>1, <1>8 DEF AbsorbingHolds

-----------------------------------------------------------------------------
(* A move keeps the rings and the hash.                                    *)
LEMMA PutStoneSlots ==
  ASSUME NEW N, Shape(N), NEW p \in Points, NEW color
  PROVE  PutStone(N, p, color).m.next_string = N.next_string
<1> DEFINE I == StonePutOn(N, p, color)
           J == PutStone(N, p, color).m
<1>1. StonesOnly(I, J)
  BY PutStoneIs
<1>2. "next_string" \in Fields \ {"board", "number", "hash", "log"}
      /\ "next_string" \in Fields \ (Lists \cup {"board", "hash", "captured", "log"})
  BY DEF Fields, Lists
<1>3. \A f \in Fields \ {"board", "number", "hash", "log"} : I[f] = N[f]
  BY PutIs
<1> HIDE DEF I, J
<1>4. J.next_string = N.next_string
  BY <1>1, <1>2, <1>3 DEF StonesOnly
<1> QED BY <1>4 DEF J

LEMMA NewSlot ==
  ASSUME NEW N, Shape(N), NEW p \in Points
  PROVE  /\ AssimilateNeighborStrings(N, p).next_string = N.next_string + 1
         /\ \A s, taken : NoteKo(CreateNewString(N, p), s, taken).next_string = N.next_string + 1
<1> DEFINE S == Singleton(N, p)
           C == CreateNewString(N, p)
           A == AssimilateNeighborStrings(N, p)
<1>1. /\ "next_string" \in Fields \ {"ko", "hash"} /\ "next_string" \in Fields \ (Lists \cup {"log"})
      /\ "next_string" \in Fields \ ((Strings \ {"next_string"}) \cup Lists \cup {"log"})
  BY DEF Fields, Lists
<1>2. S.next_string = N.next_string + 1
  BY SingletonIs
<1>3. Only(Lists, S, C) /\ Shape(C) /\ StringsOnly(N.next_string, S, A)
  BY CreateNewStringIs, OnlyShape, AssimilateNeighborStringsIs
<1> HIDE DEF S, C, A
<1>4. C.next_string = N.next_string + 1 /\ A.next_string = N.next_string + 1
  BY <1>1, <1>2, <1>3 DEF Only, StringsOnly
<1>5. ASSUME NEW s, NEW taken PROVE NoteKo(C, s, taken).next_string = C.next_string
  <2>1. \A f \in Fields \ {"ko", "hash"} : NoteKo(C, s, taken)[f] = C[f]
    BY <1>3, NoteKoIs
  <2> QED BY <1>1, <2>1
<1> QED BY <1>4, <1>5 DEF C, A

LEMMA PlayStoneAs ==
  ASSUME NEW N, Sound(N, NoMove), NEW p \in Points, N.board[p] = "empty",
         NEW color \in Colors, NEW K, K = PlayStone(N, p, color), K.next_string <= MaxStrings
  PROVE  Sound(K, NoMove)
<1> DEFINE A == PutStone(N, p, color)
           J == A.m
<1>1. Found(p, color, A)
  BY PutStoneAs
<1>2. Shape(N)
  BY DEF Sound
<1>3. J.next_string = N.next_string
  BY <1>2, PutStoneSlots
<1>4. K = IF A.allies = <<>> THEN NoteKo(CreateNewString(J, p), CreateNewString(J, p).number[p], A.taken)
          ELSE IF Len(A.allies) = 1 THEN ExtendNeighborString(J, p, A.allies[1])
          ELSE AssimilateNeighborStrings(J, p)
  <2>1. Len(<<>>) # 1
    OBVIOUS
  <2> QED BY <2>1 DEF PlayStone
<1> HIDE DEF A
<1>5. /\ Sound(J, p) /\ J.board[p] = color /\ Shape(J) /\ J.next_string \in Nat
      /\ \A i \in 1 .. Len(A.allies) : HasStone(J, p, A.allies[i])
  BY <1>1 DEF Found, Sound, Strung
<1>9. MaxStrings \in Nat
  BY StringAssumption
<1> HIDE DEF J
<1>6. CASE A.allies = <<>>
  <2> DEFINE C == CreateNewString(J, p)
  <2>3. J.next_string < MaxStrings
    <3>1. K.next_string = J.next_string + 1
      BY <1>4, <1>5, <1>6, NewSlot
    <3> QED BY <1>5, <1>9, <3>1
  <2>1. Sound(C, NoMove) /\ C.number[p] = J.next_string /\ FirstLiberty(C, J.next_string)
    BY <1>5, <2>3, CreateNewStringAs
  <2> HIDE DEF C
  <2>2. Sound(NoteKo(C, C.number[p], A.taken), NoMove)
    BY <2>1, NoteKoAs
  <2> QED BY <1>4, <1>6, <2>2 DEF C
<1>7. CASE A.allies # <<>> /\ Len(A.allies) = 1
  <2> DEFINE t == A.allies[1]
  <2>1. HasStone(J, p, t) /\ K = ExtendNeighborString(J, p, t)
    BY <1>4, <1>5, <1>7
  <2> HIDE DEF t
  <2> QED BY <1>5, <2>1, ExtendNeighborStringAs
<1>8. CASE A.allies # <<>> /\ Len(A.allies) # 1
  <2>1. K = AssimilateNeighborStrings(J, p)
    BY <1>4, <1>8
  <2>2. K.next_string = J.next_string + 1
    BY <1>5, <2>1, NewSlot
  <2>3. J.next_string < MaxStrings
    BY <1>5, <1>9, <2>2
  <2> QED BY <1>5, <2>1, <2>3, AssimilateNeighborStringsAs
<1> QED BY <1>6, <1>7, <1>8

(* What only pushes, what changes the prisoners, and what changes the ko.  *)
LEMMA SoundPushed ==
  ASSUME NEW N, NEW x, Sound(N, x), NEW K, Only({}, N, K)
  PROVE  Sound(K, x) /\ \A f \in RingFields \cup HashFields : K[f] = N[f]
<1>1. Only(Lists, N, K)
  BY OnlyMore
<1> QED BY <1>1, SoundLists

LEMMA SoundRehashed ==
  ASSUME NEW N, Sound(N, NoMove), NEW K, Shape(K), \A f \in RingFields : K[f] = N[f], HashIs(K)
  PROVE  Sound(K, NoMove)
<1>1. K.board = N.board
  BY DEF RingFields
<1> QED BY <1>1, StrungSame DEF Sound

LEMMA KoClearedAs ==
  ASSUME NEW N, Sound(N, NoMove), NEW K, K = KoCleared(N)
  PROVE  Sound(K, NoMove) /\ \A f \in RingFields : K[f] = N[f]
<1>1. Shape(N) /\ HashIs(N) /\ N = [f \in Fields |-> N[f]]
  BY DEF Sound, Shape
<1>2. Shape(K) /\ \A f \in Fields \ {"ko", "hash"} : K[f] = N[f]
  BY <1>1, KoGivenUp DEF Logged
<1>3. RingFields \cup {"komaster", "kom_pos", "board"} \subseteq Fields \ {"ko", "hash"}
  BY DEF Fields, RingFields
<1>4. K.ko = NoMove /\ K.hash = SymDiff(N.hash, KoPart(N.ko))
  BY <1>1 DEF KoCleared, Fields
<1>5. K.board = N.board /\ K.komaster = N.komaster /\ K.kom_pos = N.kom_pos
  BY <1>2, <1>3
<1>6. HashIs(K)
  BY <1>1, <1>4, <1>5, HashKoOff DEF HashIs
<1>7. \A f \in RingFields : K[f] = N[f]
  BY <1>2, <1>3
<1> QED BY <1>2, <1>6, <1>7, SoundRehashed

(* A trial move, and a permanent one before its records are rebuilt.       *)
LEMMA ReallyDoTrymoveAs ==
  ASSUME Sound(M, NoMove), NEW p \in Points \cup {NoMove}, NEW color \in Colors,
         p # NoMove => M.board[p] = "empty", ReallyDoTrymove(p, color).next_string <= MaxStrings
  PROVE  Sound(ReallyDoTrymove(p, color), NoMove)
<1> DEFINE B == BeginChangeRecord(M)
           ko == <<"ko">>
           c1 == <<"captured", "black">>
           c2 == <<"captured", "white">>
           ats == <<c1, c2>>
           N1 == Push(B, ko)
           N2 == KoCleared(N1)
           N3 == PushAll(N2, ats)
           N4 == PlayStone(N3, p, color)
<1>1. /\ Address(ko) /\ Address(c1) /\ Address(c2)
      /\ DOMAIN ats = 1 .. 2 /\ ats[1] = c1 /\ ats[2] = c2
  BY DEF Address, Places, Over, Colors
<1>2. ReallyDoTrymove(p, color) = IF p = NoMove THEN N2 ELSE N4
  BY DEF ReallyDoTrymove
<1> HIDE DEF ko, c1, c2, ats
<1>3. Sound(B, NoMove) /\ \A f \in RingFields : B[f] = M[f]
  <2>1. Shape(M)
    BY DEF Sound
  <2>2. Shape(B) /\ \A f \in Fields \ {"log"} : B[f] = M[f]
    BY <2>1, BeginIs
  <2>3. RingFields \cup HashFields \subseteq Fields \ {"log"}
    BY DEF Fields, RingFields, HashFields
  <2> HIDE DEF B
  <2> QED BY <2>2, <2>3, SoundSame
<1> HIDE DEF B
<1>4. Sound(N1, NoMove) /\ \A f \in RingFields : N1[f] = B[f]
  <2>1. Only({}, B, N1)
    BY <1>1, <1>3, PushOnly DEF Sound
  <2> HIDE DEF N1
  <2> QED BY <1>3, <2>1, SoundPushed
<1> HIDE DEF N1
<1>5. Sound(N2, NoMove) /\ \A f \in RingFields : N2[f] = N1[f]
  BY <1>4, KoClearedAs
<1> HIDE DEF N2
<1>6. Sound(N3, NoMove) /\ \A f \in RingFields : N3[f] = N2[f]
  <2>1. DOMAIN ats \subseteq 1 .. 2 /\ \A x \in DOMAIN ats : Address(ats[x])
    BY <1>1
  <2>2. Only({}, N2, N3)
    BY <1>5, <2>1, PushAllIs DEF Sound
  <2> HIDE DEF N3
  <2> QED BY <1>5, <2>2, SoundPushed
<1> HIDE DEF N3
<1>7. N3.next_string = M.next_string /\ N3.board = M.board
  BY <1>3, <1>4, <1>5, <1>6 DEF RingFields
<1>8. p # NoMove => Sound(N4, NoMove)
  BY <1>2, <1>6, <1>7, PlayStoneAs
<1> QED BY <1>2, <1>5, <1>8

LEMMA SetNewKomasterAs ==
  ASSUME NEW N, Sound(N, NoMove), NEW komaster, NEW kom_pos, NEW K, K = SetNewKomaster(N, komaster, kom_pos)
  PROVE  Sound(K, NoMove)
<1> DEFINE c1 == <<"komaster">>
           c2 == <<"kom_pos">>
           J == Assign(N, c1, komaster)
           I == Assign(J, c2, kom_pos)
           hash == SymDiff(SymDiff(I.hash, Turned(KomasterHash(N.komaster), KomasterHash(komaster))),
                           Turned(KomPosHash(N.kom_pos), KomPosHash(kom_pos)))
<1>1. K = [I EXCEPT !.hash = hash]
  BY DEF SetNewKomaster, Turned
<1>2. Address(c1) /\ Address(c2) /\ c1[1] = "komaster" /\ c2[1] = "kom_pos" /\ {c1, c2} \subseteq Places /\ c1 # c2
      /\ \A P : Peek(P, c1) = P.komaster /\ Peek(P, c2) = P.kom_pos
  <2>1. c1 # c2 /\ {c1, c2} \subseteq Places /\ Address(c1) /\ Address(c2) /\ c1[1] = "komaster" /\ c2[1] = "kom_pos"
    BY DEF Address, Places
  <2> QED BY <2>1, PeekIs
<1> HIDE DEF c1, c2
<1>3. Shape(N) /\ HashIs(N)
  BY DEF Sound
<1>4. /\ Shape(J) /\ J.komaster = komaster /\ \A f \in Fields \ {"log", "komaster"} : J[f] = N[f]
  <2>1. Shape(J)
    BY <1>2, <1>3, AssignLogged DEF Logged
  <2>2. \A f \in Fields \ {"log", "komaster"} : J[f] = N[f]
    BY <1>2, <1>3, AssignLogged
  <2>3. \A c \in Places : Peek(J, c) = IF c = c1 THEN komaster ELSE Peek(N, c)
    BY <1>2, <1>3, AssignLogged
  <2> QED BY <1>2, <2>1, <2>2, <2>3
<1> HIDE DEF J
<1>5. /\ Shape(I) /\ I.kom_pos = kom_pos /\ \A f \in Fields \ {"log", "kom_pos"} : I[f] = J[f]
  <2>1. Shape(I)
    BY <1>2, <1>4, AssignLogged DEF Logged
  <2>2. \A f \in Fields \ {"log", "kom_pos"} : I[f] = J[f]
    BY <1>2, <1>4, AssignLogged
  <2>3. \A c \in Places : Peek(I, c) = IF c = c2 THEN kom_pos ELSE Peek(J, c)
    BY <1>2, <1>4, AssignLogged
  <2> QED BY <1>2, <2>1, <2>2, <2>3
<1> HIDE DEF I
<1>6. /\ I.komaster = komaster /\ I.hash = N.hash /\ I.ko = N.ko /\ I.board = N.board
      /\ \A f \in RingFields : I[f] = N[f]
  <2>1. {"komaster", "hash", "ko", "board"} \cup RingFields \subseteq Fields \ {"log", "kom_pos"}
        /\ {"hash", "ko", "board"} \cup RingFields \subseteq Fields \ {"log", "komaster"}
    BY DEF Fields, RingFields
  <2> QED BY <1>4, <1>5, <2>1
<1> HIDE DEF hash
<1>7. /\ Shape(K) /\ K.hash = hash /\ K.ko = I.ko /\ K.komaster = I.komaster /\ K.kom_pos = I.kom_pos
      /\ K.board = I.board /\ \A f \in RingFields : K[f] = I[f]
  <2>1. I = [f \in Fields |-> I[f]]
    BY <1>5 DEF Shape
  <2>2. Shape(K)
    BY <1>1, <1>5, HashWritten, OnlyShape
  <2>3. {"hash", "ko", "komaster", "kom_pos", "board"} \cup RingFields \subseteq Fields /\ "hash" \notin RingFields
    BY DEF Fields, RingFields
  <2> QED BY <1>1, <2>1, <2>2, <2>3
<1>8. hash = HashOf(N.board, N.ko, komaster, kom_pos)
  BY <1>3, <1>6, HashKomaster DEF HashIs, hash
<1>9. HashIs(K)
  BY <1>5, <1>6, <1>7, <1>8 DEF HashIs
<1>10. \A f \in RingFields : K[f] = N[f]
  BY <1>6, <1>7
<1> QED BY <1>7, <1>9, <1>10, SoundRehashed

LEMMA KomasterAfterAs ==
  ASSUME NEW N, Sound(N, NoMove), NEW color, NEW ko_move, NEW kpos
  PROVE  Sound(KomasterAfter(N, color, ko_move, kpos), NoMove)
<1>1. KomasterAfter(N, color, ko_move, kpos) \in
        {N, SetNewKomaster(N, "empty", NoMove), SetNewKomaster(N, Gray(Other(color)), N.kom_pos),
         SetNewKomaster(N, color, kpos), SetNewKomaster(N, "weak_ko", M.ko)}
  BY DEF KomasterAfter
<1> QED BY <1>1, SetNewKomasterAs

-----------------------------------------------------------------------------
(* Permanent moves.                                                        *)
LEMMA CountedAs ==
  ASSUME NEW L, Sound(L, NoMove), NEW c, NEW x, NEW K, K = [L EXCEPT !.captured[c] = x]
  PROVE  Sound(K, NoMove) /\ K.next_string = L.next_string
<1>1. Shape(L) /\ Logged(Places, L, L) /\ Places \in SUBSET Places
  BY LoggedSelf DEF Sound
<1>2. Shape(K)
  <2>1. Logged(Places \ Captured, L, [L EXCEPT !.captured[c] = x])
    BY <1>1, CapturedWritten
  <2> QED BY <2>1 DEF Logged
<1>3. \A f \in Fields \ {"captured"} : K[f] = L[f]
  <2>1. L = [f \in Fields |-> L[f]]
    BY <1>1 DEF Shape
  <2> QED BY <2>1
<1>4. RingFields \cup HashFields \cup {"next_string"} \subseteq Fields \ {"captured"}
  BY DEF Fields, RingFields, HashFields
<1>5. \A f \in RingFields \cup HashFields \cup {"next_string"} : K[f] = L[f]
  BY <1>3, <1>4
<1> QED BY <1>2, <1>5, SoundSame

KillingHolds(color, b, c, base, seq, k, v) ==
    Sound(v, NoMove) /\ v.next_string = base.next_string
Killing == INSTANCE Recursion WITH Turn <- KillTurn, Holds <- KillingHolds

LEMMA CommitSuicideAs ==
  ASSUME NEW N, Sound(N, NoMove), NEW p \in Points, NEW color \in Colors, NEW K, K = CommitSuicide(N, p, color)
  PROVE  Sound(K, NoMove) /\ K.next_string = N.next_string
<1> DEFINE seq == Around[p]
           n == Len(seq)
           L == Killing!Loop(color, 0, 0, N, seq)
<1>1. K = [L EXCEPT !.captured[color] = @ + 1]
  BY DEF CommitSuicide, KillTurn, FoldLeft, MapThenFoldSet, Max,
         Killing!Greatest, Killing!Loop, Killing!Rest, Killing!RestOver
<1>2. n \in Nat /\ DOMAIN seq \subseteq 1 .. n /\ \A k \in DOMAIN seq : seq[k] \in Points
  BY AroundIs
<1>3. NoMove \notin Points /\ color # "empty"
  BY PointsAssumption, OthersColor
<1> HIDE DEF seq, n
<1>4. KillingHolds(color, 0, 0, N, seq, 0, N)
  BY DEF KillingHolds
<1>5. ASSUME NEW k \in 1 .. n, NEW v, KillingHolds(color, 0, 0, N, seq, k - 1, v)
      PROVE  /\ k \in DOMAIN seq => KillingHolds(color, 0, 0, N, seq, k, KillTurn(color, 0, 0, v, seq[k]))
             /\ k \notin DOMAIN seq => KillingHolds(color, 0, 0, N, seq, k, v)
  <2>1. Sound(v, NoMove) /\ v.next_string = N.next_string
    BY <1>5 DEF KillingHolds
  <2>2. ASSUME NEW q \in Points, v.board[q] = color
        PROVE  LET w == DoRemoveString(v, v.number[q]) IN Sound(w, NoMove) /\ w.next_string = N.next_string
    <3> DEFINE t == v.number[q]
               w == DoRemoveString(v, t)
    <3>1. v.board[q] # "empty" /\ q # NoMove /\ t = v.number[q]
      BY <1>3, <2>2
    <3> HIDE DEF t
    <3>2. Sound(w, NoMove) /\ w.next_string = v.next_string
      <4>1. w = DoRemoveString(v, t)
        OBVIOUS
      <4> HIDE DEF w
      <4> QED BY <2>1, <3>1, <4>1, RemoveStringAs
    <3> QED BY <2>1, <3>2 DEF t
  <2>3. KillingHolds(color, 0, 0, N, seq, k, v)
    BY <2>1 DEF KillingHolds
  <2>4. ASSUME k \in DOMAIN seq
        PROVE  KillingHolds(color, 0, 0, N, seq, k, KillTurn(color, 0, 0, v, seq[k]))
    <3>1. seq[k] \in Points
      BY <1>2, <2>4
    <3> QED BY <2>1, <2>2, <3>1 DEF KillingHolds, KillTurn
  <2> QED BY <2>3, <2>4
<1>6. KillingHolds(color, 0, 0, N, seq, n, L)
  BY <1>2, <1>4, <1>5, Killing!LoopKeeps
<1> HIDE DEF L
<1>7. Sound(L, NoMove) /\ L.next_string = N.next_string /\ Shape(L)
  BY <1>6 DEF KillingHolds, Sound
<1> DEFINE x == L.captured[color] + 1
<1>8. K = [L EXCEPT !.captured[color] = x]
  BY <1>1
<1> HIDE DEF x
<1>9. Sound(K, NoMove) /\ K.next_string = L.next_string
  BY <1>7, <1>8, CountedAs
<1> QED BY <1>7, <1>9

LEMMA PlayedAs ==
  ASSUME Sound(M, NoMove), M.next_string < MaxStrings, NEW p \in Points \cup {NoMove}, NEW color \in Colors,
         p # NoMove => M.board[p] = "empty"
  PROVE  Sound(Played(p, color), NoMove)
<1> DEFINE N == KoCleared(M)
<1>1. Played(p, color) = IF p = NoMove THEN N
                         ELSE IF Suicide(M, p, color) THEN CommitSuicide(N, p, color) ELSE PlayStone(N, p, color)
  BY DEF Played
<1>2. Sound(N, NoMove) /\ N.next_string = M.next_string /\ N.board = M.board
  BY KoClearedAs DEF RingFields
<1> HIDE DEF N
<1>3. CASE p = NoMove
  BY <1>1, <1>2, <1>3
<1>4. CASE p \in Points /\ p # NoMove
  <2>1. Sound(CommitSuicide(N, p, color), NoMove)
    BY <1>2, <1>4, CommitSuicideAs
  <2>3. PlayStone(N, p, color).next_string <= MaxStrings
    <3>1. N.next_string \in Nat /\ N.next_string < MaxStrings /\ MaxStrings \in Nat /\ Shape(N)
      BY <1>2, StringAssumption DEF Sound, Strung
    <3>2. PlayStone(N, p, color).next_string \in {N.next_string, N.next_string + 1}
      BY <1>4, <3>1, PlayStoneIs
    <3> QED BY <3>1, <3>2
  <2>2. Sound(PlayStone(N, p, color), NoMove)
    BY <1>2, <1>4, <2>3, PlayStoneAs
  <2> QED BY <1>1, <1>4, <2>1, <2>2
<1> QED BY <1>3, <1>4

-----------------------------------------------------------------------------
(* The records from scratch.                                               *)
Listing(seq, n, S) ==
    /\ n \in Nat /\ seq = [i \in 1 .. n |-> seq[i]] /\ (\A i \in 1 .. n : seq[i] \in S)
    /\ \A x \in S : \E i \in 1 .. n : seq[i] = x
    /\ \A i, j \in 1 .. n : seq[i] = seq[j] => i = j

LEMMA AscendingIs ==
  ASSUME NEW S \in SUBSET Nat, IsFiniteSet(S)
  PROVE  Listing(Ascending(S), Cardinality(S), S)
<1> DEFINE n == Cardinality(S)
           Below(x) == {y \in S : y < x}
           r == [x \in S |-> Cardinality(Below(x)) + 1]
           seq == Ascending(S)
<1>1. n \in Nat
  BY FS_CardinalityType
<1>2. ASSUME NEW x \in S
      PROVE  IsFiniteSet(Below(x)) /\ Cardinality(Below(x)) \in Nat /\ Cardinality(Below(x)) < n
  <2>1. Below(x) \in SUBSET S /\ x \notin Below(x)
    OBVIOUS
  <2> HIDE DEF Below
  <2>2. IsFiniteSet(Below(x)) /\ Cardinality(Below(x)) <= n /\ Cardinality(Below(x)) # n
    BY <2>1, FS_Subset
  <2>3. Cardinality(Below(x)) \in Nat
    BY <2>2, FS_CardinalityType
  <2> QED BY <1>1, <2>2, <2>3
<1>3. ASSUME NEW x \in S, NEW y \in S, x < y
      PROVE  Cardinality(Below(x)) < Cardinality(Below(y))
  <2>1. Below(x) \in SUBSET Below(y) /\ x \in Below(y) /\ x \notin Below(x)
    <3>1. ASSUME NEW z \in S, z < x PROVE z < y
      <4>1. z \in Nat /\ x \in Nat /\ y \in Nat
        OBVIOUS
      <4> QED BY <1>3, <3>1, <4>1
    <3>2. ~(x < x)
      OBVIOUS
    <3> QED BY <1>3, <3>1, <3>2
  <2>2. IsFiniteSet(Below(y)) /\ Cardinality(Below(x)) \in Nat /\ Cardinality(Below(y)) \in Nat
    BY <1>2
  <2> HIDE DEF Below
  <2> QED BY <2>1, <2>2, FS_Subset
<1>4. r \in [S -> 1 .. n] /\ \A x \in S : r[x] = Cardinality(Below(x)) + 1
  <2> HIDE DEF Below
  <2> QED BY <1>1, <1>2
<1>5. \A x, y \in S : Cardinality(Below(x)) = Cardinality(Below(y)) => x = y
  <2> SUFFICES ASSUME NEW x \in S, NEW y \in S, x # y PROVE Cardinality(Below(x)) # Cardinality(Below(y))
    OBVIOUS
  <2>1. x < y \/ y < x
    OBVIOUS
  <2>2. Cardinality(Below(x)) \in Nat /\ Cardinality(Below(y)) \in Nat
    BY <1>2
  <2> HIDE DEF Below
  <2> QED BY <1>3, <2>1, <2>2
<1> HIDE DEF r, n, seq
<1>6. \A i \in 1 .. n : \E x \in S : r[x] = i
  <2>1. \A x, y \in S : r[x] = r[y] => x = y
    <3> SUFFICES ASSUME NEW x \in S, NEW y \in S, r[x] = r[y] PROVE x = y
      OBVIOUS
    <3>1. Cardinality(Below(x)) \in Nat /\ Cardinality(Below(y)) \in Nat
      BY <1>2
    <3> HIDE DEF Below
    <3> QED BY <1>4, <1>5, <3>1
  <2>2. r \in Injection(S, 1 .. n)
    BY <1>4, <2>1 DEF Injection, IsInjective
  <2>3. IsFiniteSet(1 .. n) /\ Cardinality(1 .. n) = n
    BY <1>1, FS_Interval
  <2>4. r \in Surjection(S, 1 .. n)
    BY <2>2, <2>3, FS_Injection DEF n
  <2> QED BY <2>4 DEF Surjection
<1>7. seq = [i \in 1 .. n |-> seq[i]] /\ \A i \in 1 .. n : seq[i] = CHOOSE x \in S : Cardinality(Below(x)) = i - 1
  <2>1. seq = [i \in 1 .. n |-> CHOOSE x \in S : Cardinality(Below(x)) = i - 1]
    BY DEF seq, Ascending, n
  <2> HIDE DEF Below
  <2> QED BY <2>1
<1>8. ASSUME NEW i \in 1 .. n PROVE seq[i] \in S /\ Cardinality(Below(seq[i])) = i - 1
  <2>1. PICK x \in S : r[x] = i
    BY <1>6
  <2>2. Cardinality(Below(x)) \in Nat
    BY <1>2
  <2>3. Cardinality(Below(x)) = i - 1
    <3> HIDE DEF Below
    <3> QED BY <1>4, <2>1, <2>2
  <2> HIDE DEF Below
  <2> QED BY <1>7, <2>3
<1>9. \A i, j \in 1 .. n : seq[i] = seq[j] => i = j
  <2> SUFFICES ASSUME NEW i \in 1 .. n, NEW j \in 1 .. n, seq[i] = seq[j] PROVE i = j
    OBVIOUS
  <2>1. i - 1 = j - 1
    BY <1>8
  <2> QED BY <1>1, <2>1
<1>10. ASSUME NEW x \in S PROVE \E i \in 1 .. n : seq[i] = x
  <2>1. r[x] \in 1 .. n /\ Cardinality(Below(x)) \in Nat /\ Cardinality(Below(x)) = r[x] - 1
    <3>1. Cardinality(Below(x)) \in Nat
      BY <1>2
    <3> HIDE DEF Below
    <3> QED BY <1>4, <3>1
  <2>2. seq[r[x]] \in S /\ Cardinality(Below(seq[r[x]])) = r[x] - 1
    BY <1>8, <2>1
  <2> HIDE DEF Below
  <2>3. seq[r[x]] = x
    BY <1>5, <2>1, <2>2
  <2> QED BY <2>1, <2>3
<1> QED BY <1>1, <1>7, <1>8, <1>9, <1>10 DEF Listing, n, seq

(* Linked in the order of a list, and the last to the first.               *)
LEMMA LoneLap ==
  ASSUME NEW n \in Nat, NEW a \in Nat, a < n
  PROVE  a % n = a
  BY SMTT(30)

LEMMA FullLap ==
  ASSUME NEW n \in Nat, n # 0
  PROVE  n % n = 0
  BY SMTT(30)

LEMMA ListIsRing ==
  ASSUME NEW S, NEW n, NEW seq, Listing(seq, n, S), NEW next,
         \A k \in 1 .. n : next[seq[k]] = seq[(k % n) + 1], NEW o \in S
  PROVE  Ring(next, o, S)
<1>1. n \in Nat /\ n # 0 /\ (\A i \in 1 .. n : seq[i] \in S) /\ (\A x \in S : \E i \in 1 .. n : seq[i] = x)
  BY DEF Listing
<1>2. ASSUME NEW k \in 1 .. n PROVE next[seq[k]] = seq[IF k = n THEN 1 ELSE k + 1]
  <2>1. k < n => k % n = k
    <3>1. k \in Nat
      BY <1>1
    <3> QED BY <1>1, <3>1, LoneLap
  <2>2. n % n = 0
    BY <1>1, FullLap
  <2>3. (k % n) + 1 = IF k = n THEN 1 ELSE k + 1
    <3>1. CASE k = n
      BY <2>2, <3>1
    <3>2. CASE k # n
      <4>1. k < n
        BY <1>1, <3>2
      <4> QED BY <2>1, <3>2, <4>1
    <3> QED BY <3>1, <3>2
  <2> QED BY <2>3
<1>3. Onward(next, S)
  <2> SUFFICES ASSUME NEW p \in S PROVE next[p] \in S
    BY DEF Onward
  <2>1. PICK k \in 1 .. n : seq[k] = p
    BY <1>1
  <2>2. (IF k = n THEN 1 ELSE k + 1) \in 1 .. n
    BY <1>1
  <2> QED BY <1>1, <1>2, <2>1, <2>2
<1>4. ASSUME NEW Y \in SUBSET S, Y # {}, Onward(next, Y) PROVE Y = S
  <2>1. ASSUME NEW j \in 1 .. n, seq[j] \in Y PROVE \A k \in j .. n : seq[k] \in Y
    <3> SUFFICES ASSUME NEW l \in j .. n, seq[l] \notin Y PROVE FALSE
      OBVIOUS
    <3> DEFINE D == {k \in j .. n : seq[k] \notin Y}
    <3>1. D \in SUBSET Nat /\ D # {}
      BY <1>1
    <3>2. PICK m \in D : \A k \in D : m <= k
      <4> HIDE DEF D
      <4> QED BY <3>1, Steps!Least
    <3>3. m # j /\ m - 1 \in j .. n /\ m - 1 \notin D /\ m - 1 \in 1 .. n /\ m - 1 # n /\ (m - 1) + 1 = m
      BY <1>1, <2>1, <3>2
    <3>4. seq[m - 1] \in Y
      BY <3>3
    <3>5. next[seq[m - 1]] = seq[m]
      <4> DEFINE i == m - 1
      <4>1. i \in 1 .. n /\ i # n /\ i + 1 = m
        BY <3>3
      <4> HIDE DEF i
      <4>2. next[seq[i]] = seq[m]
        BY <1>2, <4>1
      <4> QED BY <4>2 DEF i
    <3>6. seq[m] \in Y
      BY <1>4, <3>4, <3>5 DEF Onward
    <3> QED BY <3>2, <3>6
  <2>2. PICK j \in 1 .. n : seq[j] \in Y
    BY <1>1, <1>4
  <2>3. seq[n] \in Y
    BY <1>1, <2>1, <2>2
  <2>4. seq[1] \in Y
    BY <1>1, <1>2, <1>4, <2>3 DEF Onward
  <2>5. 1 \in 1 .. n
    BY <1>1
  <2>6. \A k \in 1 .. n : seq[k] \in Y
    BY <2>1, <2>4, <2>5
  <2> QED BY <1>1, <2>6
<1> QED BY <1>3, <1>4 DEF Ring

(* new_position gives every string a ring.                                 *)
LEMMA NewPositionAs ==
  ASSUME NEW N, Bared(N), N.board \in BoardType, HashIs(N), NEW K, K = NewPosition(N), K.next_string <= MaxStrings
  PROVE  Sound(K, NoMove)
<1> DEFINE board == N.board
           O == {p \in Points : N.board[p] # "empty" /\ p = Min(StringAt(N.board, p))}
           origins == Ascending(O)
           strings == [i \in DOMAIN origins |-> StringAt(N.board, origins[i])]
           chain == [i \in DOMAIN strings |-> Ascending(strings[i])]
           Of(p) == CHOOSE i \in DOMAIN strings : p \in strings[i]
           Index(c, p) == CHOOSE k \in DOMAIN c : c[k] = p
           Successor(p) == LET c == chain[Of(p)]  k == CHOOSE k \in DOMAIN c : c[k] = p IN c[(k % Len(c)) + 1]
           m == Cardinality(O)
           number == [p \in Points |-> IF N.board[p] # "empty" THEN Of(p) - 1 ELSE NoString]
           next == [p \in Points |-> IF N.board[p] # "empty" THEN Successor(p) ELSE 0]
           origin == [s \in Slots |-> IF s < Len(strings) THEN chain[s + 1][1] ELSE 0]
<1>1. /\ Shape(K) /\ K.next_string \in Nat /\ \A f \in Fields \ Records : K[f] = N[f]
  BY NewPositionIs
<1>2. K.number = number /\ K.next = next /\ K.origin = origin /\ K.next_string = Len(strings)
  <2>1. N = [f \in Fields |-> N[f]]
    BY DEF Bared
  <2>2. {"number", "next", "origin", "next_string"} \subseteq Fields
    BY DEF Fields
  <2> QED BY <2>1, <2>2 DEF NewPosition
<1>3. /\ K.board = board /\ K.hash = N.hash /\ K.ko = N.ko /\ K.komaster = N.komaster /\ K.kom_pos = N.kom_pos
      /\ board \in BoardType /\ MaxStrings \in Nat /\ NoMove \notin Points /\ Points \subseteq Nat
      /\ IsFiniteSet(Points)
  <2>1. {"board", "hash", "ko", "komaster", "kom_pos"} \subseteq Fields \ Records
    BY DEF Fields, Records
  <2> QED BY <1>1, <2>1, PointsAssumption, StringAssumption
<1>4. \A q \in Points : K.number[q] = IF board[q] # "empty" THEN Of(q) - 1 ELSE NoString
  <2> HIDE DEF Of
  <2> QED BY <1>2
<1>5. \A q \in Points : board[q] # "empty" =>
         K.next[q] = chain[Of(q)][(Index(chain[Of(q)], q) % Len(chain[Of(q)])) + 1]
  <2>1. \A q \in Points : board[q] # "empty" => K.next[q] = Successor(q)
    <3> HIDE DEF Successor
    <3> QED BY <1>2
  <2>2. \A q : Successor(q) = chain[Of(q)][(Index(chain[Of(q)], q) % Len(chain[Of(q)])) + 1]
    OBVIOUS
  <2> HIDE DEF Successor
  <2> QED BY <2>1, <2>2
<1>6. O \in SUBSET Points /\ O \in SUBSET Nat /\ IsFiniteSet(O)
  BY <1>3, FS_Subset
<1>7. /\ m \in Nat /\ DOMAIN origins = 1 .. m /\ (\A i \in 1 .. m : origins[i] \in O)
      /\ (\A x \in O : \E i \in 1 .. m : origins[i] = x)
      /\ \A i, j \in 1 .. m : origins[i] = origins[j] => i = j
  <2> HIDE DEF O
  <2>1. Listing(Ascending(O), Cardinality(O), O)
    BY <1>6, AscendingIs
  <2> HIDE DEF origins, m
  <2>2. Listing(origins, m, O)
    BY <2>1 DEF origins, m
  <2> QED BY <2>2 DEF Listing
<1>8. \A i \in 1 .. m : origins[i] \in Points /\ board[origins[i]] # "empty"
                        /\ origins[i] = Min(StringAt(board, origins[i]))
  BY <1>7
<1> HIDE DEF O, origins, m
<1>9. /\ DOMAIN strings = 1 .. m /\ Len(strings) = m
      /\ \A i \in 1 .. m : strings[i] = StringAt(board, origins[i])
  <2>1. strings = [i \in 1 .. m |-> strings[i]] /\ \A i \in 1 .. m : strings[i] = StringAt(board, origins[i])
    BY <1>7
  <2> HIDE DEF strings
  <2>2. strings \in [1 .. m -> {strings[i] : i \in 1 .. m}]
    BY <2>1
  <2> QED BY <1>7, <2>1, <2>2
<1> HIDE DEF strings
<1>10. \A i \in 1 .. m : chain[i] = Ascending(strings[i])
  BY <1>9
<1> HIDE DEF chain
<1>11. ASSUME NEW i \in 1 .. m
       PROVE  /\ strings[i] \in SUBSET Points /\ (\A q \in strings[i] : board[q] # "empty")
              /\ \A q \in strings[i] : StringAt(board, q) = strings[i]
  <2> DEFINE o == origins[i]
             T == strings[i]
  <2>1. o \in Points /\ board[o] # "empty" /\ T = StringAt(board, o)
    BY <1>8, <1>9
  <2> HIDE DEF o, T
  <2>2. \A q \in T : q \in Points /\ board[q] = board[o] /\ StringAt(board, q) = StringAt(board, o)
    BY <2>1, StringsPartition
  <2>3. T \in SUBSET Points /\ (\A q \in T : board[q] # "empty") /\ \A q \in T : StringAt(board, q) = T
    BY <2>1, <2>2
  <2> QED BY <2>3 DEF T
<1>12. \A i, j \in 1 .. m : strings[i] \cap strings[j] # {} => i = j
  <2> SUFFICES ASSUME NEW i \in 1 .. m, NEW j \in 1 .. m, NEW q \in strings[i], q \in strings[j] PROVE i = j
    OBVIOUS
  <2>1. strings[i] = strings[j]
    BY <1>11
  <2>2. origins[i] = origins[j]
    BY <1>8, <1>9, <2>1
  <2> QED BY <1>7, <2>2
<1>13. ASSUME NEW q \in Points, board[q] # "empty" PROVE \E i \in 1 .. m : q \in strings[i]
  <2> DEFINE T == StringAt(board, q)
             o == Min(T)
  <2>1. q \in T /\ T \subseteq Stones(board, board[q])
    BY StringFacts
  <2>2. T \in SUBSET Nat /\ T # {}
    BY <1>3, <2>1 DEF Stones
  <2> HIDE DEF T
  <2>3. o \in T
    <3>1. \E x \in T : \A y \in T : x <= y
      BY <2>2, Steps!Least
    <3> QED BY <3>1 DEF Min
  <2> HIDE DEF o
  <2>4. o \in Points /\ board[o] = board[q] /\ StringAt(board, o) = T
    BY <2>3, StringsPartition DEF T
  <2>5. o \in O
    BY <1>13, <2>4 DEF O, o
  <2>6. PICK i \in 1 .. m : origins[i] = o
    BY <1>7, <2>5
  <2> QED BY <1>9, <2>1, <2>4, <2>6
<1>14. \A i \in 1 .. m : \A q \in strings[i] : Of(q) = i
  <2> SUFFICES ASSUME NEW i \in 1 .. m, NEW q \in strings[i] PROVE Of(q) = i
    OBVIOUS
  <2>1. \A j \in 1 .. m : q \in strings[j] => j = i
    BY <1>12
  <2> QED BY <1>9, <2>1
<1> HIDE DEF Of
<1>15. ASSUME NEW i \in 1 .. m
       PROVE  Ring(K.next, chain[i][1], strings[i])
  <2> DEFINE T == strings[i]
             c == chain[i]
             n == Cardinality(T)
  <2>1. T \in SUBSET Nat /\ IsFiniteSet(T) /\ c = Ascending(T)
    BY <1>3, <1>10, <1>11, FS_Subset
  <2>2. \A q \in T : q \in Points /\ board[q] # "empty" /\ Of(q) = i
    BY <1>11, <1>14
  <2>3. origins[i] \in T
    BY <1>8, <1>9, StringFacts
  <2> HIDE DEF T, c
  <2>4. Listing(c, n, T)
    BY <2>1, AscendingIs
  <2> HIDE DEF n
  <2>5. /\ n \in Nat /\ DOMAIN c = 1 .. n /\ Len(c) = n /\ (\A k \in 1 .. n : c[k] \in T)
        /\ \A j, k \in 1 .. n : c[j] = c[k] => j = k
    <3>1. /\ n \in Nat /\ c = [k \in 1 .. n |-> c[k]] /\ (\A k \in 1 .. n : c[k] \in T)
          /\ \A j, k \in 1 .. n : c[j] = c[k] => j = k
      BY <2>4 DEF Listing
    <3>2. c \in [1 .. n -> T]
      BY <3>1
    <3> QED BY <3>1, <3>2
  <2>6. ASSUME NEW k \in 1 .. n PROVE K.next[c[k]] = c[(k % n) + 1]
    <3>1. Index(c, c[k]) = k
      BY <2>5
    <3>2. c[k] \in T
      BY <2>5
    <3> HIDE DEF Index
    <3>3. c = chain[Of(c[k])]
      BY <2>2, <3>2 DEF c
    <3>4. K.next[c[k]] = c[(Index(c, c[k]) % Len(c)) + 1]
      BY <1>5, <2>2, <3>2, <3>3
    <3> QED BY <2>5, <3>1, <3>4
  <2>7. 1 \in 1 .. n /\ c[1] \in T
    <3>1. \E k \in 1 .. n : c[k] = origins[i]
      BY <2>3, <2>4 DEF Listing
    <3> QED BY <2>5, <3>1
  <2>8. Ring(K.next, c[1], T)
    <3> DEFINE nx == K.next
               o == c[1]
    <3>1. (\A k \in 1 .. n : nx[c[k]] = c[(k % n) + 1]) /\ o \in T
      BY <2>6, <2>7
    <3> HIDE DEF nx, o
    <3>2. Ring(nx, o, T)
      BY <2>4, <3>1, ListIsRing
    <3> QED BY <3>2 DEF nx, o
  <2> QED BY <2>8 DEF T, c
<1>16. ASSUME NEW q \in Points, K.board[q] # "empty" PROVE InRing(K, q)
  <2>1. PICK i \in 1 .. m : q \in strings[i]
    BY <1>3, <1>13, <1>16
  <2>2. K.number[q] = i - 1
    BY <1>3, <1>4, <1>14, <1>16, <2>1
  <2>3. m <= MaxStrings /\ K.next_string = m
    BY <1>2, <1>9
  <2>4. i - 1 \in Slots /\ i - 1 \in 0 .. K.next_string - 1 /\ i - 1 < m /\ i - 1 + 1 = i
    BY <1>3, <1>7, <2>3 DEF Slots
  <2>5. K.origin[i - 1] = chain[i][1]
    BY <1>2, <1>9, <2>4
  <2>6. Members(K, i - 1) = strings[i]
    <3>1. ASSUME NEW r \in strings[i] PROVE r \in Members(K, i - 1)
      <4>1. r \in Points /\ board[r] # "empty" /\ Of(r) = i
        BY <1>11, <1>14
      <4> QED BY <1>3, <1>4, <4>1 DEF Members
    <3>2. ASSUME NEW r \in Members(K, i - 1) PROVE r \in strings[i]
      <4>1. r \in Points /\ board[r] # "empty" /\ K.number[r] = i - 1
        BY <1>3 DEF Members
      <4>2. PICK j \in 1 .. m : r \in strings[j]
        BY <1>13, <4>1
      <4>3. K.number[r] = j - 1
        BY <1>4, <1>14, <4>1, <4>2
      <4>4. i = j
        BY <1>7, <4>1, <4>3
      <4> QED BY <4>2, <4>4
    <3> QED BY <3>1, <3>2
  <2>7. Ring(K.next, K.origin[K.number[q]], Members(K, K.number[q]))
    BY <1>15, <2>2, <2>5, <2>6
  <2>8. K.number[q] \in 0 .. K.next_string - 1
    BY <2>2, <2>4
  <2> QED BY <2>7, <2>8 DEF InRing
<1>17. Strung(K, NoMove)
  BY <1>1, <1>3, <1>16 DEF Strung
<1>18. HashIs(K)
  BY <1>3 DEF HashIs
<1> QED BY <1>1, <1>3, <1>17, <1>18 DEF Sound

-----------------------------------------------------------------------------
(* What is the same where it matters has the same rings and hash.          *)
LEMMA SameAs ==
  ASSUME NEW Q, Sound(Q, NoMove), NEW R, Same(Q, R), R.hash = Q.hash
  PROVE  Sound(R, NoMove)
<1>1. Shape(Q) /\ Shape(R) /\ \A at \in Kept(Q) : Peek(R, at) = Peek(Q, at)
  BY DEF Sound, Same
<1>2. R.board = Q.board /\ R.next_string = Q.next_string /\ Bare(R) = Bare(Q)
  BY <1>1, SameFields
<1>3. R.ko = Q.ko /\ R.komaster = Q.komaster /\ R.kom_pos = Q.kom_pos
  BY <1>2 DEF Bare
<1>4. NoMove \notin Points /\ MaxStrings \in Nat
  BY PointsAssumption, StringAssumption
<1>5. ASSUME NEW p \in Points, Q.board[p] # "empty"
      PROVE  R.number[p] = Q.number[p] /\ R.next[p] = Q.next[p]
  <2> DEFINE c == <<"number", p>>
             d == <<"next", p>>
  <2>1. c \in Kept(Q) /\ d \in Kept(Q)
    BY <1>5 DEF Kept, Places
  <2>2. /\ Peek(R, c) = R.number[p] /\ Peek(Q, c) = Q.number[p]
        /\ Peek(R, d) = R.next[p] /\ Peek(Q, d) = Q.next[p]
    BY PointPlaces
  <2> HIDE DEF c, d
  <2> QED BY <1>1, <2>1, <2>2
<1>6. ASSUME NEW s \in 0 .. Q.next_string - 1 PROVE R.origin[s] = Q.origin[s]
  <2> DEFINE c == <<"origin", s>>
  <2>1. s \in Slots /\ s < Q.next_string
    BY <1>4 DEF Sound, Strung, Slots
  <2>2. c \in Kept(Q)
    BY <2>1 DEF Kept, Places
  <2>3. Peek(R, c) = R.origin[s] /\ Peek(Q, c) = Q.origin[s]
    BY PeekIs
  <2> HIDE DEF c
  <2> QED BY <1>1, <2>2, <2>3
<1>7. \A s : Members(R, s) = Members(Q, s)
  BY <1>2, <1>5 DEF Members
<1>8. ASSUME NEW p \in Points, R.board[p] # "empty" PROVE InRing(R, p)
  <2> DEFINE s == Q.number[p]
             S == Members(Q, s)
             o == Q.origin[s]
  <2>1. p # NoMove /\ Q.board[p] # "empty"
    BY <1>2, <1>4, <1>8
  <2>2. s \in 0 .. Q.next_string - 1 /\ Ring(Q.next, o, S)
    BY <2>1 DEF Sound, Strung, InRing
  <2>3. o \in S /\ \A q \in S : q \in Points /\ Q.board[q] # "empty"
    BY <2>2 DEF Ring, Members
  <2>4. R.number[p] = s /\ R.origin[s] = o /\ Members(R, s) = S
    BY <1>5, <1>6, <1>7, <2>1, <2>2
  <2> HIDE DEF s, S, o
  <2>5. \A q \in S : R.next[q] = Q.next[q]
    BY <1>5, <2>3
  <2>6. Ring(R.next, o, S)
    BY <2>2, <2>3, <2>5, RingSame
  <2> QED BY <1>2, <2>2, <2>4, <2>6 DEF InRing
<1>9. Strung(R, NoMove)
  BY <1>2, <1>4, <1>8 DEF Strung, Sound
<1> QED BY <1>1, <1>2, <1>3, <1>9 DEF Sound, HashIs

LEMMA ForgetAs ==
  ASSUME NEW N, Sound(N, NoMove)
  PROVE  Sound(Forget(N), NoMove)
<1> DEFINE K == Forget(N)
<1>1. Shape(N)
  BY DEF Sound
<1>2. /\ Shape(K) /\ K.log = N.log /\ \A at \in Kept(N) : Peek(K, at) = Peek(N, at)
  BY <1>1, ForgetIs
<1>3. K.hash = N.hash
  <2>1. "hash" \in Fields \ Records
    BY DEF Fields, Records
  <2>2. \A f \in Fields \ Records : Forget(N)[f] = N[f]
    BY <1>1, ForgetIs
  <2> QED BY <2>1, <2>2
<1> HIDE DEF K
<1>4. Same(N, K)
  BY <1>2 DEF Same
<1>5. Sound(K, NoMove)
  BY <1>3, <1>4, SameAs
<1> QED BY <1>5 DEF K

LEMMA LogEmptiedIs ==
  ASSUME NEW N, Shape(N), NEW K, K = [N EXCEPT !.log = <<>>]
  PROVE  Shape(K) /\ (\A f \in Fields \ {"log"} : K[f] = N[f]) /\ K.next_string = N.next_string
<1>1. N = [f \in Fields |-> N[f]] /\ "next_string" \in Fields \ {"log"}
  BY DEF Shape, Fields
<1>2. K = [f \in Fields |-> K[f]] /\ K.log = <<>> /\ \A f \in Fields \ {"log"} : K[f] = N[f]
  BY <1>1 DEF Fields
<1>3. IsLog(K.log)
  BY <1>2, EmptyLog
<1>4. \A f \in Fields : K[f] = N[f] \/ Redone(f, N[f], K[f])
  BY <1>2 DEF Redone, Over
<1>5. Shape(K)
  BY <1>2, <1>3, <1>4, ShapeStill
<1> QED BY <1>1, <1>2, <1>5

LEMMA LogEmptiedAs ==
  ASSUME NEW N, Sound(N, NoMove), NEW K, K = [N EXCEPT !.log = <<>>]
  PROVE  Sound(K, NoMove)
<1>1. Shape(K) /\ \A f \in Fields \ {"log"} : K[f] = N[f]
  BY LogEmptiedIs DEF Sound
<1>2. RingFields \cup HashFields \subseteq Fields \ {"log"}
  BY DEF Fields, RingFields, HashFields
<1>3. \A f \in RingFields \cup HashFields : K[f] = N[f]
  BY <1>1, <1>2
<1> QED BY <1>1, <1>3, SoundSame

LEMMA FreshAs ==
  ASSUME NEW b \in BoardType, NEW K, K = Fresh(b), K.next_string <= MaxStrings
  PROVE  Sound(K, NoMove)
<1> DEFINE N == [board |-> b, ko |-> NoMove, captured |-> [c \in Colors |-> 0],
                 hash |-> HashRecalc(b, NoMove), komaster |-> "empty", kom_pos |-> NoMove,
                 number |-> <<>>, next |-> <<>>, color |-> <<>>, size |-> <<>>, origin |-> <<>>,
                 liberties |-> <<>>, lib |-> <<>>, neighbors |-> <<>>, nb |-> <<>>,
                 next_string |-> 0, log |-> <<>>]
<1>1. N = [f \in Fields |-> N[f]]
  BY DEF Fields
<1>2. /\ N.board = b /\ N.captured = [c \in Colors |-> 0] /\ N.hash = HashRecalc(b, NoMove)
      /\ N.ko = NoMove /\ N.komaster = "empty" /\ N.kom_pos = NoMove
  OBVIOUS
<1>3. K = NewPosition(N)
  BY DEF Fresh
<1> HIDE DEF N
<1>4. Bared(N)
  BY <1>1, <1>2 DEF Bared, BoardType
<1>5. HashIs(N)
  <2>1. \A x : Turned(x, x) = {}
    BY DEF Turned, SymDiff
  <2>2. HashOf(b, NoMove, "empty", NoMove) = HashRecalc(b, NoMove)
    BY <2>1 DEF HashOf
  <2> QED BY <1>2, <2>2 DEF HashIs
<1> QED BY <1>2, <1>3, <1>4, <1>5, NewPositionAs

LEMMA RebuiltAs ==
  ASSUME NEW N, Sound(N, NoMove), NEW K, K = NewPosition(N), K.next_string <= MaxStrings
  PROVE  Sound(K, NoMove)
<1>1. Bared(N)
  BY ShapeBared DEF Sound
<1> QED BY <1>1, NewPositionAs DEF Sound

-----------------------------------------------------------------------------
(* Every level has its rings and its hash.                                 *)
SoundLevels(mem) ==
    /\ \A k \in 1 .. stackp + 1 : Sound(mem[k], NoMove)
    /\ \A k \in 1 .. stackp : hashes[k] = mem[k].hash

SoundInv == UndoInv /\ \E mem : Levelled(mem) /\ SoundLevels(mem)

(* The slots are never overrun (PARANOID1 in create_new_string), and one   *)
(* is free after new_position (PARANOID1 there).                           *)
SlotsSuffice == M.next_string <= MaxStrings /\ (stackp = 0 => M.next_string < MaxStrings)

LEMMA SoundTop ==
  ASSUME UndoInv, NEW mem, Levelled(mem), SoundLevels(mem)
  PROVE  Sound(M, NoMove)
<1>1. stackp \in Nat
  BY StackHeight
<1>2. stackp + 1 \in 1 .. stackp + 1
  BY <1>1
<1> QED BY <1>2 DEF Levelled, SoundLevels

LEMMA SoundRaised ==
  ASSUME UndoInv, NEW mem, Levelled(mem), SoundLevels(mem), NEW mem2, RaisedTo(mem, mem2),
         NEW pos, NEW color, Stacked(pos, color), UndoInv', Sound(M', NoMove)
  PROVE  SoundInv'
<1> DEFINE n == stackp
<1>1. n \in Nat /\ Len(hashes) = n /\ IsLog(hashes) /\ hashes' = Append(hashes, M.hash)
  BY StackHeight DEF UndoInv, Stacked
<1>2. Len(hashes') = n + 1 /\ hashes'[n + 1] = M.hash /\ \A k \in 1 .. n : hashes'[k] = hashes[k]
  <2> DEFINE L == hashes  K == hashes'  e == M.hash
  <2>1. IsLog(L) /\ K = Append(L, e) /\ Len(L) = n
    BY <1>1
  <2> HIDE DEF L, K, e
  <2>2. Len(K) = Len(L) + 1
    BY <2>1, LogGrows
  <2>3. K[Len(L) + 1] = e
    BY <2>1, LogGrows
  <2>4. \A k \in 1 .. Len(L) : K[k] = L[k]
    BY <2>1, LogGrows
  <2> QED BY <2>1, <2>2, <2>3, <2>4 DEF L, K, e
<1>3. stackp' = n + 1
  BY <1>2 DEF UndoInv
<1>4. mem2[stackp' + 1] = M' /\ Levelled(mem2)'
  BY DEF RaisedTo, Levelled
<1>5. mem[n + 1] = M /\ \A k \in 1 .. n + 1 : mem2[k] = mem[k]
  BY DEF RaisedTo, Levelled
<1>6. (\A k \in 1 .. n + 1 : Sound(mem[k], NoMove)) /\ \A k \in 1 .. n : hashes[k] = mem[k].hash
  BY DEF SoundLevels
<1> HIDE DEF n
<1>7. ASSUME NEW k \in 1 .. n + 2 PROVE Sound(mem2[k], NoMove)
  <2>1. CASE k = n + 2
    <3>1. stackp' + 1 = n + 2
      BY <1>1, <1>3
    <3> QED BY <1>4, <2>1, <3>1
  <2>2. CASE k # n + 2
    <3>1. k \in 1 .. n + 1
      BY <1>1, <2>2
    <3> QED BY <1>5, <1>6, <3>1
  <2> QED BY <2>1, <2>2
<1>8. ASSUME NEW k \in 1 .. n + 1 PROVE hashes'[k] = mem2[k].hash
  <2>1. CASE k = n + 1
    BY <1>2, <1>5, <2>1
  <2>2. CASE k # n + 1
    <3>1. k \in 1 .. n
      BY <1>1, <2>2
    <3> QED BY <1>2, <1>5, <1>6, <3>1
  <2> QED BY <2>1, <2>2
<1>9. SoundLevels(mem2)'
  <2>1. stackp' + 1 = n + 2
    BY <1>1, <1>3
  <2>2. \A k \in 1 .. stackp' + 1 : Sound(mem2[k], NoMove)
    BY <1>7, <2>1
  <2>3. \A k \in 1 .. stackp' : hashes'[k] = mem2[k].hash
    BY <1>3, <1>8
  <2> QED BY <2>2, <2>3 DEF SoundLevels
<1> QED BY <1>4, <1>9 DEF SoundInv

LEMMA SoundLowered ==
  ASSUME UndoInv, NEW mem, Levelled(mem), SoundLevels(mem), NEW mem2, LoweredTo(mem, mem2), Popgo, UndoInv'
  PROVE  SoundInv'
<1> DEFINE n == stackp
<1>1. n \in Nat /\ n # 0 /\ Len(hashes) = n /\ IsLog(hashes) /\ hashes' = Front(hashes)
  BY StackHeight DEF UndoInv, Popgo
<1>2. Len(hashes') = n - 1 /\ \A k \in 1 .. n - 1 : hashes'[k] = hashes[k]
  BY <1>1, FrontOf
<1>3. stackp' = n - 1
  BY <1>2 DEF UndoInv
<1>4. mem2[stackp' + 1] = M' /\ Levelled(mem2)'
  BY DEF LoweredTo, Levelled
<1>5. Same(mem[n], M') /\ M'.hash = hashes[n] /\ \A k \in 1 .. n - 1 : mem2[k] = mem[k]
  BY DEF LoweredTo
<1>6. (\A k \in 1 .. n + 1 : Sound(mem[k], NoMove)) /\ \A k \in 1 .. n : hashes[k] = mem[k].hash
  BY DEF SoundLevels
<1> HIDE DEF n
<1>7. n \in 1 .. n /\ n \in 1 .. n + 1
  BY <1>1
<1>8. Sound(M', NoMove)
  <2> DEFINE Q == mem[n]  R == M'
  <2>1. Sound(Q, NoMove) /\ Same(Q, R) /\ R.hash = Q.hash
    BY <1>5, <1>6, <1>7
  <2> HIDE DEF Q, R
  <2>2. Sound(R, NoMove)
    BY <2>1, SameAs
  <2> QED BY <2>2 DEF R
<1>9. ASSUME NEW k \in 1 .. n PROVE Sound(mem2[k], NoMove)
  <2>1. CASE k = n
    <3>1. stackp' + 1 = n
      BY <1>1, <1>3
    <3> QED BY <1>4, <1>8, <2>1, <3>1
  <2>2. CASE k # n
    <3>1. k \in 1 .. n - 1 /\ k \in 1 .. n + 1
      BY <1>1, <2>2
    <3> QED BY <1>5, <1>6, <3>1
  <2> QED BY <2>1, <2>2
<1>10. ASSUME NEW k \in 1 .. n - 1 PROVE hashes'[k] = mem2[k].hash
  <2>1. k \in 1 .. n
    BY <1>1
  <2> QED BY <1>2, <1>5, <1>6, <2>1
<1>11. SoundLevels(mem2)'
  <2>1. stackp' + 1 = n
    BY <1>1, <1>3
  <2>2. \A k \in 1 .. stackp' + 1 : Sound(mem2[k], NoMove)
    BY <1>9, <2>1
  <2>3. \A k \in 1 .. stackp' : hashes'[k] = mem2[k].hash
    BY <1>3, <1>10
  <2> QED BY <2>2, <2>3 DEF SoundLevels
<1> QED BY <1>4, <1>11 DEF SoundInv

(* Where no trial move has been made there is one level.                   *)
LEMMA SoundGround ==
  UndoInv /\ stackp = 0 /\ Sound(M, NoMove) => SoundInv
<1> SUFFICES ASSUME UndoInv, stackp = 0, Sound(M, NoMove) PROVE SoundInv
  OBVIOUS
<1>1. PICK mem : Levelled(mem)
  BY DEF UndoInv
<1>2. \A k \in 1 .. stackp + 1 : mem[k] = M
  <2>1. \A k \in 1 .. stackp + 1 : k = stackp + 1
    OBVIOUS
  <2> QED BY <1>1, <2>1 DEF Levelled
<1>3. \A k \in 1 .. stackp : FALSE
  OBVIOUS
<1>4. SoundLevels(mem)
  BY <1>2, <1>3 DEF SoundLevels
<1> QED BY <1>1, <1>4 DEF SoundInv

LEMMA SoundGroundNext ==
  (UndoInv /\ stackp = 0 /\ Sound(M, NoMove) => SoundInv)'
BY SoundGround, PTL

LEMMA SoundStarts ==
  ASSUME Init, SlotsSuffice
  PROVE  SoundInv
<1>1. PICK b \in Boards : M = Fresh(b)
  BY DEF Init
<1>2. b \in BoardType /\ stackp = 0
  BY TrialAssumption DEF BoardType, Init, stackp
<1>3. Sound(M, NoMove)
  BY <1>1, <1>2, FreshAs DEF SlotsSuffice
<1> QED BY <1>2, <1>3, UndoStarts, SoundGround

LEMMA TrymoveSound ==
  ASSUME UndoInv, NEW mem, Levelled(mem), SoundLevels(mem), SlotsSuffice', NEW p \in Points \cup {NoMove},
         NEW color \in Colors, NEW ignore_ko, Trymove(p, color, ignore_ko)
  PROVE  SoundInv'
<1>1. Sound(M, NoMove)
  BY SoundTop
<1>2. (p # NoMove => M.board[p] = "empty") /\ M' = ReallyDoTrymove(p, color) /\ Stacked(p, color)
  BY DEF Trymove, Legal
<1>3. Sound(M', NoMove)
  BY <1>1, <1>2, ReallyDoTrymoveAs DEF SlotsSuffice
<1>4. UndoInv' /\ \E mem2 : RaisedTo(mem, mem2)
  BY TrymoveKeeps
<1> QED BY <1>2, <1>3, <1>4, SoundRaised

LEMMA KomasterTrymoveSound ==
  ASSUME UndoInv, NEW mem, Levelled(mem), SoundLevels(mem), SlotsSuffice', NEW p \in Points,
         NEW color \in Colors, NEW consider, KomasterTrymove(p, color, consider)
  PROVE  SoundInv'
<1> DEFINE R == ReallyDoTrymove(p, color)
           F == {"komaster", "kom_pos", "hash"}
<1>1. Sound(M, NoMove) /\ Shape(M)
  BY SoundTop DEF UndoInv
<1>2. M.board[p] = "empty" /\ Stacked(p, color)
  BY DEF KomasterTrymove
<1>3. \E kpos, ko_move : M' \in {SetNewKomaster(R, color, kpos), KomasterAfter(R, color, ko_move, kpos)}
  BY DEF KomasterTrymove
<1>4. Shape(R)
  BY <1>1, <1>2, TrymoveGivesBack DEF UndoInv
<1>5. M'.next_string = R.next_string
  <2>1. Only(F, R, M')
    BY <1>3, <1>4, SetNewKomasterIs, KomasterAfterIs
  <2>2. "next_string" \in Fields \ (F \cup {"log"})
    BY DEF Fields
  <2> HIDE DEF F, R
  <2> QED BY <2>1, <2>2 DEF Only
<1>6. Sound(R, NoMove)
  BY <1>1, <1>2, <1>5, ReallyDoTrymoveAs DEF SlotsSuffice
<1> HIDE DEF R
<1>7. Sound(M', NoMove)
  BY <1>3, <1>6, SetNewKomasterAs, KomasterAfterAs
<1>8. UndoInv' /\ \E mem2 : RaisedTo(mem, mem2)
  BY KomasterTrymoveKeeps
<1> QED BY <1>2, <1>7, <1>8, SoundRaised

LEMMA PermanentSound ==
  ASSUME UndoInv, Sound(M, NoMove), SlotsSuffice, SlotsSuffice', NEW p \in Points \cup {NoMove}, NEW color \in Colors,
         PlayMove(p, color) \/ ReplayStep(p, color), UndoInv'
  PROVE  SoundInv'
<1> DEFINE N == Played(p, color)
           K == [N EXCEPT !.log = <<>>]
<1>1. stackp = 0 /\ stackp' = 0 /\ (p # NoMove => M.board[p] = "empty")
  BY DEF PlayMove, ReplayStep, Permanently, stackp
<1>2. Sound(N, NoMove)
  BY <1>1, PlayedAs DEF SlotsSuffice
<1>3. M' \in {NewPosition(N), Forget(K)}
  BY DEF PlayMove, ReplayStep
<1> HIDE DEF N
<1>4. Sound(K, NoMove)
  BY <1>2, LogEmptiedAs
<1> HIDE DEF K
<1>5. Sound(M', NoMove)
  <2>1. CASE M' = Forget(K)
    BY <1>4, <2>1, ForgetAs
  <2>2. CASE M' = NewPosition(N)
    <3> DEFINE L == M'
    <3>1. L = NewPosition(N) /\ L.next_string <= MaxStrings
      BY <2>2 DEF SlotsSuffice
    <3> HIDE DEF L
    <3>2. Sound(L, NoMove)
      BY <1>2, <3>1, RebuiltAs
    <3> QED BY <3>2 DEF L
  <2> QED BY <1>3, <2>1, <2>2
<1> QED BY <1>1, <1>5, SoundGroundNext

LEMMA ReplayEndSound ==
  ASSUME UndoInv, Sound(M, NoMove), SlotsSuffice', ReplayEnd, UndoInv'
  PROVE  SoundInv'
<1>1. stackp' = 0
  BY DEF UndoInv, ReplayEnd, stackp
<1>2. Sound(M', NoMove)
  <2> DEFINE L == M'
  <2>1. L = NewPosition(M) /\ L.next_string <= MaxStrings
    BY DEF SlotsSuffice, ReplayEnd
  <2> HIDE DEF L
  <2>2. Sound(L, NoMove)
    BY <2>1, RebuiltAs
  <2> QED BY <2>2 DEF L
<1> QED BY <1>1, <1>2, SoundGroundNext

LEMMA SoundStep ==
  ASSUME SoundInv, SlotsSuffice, SlotsSuffice', [Next]_vars, UndoInv'
  PROVE  SoundInv'
<1>1. PICK mem : Levelled(mem) /\ SoundLevels(mem)
  BY DEF SoundInv
<1>2. UndoInv
  BY DEF SoundInv
<1>3. Sound(M, NoMove)
  BY <1>1, <1>2, SoundTop
<1>4. Candidates \subseteq Points
  BY TrialAssumption
<1>5. ASSUME NEW pos \in Candidates \cup {NoMove}, NEW color \in Colors,
             Trymove(pos, color, FALSE) \/ Trymove(pos, color, TRUE)
      PROVE  SoundInv'
  BY <1>1, <1>2, <1>4, <1>5, TrymoveSound
<1>6. ASSUME NEW pos \in Candidates \cup {NoMove}, NEW color \in Colors, PlayMove(pos, color) \/ ReplayStep(pos, color)
      PROVE  SoundInv'
  BY <1>2, <1>3, <1>4, <1>6, PermanentSound
<1>7. ASSUME NEW pos \in Candidates, NEW color \in Colors, NEW consider, KomasterTrymove(pos, color, consider)
      PROVE  SoundInv'
  BY <1>1, <1>2, <1>4, <1>7, KomasterTrymoveSound
<1>8. CASE Popgo
  <2>1. PICK mem2 : LoweredTo(mem, mem2)
    BY <1>1, <1>2, <1>8, PopKeeps
  <2> QED BY <1>1, <1>2, <1>8, <2>1, SoundLowered
<1>9. CASE ReplayEnd
  BY <1>2, <1>3, <1>9, ReplayEndSound
<1>10. CASE UNCHANGED vars
  BY <1>1, <1>2, <1>10 DEF vars, SoundInv, UndoInv, Levelled, SoundLevels, stackp
<1> QED BY <1>5, <1>6, <1>7, <1>8, <1>9, <1>10 DEF Next

(* At every level of reading the stones of a string are a ring of next     *)
(* that its origin lies on, and the hash is that of the position, whatever *)
(* was captured, merged, undone and rebuilt on the way there: as long as   *)
(* the slots for strings suffice, which board.h:75-84 says they may not.   *)
THEOREM SoundInvariant ==
  Spec /\ []SlotsSuffice => []SoundInv
<1>1. Init /\ SlotsSuffice => SoundInv
  BY SoundStarts
<1>2. SoundInv /\ SlotsSuffice /\ SlotsSuffice' /\ UndoInv' /\ [Next]_vars => SoundInv'
  BY SoundStep
<1>3. Spec => []UndoInv
  BY UndoInvariant
<1> QED BY <1>1, <1>2, <1>3, PTL DEF Spec

(* The hash read from the hash stack belongs to the position that the log  *)
(* brings back, ko and komaster included (board_hash_stack, popgo).        *)
THEOREM HashesAreOfTheLevelsAlways ==
  Spec /\ []SlotsSuffice => []HashesAreOfTheLevels
<1>1. ASSUME SoundInv PROVE HashesAreOfTheLevels
  <2>1. PICK mem : Levelled(mem) /\ SoundLevels(mem)
    BY <1>1 DEF SoundInv
  <2>2. UndoInv /\ stackp \in Nat
    BY <1>1, StackHeight DEF SoundInv
  <2>3. ASSUME NEW k \in 1 .. stackp + 1
        PROVE  LET N == Levels[k] IN
               (IF k > stackp THEN M.hash ELSE hashes[k]) = HashOf(N.board, N.ko, N.komaster, N.kom_pos)
    <3>1. HashIs(mem[k])
      BY <2>1 DEF SoundLevels, Sound
    <3>2. Levels[k] = Bare(mem[k]) /\ (IF k > stackp THEN M.hash ELSE hashes[k]) = mem[k].hash
      <4> DEFINE L == saved  K == Levels  e == Bare(M)
      <4>1. IsLog(L) /\ Len(L) = stackp /\ K = Append(L, e)
        BY <2>2 DEF UndoInv, Levels
      <4> HIDE DEF L, K, e
      <4>2. K[Len(L) + 1] = e
        BY <4>1, LogGrows
      <4>3. \A i \in 1 .. Len(L) : K[i] = L[i]
        BY <4>1, LogGrows
      <4>4. CASE k = stackp + 1
        <5>1. k > stackp /\ mem[k] = M
          BY <2>1, <2>2, <4>4 DEF Levelled
        <5> QED BY <4>1, <4>2, <4>4, <5>1 DEF K, e
      <4>5. CASE k # stackp + 1
        <5>1. k \in 1 .. stackp /\ ~(k > stackp)
          BY <2>2, <4>5
        <5>2. Bare(mem[k]) = L[k] /\ hashes[k] = mem[k].hash
          BY <2>1, <5>1 DEF Levelled, SoundLevels, L
        <5> QED BY <4>1, <4>3, <5>1, <5>2 DEF K
      <4> QED BY <4>4, <4>5
    <3> QED BY <3>1, <3>2 DEF HashIs, Bare
  <2>4. \A k \in 1 .. stackp + 1 :
           (IF k > stackp THEN M.hash ELSE hashes[k])
             = HashOf(Levels[k].board, Levels[k].ko, Levels[k].komaster, Levels[k].kom_pos)
    BY <2>3
  <2> QED BY <2>4 DEF HashesAreOfTheLevels, HashOf, Turned
<1> QED BY <1>1, SoundInvariant, PTL

-----------------------------------------------------------------------------
(* How many slots reading needs: one for every string that new_position    *)
(* finds, and one more for every trial move, for popgo gives them back.    *)
LEMMA NewPositionSlots ==
  ASSUME NEW N, Bared(N)
  PROVE  NewPosition(N).next_string <= Cardinality(Points)
<1> DEFINE O == {p \in Points : N.board[p] # "empty" /\ p = Min(StringAt(N.board, p))}
           m == Cardinality(O)
           origins == Ascending(O)
           strings == [i \in DOMAIN origins |-> StringAt(N.board, origins[i])]
<1>1. NewPosition(N).next_string = Len(strings)
  <2>1. N = [f \in Fields |-> N[f]] /\ "next_string" \in Fields
    BY DEF Bared, Fields
  <2> QED BY <2>1 DEF NewPosition
<1>2. m \in Nat /\ m <= Cardinality(Points)
  BY PointsAssumption, FS_Subset, FS_CardinalityType
<1>3. DOMAIN origins = 1 .. m
  BY DEF Ascending
<1> HIDE DEF origins, m
<1>4. DOMAIN strings = 1 .. m
  BY <1>3
<1>5. strings = [i \in 1 .. m |-> strings[i]]
  BY <1>3
<1> HIDE DEF strings
<1>6. strings \in Seq({strings[i] : i \in 1 .. m})
  BY <1>2, <1>5
<1>7. Len(strings) = m
  BY <1>2, <1>4, <1>6
<1> QED BY <1>1, <1>2, <1>7

FewStrings(mem) == \A k \in 1 .. stackp + 1 : mem[k].next_string < Cardinality(Points) + k

SlotInv ==
    /\ UndoInv /\ (stackp = 0 \/ stackp <= MaxStack)
    /\ IF replaying THEN M.next_string < MaxStrings ELSE \E mem : Levelled(mem) /\ FewStrings(mem)

LEMMA FewTop ==
  ASSUME UndoInv, NEW mem, Levelled(mem), FewStrings(mem)
  PROVE  M.next_string < Cardinality(Points) + (stackp + 1)
<1>1. stackp \in Nat
  BY StackHeight
<1>2. stackp + 1 \in 1 .. stackp + 1
  BY <1>1
<1> QED BY <1>2 DEF Levelled, FewStrings

LEMMA FewRaised ==
  ASSUME UndoInv, NEW mem, Levelled(mem), FewStrings(mem), NEW mem2, RaisedTo(mem, mem2),
         NEW pos, NEW color, Stacked(pos, color), UndoInv', stackp < MaxStack,
         M'.next_string \in {M.next_string, M.next_string + 1}
  PROVE  SlotInv'
<1> DEFINE n == stackp  C == Cardinality(Points)
<1>1. n \in Nat /\ Len(hashes) = n /\ IsLog(hashes) /\ hashes' = Append(hashes, M.hash)
  BY StackHeight DEF UndoInv, Stacked
<1>2. Len(hashes') = n + 1
  <2> DEFINE L == hashes  K == hashes'  e == M.hash
  <2>1. IsLog(L) /\ K = Append(L, e) /\ Len(L) = n
    BY <1>1
  <2> HIDE DEF L, K, e
  <2>2. Len(K) = Len(L) + 1
    BY <2>1, LogGrows
  <2> QED BY <2>1, <2>2 DEF L, K, e
<1>3. stackp' = n + 1
  BY <1>2 DEF UndoInv
<1>4. mem2[stackp' + 1] = M' /\ Levelled(mem2)'
  BY DEF RaisedTo, Levelled
<1>5. \A k \in 1 .. n + 1 : mem2[k] = mem[k] /\ mem[k].next_string < C + k
  BY DEF RaisedTo, FewStrings
<1>6. M.next_string < C + (n + 1) /\ M.next_string \in Nat /\ C \in Nat
  BY FewTop, PointsAssumption, FS_CardinalityType DEF UndoInv
<1>9. ~replaying'
  BY <1>1, <1>3 DEF UndoInv
<1>10. MaxStack \in Nat /\ n < MaxStack
  BY TrialAssumption
<1> HIDE DEF n, C
<1>7. ASSUME NEW k \in 1 .. n + 2 PROVE mem2[k].next_string < C + k
  <2>1. CASE k = n + 2
    <3>1. stackp' + 1 = n + 2
      BY <1>1, <1>3
    <3>2. M'.next_string < C + (n + 2)
      BY <1>1, <1>6
    <3> QED BY <1>4, <2>1, <3>1, <3>2
  <2>2. CASE k # n + 2
    <3>1. k \in 1 .. n + 1
      BY <1>1, <2>2
    <3> QED BY <1>5, <3>1
  <2> QED BY <2>1, <2>2
<1>8. FewStrings(mem2)'
  <2>1. stackp' + 1 = n + 2
    BY <1>1, <1>3
  <2>2. \A k \in 1 .. stackp' + 1 : mem2[k].next_string < C + k
    BY <1>7, <2>1
  <2> QED BY <2>2 DEF FewStrings, C
<1>11. stackp' <= MaxStack
  BY <1>1, <1>3, <1>10
<1> QED BY <1>4, <1>8, <1>9, <1>11 DEF SlotInv

LEMMA FewLowered ==
  ASSUME UndoInv, NEW mem, Levelled(mem), FewStrings(mem), NEW mem2, LoweredTo(mem, mem2), Popgo, UndoInv',
         stackp <= MaxStack
  PROVE  SlotInv'
<1> DEFINE n == stackp  C == Cardinality(Points)
<1>1. n \in Nat /\ n # 0 /\ Len(hashes) = n /\ IsLog(hashes) /\ hashes' = Front(hashes)
  BY StackHeight DEF UndoInv, Popgo
<1>2. Len(hashes') = n - 1
  BY <1>1, FrontOf
<1>3. stackp' = n - 1
  BY <1>2 DEF UndoInv
<1>4. mem2[stackp' + 1] = M' /\ Levelled(mem2)'
  BY DEF LoweredTo, Levelled
<1>5. Same(mem[n], M') /\ \A k \in 1 .. n - 1 : mem2[k] = mem[k]
  BY DEF LoweredTo
<1>6. (\A k \in 1 .. n + 1 : mem[k].next_string < C + k /\ Shape(mem[k])) /\ MaxStack \in Nat /\ n <= MaxStack
  BY TrialAssumption DEF FewStrings, Levelled
<1>7. ~replaying'
  BY <1>1 DEF UndoInv, Popgo
<1> HIDE DEF n, C
<1>8. n \in 1 .. n /\ n \in 1 .. n + 1
  BY <1>1
<1>9. M'.next_string < C + n
  <2> DEFINE Q == mem[n]  R == M'
  <2>1. Shape(Q) /\ Same(Q, R) /\ Q.next_string < C + n
    BY <1>5, <1>6, <1>8
  <2> HIDE DEF Q, R
  <2>2. R.next_string = Q.next_string
    BY <2>1, SameFields
  <2> QED BY <2>1, <2>2 DEF R
<1>10. ASSUME NEW k \in 1 .. n PROVE mem2[k].next_string < C + k
  <2>1. CASE k = n
    <3>1. stackp' + 1 = n
      BY <1>1, <1>3
    <3> QED BY <1>4, <1>9, <2>1, <3>1
  <2>2. CASE k # n
    <3>1. k \in 1 .. n - 1 /\ k \in 1 .. n + 1
      BY <1>1, <2>2
    <3> QED BY <1>5, <1>6, <3>1
  <2> QED BY <2>1, <2>2
<1>11. FewStrings(mem2)'
  <2>1. stackp' + 1 = n
    BY <1>1, <1>3
  <2>2. \A k \in 1 .. stackp' + 1 : mem2[k].next_string < C + k
    BY <1>10, <2>1
  <2> QED BY <2>2 DEF FewStrings, C
<1>12. stackp' <= MaxStack
  BY <1>1, <1>3, <1>6
<1> QED BY <1>4, <1>7, <1>11, <1>12 DEF SlotInv

LEMMA FewGround ==
  UndoInv /\ stackp = 0 /\ ~replaying /\ M.next_string <= Cardinality(Points) => SlotInv
<1> SUFFICES ASSUME UndoInv, stackp = 0, ~replaying, M.next_string <= Cardinality(Points) PROVE SlotInv
  OBVIOUS
<1>1. PICK mem : Levelled(mem)
  BY DEF UndoInv
<1>2. M.next_string < Cardinality(Points) + 1
  BY PointsAssumption, FS_CardinalityType DEF UndoInv
<1>3. \A k \in 1 .. stackp + 1 : mem[k] = M /\ k = 1
  <2>1. \A k \in 1 .. stackp + 1 : k = stackp + 1 /\ k = 1
    OBVIOUS
  <2> QED BY <1>1, <2>1 DEF Levelled
<1>4. FewStrings(mem)
  BY <1>2, <1>3 DEF FewStrings
<1> QED BY <1>1, <1>4 DEF SlotInv

LEMMA FewGroundNext ==
  (UndoInv /\ stackp = 0 /\ ~replaying /\ M.next_string <= Cardinality(Points) => SlotInv)'
BY FewGround, PTL

LEMMA FewStarts ==
  ASSUME Init
  PROVE  SlotInv
<1>1. PICK b \in Boards : M = Fresh(b)
  BY DEF Init
<1>2. b = [p \in Points |-> b[p]] /\ stackp = 0 /\ ~replaying
  BY TrialAssumption DEF Init, stackp
<1> DEFINE N == [board |-> b, ko |-> NoMove, captured |-> [c \in Colors |-> 0],
                 hash |-> HashRecalc(b, NoMove), komaster |-> "empty", kom_pos |-> NoMove,
                 number |-> <<>>, next |-> <<>>, color |-> <<>>, size |-> <<>>, origin |-> <<>>,
                 liberties |-> <<>>, lib |-> <<>>, neighbors |-> <<>>, nb |-> <<>>,
                 next_string |-> 0, log |-> <<>>]
<1>3. N = [f \in Fields |-> N[f]] /\ N.board = b /\ N.captured = [c \in Colors |-> 0]
  BY DEF Fields
<1>4. M = NewPosition(N)
  BY <1>1 DEF Fresh
<1> HIDE DEF N
<1>5. Bared(N)
  BY <1>2, <1>3 DEF Bared
<1> QED BY <1>2, <1>4, <1>5, NewPositionSlots, UndoStarts, FewGround

LEMMA FewStep ==
  ASSUME SlotInv, [Next]_vars, UndoInv', Cardinality(Points) < MaxStrings
  PROVE  SlotInv'
<1>1. UndoInv /\ Shape(M) /\ M.next_string \in Nat /\ MaxStack \in Nat /\ Cardinality(Points) \in Nat
      /\ MaxStrings \in Nat /\ Candidates \subseteq Points
  BY TrialAssumption, StringAssumption, PointsAssumption, FS_CardinalityType DEF SlotInv, UndoInv
<1>2. ~replaying => \E mem : Levelled(mem) /\ FewStrings(mem)
  BY DEF SlotInv
<1>3. stackp = 0 => M.next_string < MaxStrings
  <2>1. CASE replaying
    BY <2>1 DEF SlotInv
  <2>2. CASE ~replaying
    BY <1>1, <1>2, <2>2, FewTop
  <2> QED BY <2>1, <2>2
<1>4. ASSUME NEW pos \in Candidates \cup {NoMove}, NEW color \in Colors,
             Trymove(pos, color, FALSE) \/ Trymove(pos, color, TRUE)
      PROVE  SlotInv'
  <2>1. ~replaying /\ Stacked(pos, color) /\ stackp < MaxStack - 2
    BY <1>4 DEF Trymove, Legal
  <2>2. PICK mem : Levelled(mem) /\ FewStrings(mem)
    BY <1>2, <2>1
  <2>3. (\E mem2 : RaisedTo(mem, mem2)) /\ M'.next_string \in {M.next_string, M.next_string + 1}
    BY <1>1, <1>4, <2>2, TrymoveKeeps
  <2>4. stackp < MaxStack
    BY <1>1, <2>1, StackHeight
  <2> QED BY <1>1, <2>1, <2>2, <2>3, <2>4, FewRaised
<1>5. ASSUME NEW pos \in Candidates, NEW color \in Colors, NEW consider, KomasterTrymove(pos, color, consider)
      PROVE  SlotInv'
  <2>1. ~replaying /\ Stacked(pos, color) /\ stackp < MaxStack - 2
    BY <1>5 DEF KomasterTrymove, Legal
  <2>2. PICK mem : Levelled(mem) /\ FewStrings(mem)
    BY <1>2, <2>1
  <2>3. (\E mem2 : RaisedTo(mem, mem2)) /\ M'.next_string \in {M.next_string, M.next_string + 1}
    BY <1>1, <1>5, <2>2, KomasterTrymoveKeeps
  <2>4. stackp < MaxStack
    BY <1>1, <2>1, StackHeight
  <2> QED BY <1>1, <2>1, <2>2, <2>3, <2>4, FewRaised
<1>6. ASSUME NEW N, Shape(N), M' = NewPosition(N) PROVE M'.next_string <= Cardinality(Points)
  BY <1>6, ShapeBared, NewPositionSlots
<1>7. ASSUME NEW pos \in Candidates \cup {NoMove}, NEW color \in Colors, PlayMove(pos, color) PROVE SlotInv'
  <2>1. Shape(Played(pos, color))
    BY <1>1, PlayedIs
  <2>2. M'.next_string <= Cardinality(Points) /\ stackp' = 0 /\ ~replaying'
    BY <1>6, <1>7, <2>1 DEF PlayMove, Permanently, stackp
  <2> QED BY <2>2, FewGroundNext
<1>8. ASSUME NEW pos \in Candidates \cup {NoMove}, NEW color \in Colors, ReplayStep(pos, color) PROVE SlotInv'
  <2> DEFINE N == Played(pos, color)
             K == [N EXCEPT !.log = <<>>]
  <2>1. Shape(N) /\ N.next_string \in {M.next_string, M.next_string + 1}
    BY <1>1, PlayedIs
  <2>2. /\ stackp = 0 /\ stackp' = 0 /\ replaying'
        /\ M' = IF N.next_string = MaxStrings THEN NewPosition(N) ELSE Forget(K)
    BY <1>8 DEF ReplayStep, Permanently, stackp
  <2> HIDE DEF N
  <2>3. Shape(K) /\ K.next_string = N.next_string
    BY <2>1, LogEmptiedIs
  <2> HIDE DEF K
  <2>4. Forget(K).next_string = N.next_string
    BY <2>3, ForgetIs
  <2>5. M'.next_string < MaxStrings
    <3>1. CASE N.next_string = MaxStrings
      <4>1. M'.next_string <= Cardinality(Points)
        BY <1>6, <2>1, <2>2, <3>1
      <4>2. M'.next_string \in Nat
        BY DEF UndoInv
      <4> QED BY <1>1, <4>1, <4>2
    <3>2. CASE N.next_string # MaxStrings
      <4>1. M'.next_string = N.next_string
        BY <2>2, <2>4, <3>2
      <4> QED BY <1>1, <1>3, <2>1, <2>2, <3>2, <4>1
    <3> QED BY <3>1, <3>2
  <2> QED BY <2>2, <2>5 DEF SlotInv
<1>9. CASE Popgo
  <2>1. stackp # 0 /\ stackp <= MaxStack /\ ~replaying
    BY <1>1, <1>9, StackHeight DEF SlotInv, Popgo, UndoInv
  <2>2. PICK mem : Levelled(mem) /\ FewStrings(mem)
    BY <1>2, <2>1
  <2>3. PICK mem2 : LoweredTo(mem, mem2)
    BY <1>1, <1>9, <2>2, PopKeeps
  <2> QED BY <1>1, <1>9, <2>1, <2>2, <2>3, FewLowered
<1>10. CASE ReplayEnd
  <2>1. M'.next_string <= Cardinality(Points) /\ stackp' = 0 /\ ~replaying'
    BY <1>1, <1>6, <1>10 DEF ReplayEnd, stackp, UndoInv
  <2> QED BY <2>1, FewGroundNext
<1>11. CASE UNCHANGED vars
  BY <1>11 DEF vars, SlotInv, UndoInv, Levelled, FewStrings, stackp
<1> QED BY <1>4, <1>5, <1>7, <1>8, <1>9, <1>10, <1>11 DEF Next

(* A slot for every point and for every trial move is enough, as board.h   *)
(* has it ("For a safe upper bound MAX_STRINGS should be set to MAX_STACK  *)
(* + 4 * MAX_BOARD * MAX_BOARD / 5"; there each string has a liberty).     *)
THEOREM EnoughSlots ==
  ASSUME Cardinality(Points) + MaxStack < MaxStrings
  PROVE  Spec => []SlotsSuffice
<1>1. Cardinality(Points) \in Nat /\ MaxStack \in Nat /\ MaxStrings \in Nat /\ Cardinality(Points) < MaxStrings
  BY PointsAssumption, FS_CardinalityType, TrialAssumption, StringAssumption
<1>2. Init => SlotInv
  BY FewStarts
<1>3. SlotInv /\ [Next]_vars /\ UndoInv' => SlotInv'
  BY <1>1, FewStep
<1>4. SlotInv => SlotsSuffice
  <2> SUFFICES ASSUME SlotInv PROVE M.next_string < MaxStrings
    BY <1>1 DEF SlotsSuffice, SlotInv, UndoInv
  <2>1. CASE replaying
    BY <2>1 DEF SlotInv
  <2>2. CASE ~replaying
    <3>1. PICK mem : Levelled(mem) /\ FewStrings(mem)
      BY <2>2 DEF SlotInv
    <3>2. UndoInv /\ stackp \in Nat /\ (stackp = 0 \/ stackp <= MaxStack) /\ M.next_string \in Nat
      BY StackHeight DEF SlotInv, UndoInv
    <3>3. M.next_string < Cardinality(Points) + (stackp + 1)
      BY <3>1, <3>2, FewTop
    <3> QED BY <1>1, <3>2, <3>3
  <2> QED BY <2>1, <2>2
<1>5. Spec => []UndoInv
  BY UndoInvariant
<1> QED BY <1>2, <1>3, <1>4, <1>5, PTL DEF Spec
=============================================================================
