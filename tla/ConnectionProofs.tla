-------------------------- MODULE ConnectionProofs --------------------------
(***************************************************************************)
(* Proofs about the bytes of a connection.  For any writers, capacity and  *)
(* packet sizes no byte is lost by the rewinding of the send buffer, a     *)
(* send in progress covers reserved bytes only, and head is past tail only *)
(* inside pop.  For any packets, cut anywhere, the receive path handles    *)
(* each once, whole and in order, always has room to go on, and counts the *)
(* extension entries as they were announced.                               *)
(* With the one multicast event of a connection, the event pool hands it    *)
(* out to one user at a time, and every packet the tasks post is in exactly *)
(* one place: with the client, refused, given up, or still waiting.         *)
(***************************************************************************)
EXTENDS MCConnection, FiniteSetTheorems, TLAPS

(* A completer at work holds the event, so the main loop posts nothing.     *)
CompleterHoldsEvent == completer # "none" => is_processing

(* Up to its first store, a pop finds at least the bytes it takes out; a    *)
(* rewind found the buffer empty.                                           *)
HeadIsReserved == completer # "rewind" => head <= tail

IInv == /\ TypeOK
        /\ CompleterHoldsEvent
        /\ HeadIsReserved
        /\ NothingLost
        /\ PostedIsReserved

----------------------------------------------------------------------------
(* The buffer starts empty, with no send in progress. *)
LEMMA InitInv == Init => IInv
<1> SUFFICES ASSUME Init PROVE IInv
  OBVIOUS
<1>1. 0 \in 0 .. Capacity
  BY BufferAssumption
<1>2. Idle \in [stage : {"idle", "cas", "copy"}, at : 0 .. Capacity, n : Nat]
  BY <1>1 DEF Idle
<1>3. TypeOK
  BY <1>1, <1>2 DEF Init, TypeOK
<1>4. /\ CompleterHoldsEvent /\ HeadIsReserved
      /\ NothingLost /\ PostedIsReserved
  BY DEF Init, CompleterHoldsEvent, HeadIsReserved, NothingLost,
         PostedIsReserved, InFlight
<1> QED
  BY <1>3, <1>4 DEF IInv

(* What the steps of a push do to the buffer: nothing, or the tail grows by *)
(* the bytes reserved and stays inside the buffer.                          *)
LEMMA PushStep ==
  ASSUME TypeOK, NEW w \in Writers,
         (\E n \in Sizes : PushLoad(w, n)) \/ PushRefused(w) \/ PushReserve(w)
            \/ PushRetry(w) \/ PushCopy(w)
  PROVE  /\ UNCHANGED <<head, is_processing, completer, posted, sent>>
         /\ writer' \in [Writers -> [stage : {"idle", "cas", "copy"},
                                     at : 0 .. Capacity, n : Nat]]
         /\ tail' \in 0 .. Capacity /\ tail' >= tail
         /\ reserved' \in Nat /\ reserved' - reserved = tail' - tail
<1>1. CASE \E n \in Sizes : PushLoad(w, n)
  BY <1>1, BufferAssumption DEF PushLoad, TypeOK
<1>2. CASE PushRefused(w) \/ PushCopy(w)
  BY <1>2, BufferAssumption DEF PushRefused, PushCopy, Idle, TypeOK
<1>3. CASE PushReserve(w)
  BY <1>3, BufferAssumption DEF PushReserve, Fits, TypeOK
<1>4. CASE PushRetry(w)
  BY <1>4 DEF PushRetry, TypeOK
<1> QED
  BY <1>1, <1>2, <1>3, <1>4

(* Every step of the main loop, of the writers and of the completer keeps   *)
(* the invariant.                                                           *)
LEMMA StepInv == IInv /\ [Next]_vars => IInv'
<1> SUFFICES ASSUME IInv, [Next]_vars PROVE IInv'
  OBVIOUS
<1> USE DEF CompleterHoldsEvent, HeadIsReserved, NothingLost,
            PostedIsReserved, InFlight
<1>1. ASSUME NEW w \in Writers,
             (\E n \in Sizes : PushLoad(w, n)) \/ PushRefused(w)
                \/ PushReserve(w) \/ PushRetry(w) \/ PushCopy(w)
      PROVE  IInv'
  <2>1. /\ UNCHANGED <<head, is_processing, completer, posted, sent>>
        /\ writer' \in [Writers -> [stage : {"idle", "cas", "copy"},
                                    at : 0 .. Capacity, n : Nat]]
        /\ tail' \in 0 .. Capacity /\ tail' >= tail
        /\ reserved' \in Nat /\ reserved' - reserved = tail' - tail
    BY <1>1, PushStep DEF IInv
  <2> QED
    BY <2>1, BufferAssumption DEF IInv, TypeOK
<1>2. CASE Post
  BY <1>2, BufferAssumption DEF Post, CanPost, IInv, TypeOK
<1>3. CASE CompleteEof \/ CompleteFailed
  BY <1>3 DEF CompleteEof, CompleteFailed, IInv, TypeOK
<1>4. CASE PopHead
  BY <1>4, BufferAssumption DEF PopHead, IInv, TypeOK
<1>5. CASE PopReset
  BY <1>5, BufferAssumption DEF PopReset, IInv, TypeOK
<1>6. CASE PopRewind
  BY <1>6, BufferAssumption DEF PopRewind, IInv, TypeOK
<1>7. CASE OnComplete
  <2>1. posted' \in [at : 0 .. Capacity, n : 0 .. Capacity]
    BY <1>7, BufferAssumption DEF OnComplete
  <2>2. ~InFlight'
    BY <1>7 DEF OnComplete
  <2> QED
    BY <1>7, <2>1, <2>2 DEF OnComplete, IInv, TypeOK
<1>8. CASE PostFailed \/ UNCHANGED vars
  BY <1>8 DEF PostFailed, vars, IInv, TypeOK
<1> QED
  BY <1>1, <1>2, <1>3, <1>4, <1>5, <1>6, <1>7, <1>8 DEF Next

(* The inductive invariant holds in every reachable state. *)
THEOREM Invariant == Spec => []IInv
  BY InitInv, StepInv, PTL DEF Spec

(* Every offset stays inside the buffer, whatever the interleaving of       *)
(* pushes with the pop of a completed send.                                 *)
THEOREM TypeCorrect == Spec => []TypeOK
<1>1. IInv => TypeOK
  BY DEF IInv
<1> QED
  BY <1>1, Invariant, PTL

(* assert(data_head <= data_tail): head is past tail only inside the rewind, *)
(* while the main loop cannot look.                                          *)
THEOREM HeadStaysBehindTail == Spec => []HeadBehindTail
<1>1. IInv => HeadBehindTail
  BY DEF IInv, TypeOK, HeadBehindTail, HeadIsReserved, CompleterHoldsEvent
<1> QED
  BY <1>1, Invariant, PTL

(* Reserved and unsent bytes are exactly those between head and tail: the    *)
(* CAS that rewinds the buffer never drops a push that raced with it.        *)
THEOREM NoByteLost == Spec => []NothingLost
<1>1. IInv => NothingLost
  BY DEF IInv
<1> QED
  BY <1>1, Invariant, PTL

(* A send in progress starts at the head and covers reserved bytes only.     *)
THEOREM SendCoversReserved == Spec => []PostedIsReserved
<1>1. IInv => PostedIsReserved
  BY DEF IInv
<1> QED
  BY <1>1, Invariant, PTL

----------------------------------------------------------------------------
(* The receive path: bytes, packets and the stream they make.              *)
Bytes == Nat \X Nat

(* Behind the first o bytes of s are all n bytes of packet i, and behind    *)
(* them packet i + 1; w are the widths of the packets sent.                 *)
PacketAt(s, w, o, i, n) ==
    /\ i \in 1 .. Len(w) /\ n = w[i] /\ o + n <= Len(s)
    /\ \A m \in 1 .. n : s[o + m] = <<i, m>>
    /\ o + n < Len(s) => s[o + n + 1] = <<i + 1, 1>>
    /\ o + n = Len(s) => i = Len(w)

(* s consists of whole packets, those from the f-th on.                    *)
Packets(s, w, f) ==
    /\ s = <<>> => f = Len(w) + 1
    /\ s # <<>> => s[1] = <<f, 1>>
    /\ \A k \in 1 .. Len(s) :
         \E o, i, n \in Nat : o < k /\ k <= o + n /\ PacketAt(s, w, o, i, n)

(* What the end of a sequence is.                                          *)
LEMMA ConcatFacts ==
  ASSUME NEW S, NEW s \in Seq(S), NEW t \in Seq(S)
  PROVE  /\ s \o t \in Seq(S) /\ Len(s \o t) = Len(s) + Len(t)
         /\ Len(s) \in Nat /\ Len(t) \in Nat
         /\ \A k \in 1 .. Len(s) : (s \o t)[k] = s[k]
         /\ \A m \in 1 .. Len(t) : (s \o t)[Len(s) + m] = t[m]
<1>1. \A m \in 1 .. Len(t) : Len(s) + m \in 1 .. Len(s) + Len(t) /\ ~(Len(s) + m <= Len(s))
                             /\ Len(s) + m - Len(s) = m
  OBVIOUS
<1> QED
  BY <1>1

(* A stream begins with a whole packet; without it, it is a stream again,   *)
(* from the next packet on.                                                *)
LEMMA DropPacket ==
  ASSUME NEW w \in Seq(Nat \ {0}), NEW s \in Seq(Bytes), s # <<>>,
         NEW f \in Nat, Packets(s, w, f)
  PROVE  /\ f \in 1 .. Len(w) /\ w[f] \in 1 .. Len(s)
         /\ \A m \in 1 .. w[f] : s[m] = <<f, m>>
         /\ Packets([k \in 1 .. Len(s) - w[f] |-> s[k + w[f]]], w, f + 1)
<1>1. Len(s) \in Nat \ {0} /\ 1 \in 1 .. Len(s) /\ s[1] = <<f, 1>>
  BY DEF Packets
<1>2. PICK o0, g, d \in Nat : o0 < 1 /\ 1 <= o0 + d /\ PacketAt(s, w, o0, g, d)
  BY <1>1 DEF Packets
<1>3. o0 = 0 /\ d \in Nat \ {0} /\ 1 \in 1 .. d
  BY <1>2
<1>4. /\ g \in 1 .. Len(w) /\ d = w[g] /\ d \in 1 .. Len(s)
      /\ \A m \in 1 .. d : s[m] = <<g, m>>
      /\ d < Len(s) => s[d + 1] = <<g + 1, 1>>
      /\ d = Len(s) => g = Len(w)
  BY <1>1, <1>2, <1>3 DEF PacketAt
<1>5. g = f
  BY <1>1, <1>3, <1>4
<1>a. d \in Nat \ {0} /\ d <= Len(s) /\ Len(s) - d \in Nat
  BY <1>3, <1>4, <1>1
<1> DEFINE r == [k \in 1 .. Len(s) - d |-> s[k + d]]
<1>6. r \in Seq(Bytes) /\ Len(r) = Len(s) - d /\ \A k \in 1 .. Len(r) : r[k] = s[k + d]
  <2>1. \A k \in 1 .. Len(s) - d : s[k + d] \in Bytes
    BY <1>a
  <2> QED
    BY <1>a, <2>1
<1> HIDE DEF r
<1>7. r = <<>> => f + 1 = Len(w) + 1
  <2>1. r = <<>> => d = Len(s)
    BY <1>a, <1>6
  <2> QED
    BY <2>1, <1>4, <1>5
<1>8. r # <<>> => r[1] = <<f + 1, 1>>
  <2>1. r # <<>> => d < Len(s) /\ r[1] = s[1 + d] /\ 1 + d = d + 1
    BY <1>a, <1>6
  <2> QED
    BY <2>1, <1>4, <1>5
<1>9. ASSUME NEW k \in 1 .. Len(r)
      PROVE \E o, i, n \in Nat : o < k /\ k <= o + n /\ PacketAt(r, w, o, i, n)
  <2>1. /\ k + d \in 1 .. Len(s) /\ k \in Nat /\ k >= 1
    BY <1>a, <1>6
  <2>2. PICK o, i, n \in Nat : o < k + d /\ k + d <= o + n /\ PacketAt(s, w, o, i, n)
    BY <2>1 DEF Packets
  <2>3. /\ i \in 1 .. Len(w) /\ n = w[i] /\ o + n <= Len(s)
        /\ \A m \in 1 .. n : s[o + m] = <<i, m>>
        /\ o + n < Len(s) => s[o + n + 1] = <<i + 1, 1>>
        /\ o + n = Len(s) => i = Len(w)
    BY <2>2 DEF PacketAt
  <2>4. o >= d
    <3> SUFFICES ASSUME o < d PROVE FALSE
      BY <1>a
    <3>1. d - o \in 1 .. n /\ o + (d - o) = d /\ d \in 1 .. d
      BY <1>a, <2>1, <2>2
    <3>2. s[d] = <<i, d - o>>
      BY <2>3, <3>1
    <3>3. s[d] = <<g, d>>
      BY <1>4, <3>1
    <3>4. i = g /\ d - o = d
      BY <3>2, <3>3
    <3>5. n = d /\ o = 0
      BY <3>4, <2>3, <1>4, <1>a
    <3> QED
      BY <3>5, <2>1, <2>2, <1>a
  <2>5. PICK p \in Nat : o = p + d
    <3>1. o - d \in Nat /\ o = (o - d) + d
      BY <2>4, <1>a
    <3> QED
      BY <3>1
  <2>6. p < k /\ k <= p + n /\ p + n <= Len(r) /\ Len(r) = Len(s) - d /\ Len(s) \in Nat
    <3>1. o + n <= Len(s) /\ Len(s) \in Nat /\ Len(r) = Len(s) - d
      BY <2>3, <1>1, <1>6
    <3> QED
      BY <3>1, <2>1, <2>2, <2>5, <1>a
  <2>7. ASSUME NEW m \in 1 .. n PROVE r[p + m] = <<i, m>>
    <3>1. p + m \in 1 .. Len(r) /\ (p + m) + d = o + m
      BY <2>5, <2>6, <1>a
    <3>2. r[p + m] = s[(p + m) + d]
      BY <3>1, <1>6
    <3> QED
      BY <2>3, <3>1, <3>2
  <2>8. p + n < Len(r) => r[p + n + 1] = <<i + 1, 1>>
    <3> SUFFICES ASSUME p + n < Len(r) PROVE r[p + n + 1] = <<i + 1, 1>>
      OBVIOUS
    <3>1. p + n + 1 \in 1 .. Len(r) /\ (p + n + 1) + d = o + n + 1 /\ o + n < Len(s)
      BY <2>5, <2>6, <1>a
    <3>2. r[p + n + 1] = s[(p + n + 1) + d]
      BY <3>1, <1>6
    <3> QED
      BY <2>3, <3>1, <3>2
  <2>9. p + n = Len(r) => i = Len(w)
    <3>1. ASSUME p + n = Len(r) PROVE o + n = Len(s)
      <4>1. (p + n) + d = Len(s)
        BY <3>1, <2>6, <1>a
      <4> QED
        BY <4>1, <2>5, <1>a
    <3>2. o + n = Len(s) => i = Len(w)
      BY <2>3
    <3> QED
      BY <3>1, <3>2
  <2>10. PacketAt(r, w, p, i, n)
    BY <2>3, <2>6, <2>7, <2>8, <2>9 DEF PacketAt
  <2> QED
    BY <2>6, <2>10
<1>10. Packets(r, w, f + 1)
  BY <1>7, <1>8, <1>9 DEF Packets
<1> QED
  BY <1>4, <1>5, <1>10 DEF r

(* A stream followed by the bytes of the next packet is a stream.           *)
LEMMA AddPacket ==
  ASSUME NEW w \in Seq(Nat \ {0}), NEW s \in Seq(Bytes), NEW f \in Nat, Packets(s, w, f),
         NEW d \in Nat \ {0}
  PROVE  Packets(s \o [j \in 1 .. d |-> <<Len(w) + 1, j>>], Append(w, d), f)
<1> DEFINE new == [j \in 1 .. d |-> <<Len(w) + 1, j>>]
           r == s \o new
           v == Append(w, d)
<1>1. new \in Seq(Bytes) /\ Len(new) = d /\ \A j \in 1 .. d : new[j] = <<Len(w) + 1, j>>
  BY DEF Bytes
<1> HIDE DEF new
<1>2. /\ r \in Seq(Bytes) /\ Len(r) = Len(s) + d /\ Len(s) \in Nat
      /\ \A k \in 1 .. Len(s) : r[k] = s[k]
      /\ \A m \in 1 .. d : r[Len(s) + m] = <<Len(w) + 1, m>>
  <2>1. /\ r \in Seq(Bytes) /\ Len(r) = Len(s) + Len(new) /\ Len(s) \in Nat
        /\ \A k \in 1 .. Len(s) : r[k] = s[k]
        /\ \A m \in 1 .. Len(new) : r[Len(s) + m] = new[m]
    <3>1. s \in Seq(Bytes) /\ new \in Seq(Bytes)
      BY <1>1
    <3> QED
      BY <3>1, ConcatFacts
  <2>3. ASSUME NEW m \in 1 .. d PROVE r[Len(s) + m] = <<Len(w) + 1, m>>
    BY <1>1, <2>1, <2>3
  <2>4. Len(r) = Len(s) + d
    BY <1>1, <2>1
  <2> QED
    BY <2>1, <2>3, <2>4, Zenon
<1>3. /\ v \in Seq(Nat \ {0}) /\ Len(v) = Len(w) + 1 /\ v[Len(w) + 1] = d
      /\ \A i \in 1 .. Len(w) : v[i] = w[i]
      /\ Len(w) \in Nat
  OBVIOUS
<1> HIDE DEF r, v
<1>4. r # <<>> /\ r[1] = <<f, 1>>
  <2>1. r # <<>>
    BY <1>2
  <2>2. CASE s = <<>>
    <3>1. f = Len(w) + 1 /\ Len(s) = 0 /\ 1 \in 1 .. d /\ Len(s) + 1 = 1
      BY <2>2 DEF Packets
    <3>2. r[Len(s) + 1] = <<Len(w) + 1, 1>>
      BY <3>1, <1>2
    <3> QED
      BY <3>1, <3>2, <2>1
  <2>3. CASE s # <<>>
    <3>1. s[1] = <<f, 1>> /\ 1 \in 1 .. Len(s)
      BY <2>3, <1>2 DEF Packets
    <3> QED
      BY <3>1, <2>1, <1>2
  <2> QED
    BY <2>2, <2>3
<1>5. ASSUME NEW k \in 1 .. Len(r)
      PROVE \E o, i, n \in Nat : o < k /\ k <= o + n /\ PacketAt(r, v, o, i, n)
  <2>1. CASE k <= Len(s)
    <3>1. k \in 1 .. Len(s)
      BY <2>1, <1>2
    <3>2. PICK o, i, n \in Nat : o < k /\ k <= o + n /\ PacketAt(s, w, o, i, n)
      BY <3>1 DEF Packets
    <3>3. /\ i \in 1 .. Len(w) /\ n = w[i] /\ o + n <= Len(s)
          /\ \A m \in 1 .. n : s[o + m] = <<i, m>>
          /\ o + n < Len(s) => s[o + n + 1] = <<i + 1, 1>>
          /\ o + n = Len(s) => i = Len(w)
      BY <3>2 DEF PacketAt
    <3>a. i \in 1 .. Len(w) /\ n = w[i] /\ o + n <= Len(s) /\ Len(s) \in Nat
      BY <3>3, <1>2
    <3>4. n = v[i] /\ i \in 1 .. Len(v) /\ o + n < Len(r) /\ o + n <= Len(r)
          /\ o + n # Len(r)
      <4>1. n = v[i] /\ i \in 1 .. Len(v)
        BY <3>a, <1>3
      <4>2. Len(r) = Len(s) + d
        BY <1>2
      <4> QED
        BY <3>a, <4>1, <4>2
    <3>5. ASSUME NEW m \in 1 .. n PROVE r[o + m] = <<i, m>>
      <4>1. o + m \in 1 .. Len(s)
        BY <3>a
      <4>2. s[o + m] = <<i, m>>
        BY <3>3
      <4> QED
        BY <4>1, <4>2, <1>2
    <3>6. r[o + n + 1] = <<i + 1, 1>>
      <4>1. CASE o + n = Len(s)
        <5>1. i = Len(w) /\ 1 \in 1 .. d
          BY <4>1, <3>3
        <5>2. r[Len(s) + 1] = <<Len(w) + 1, 1>>
          BY <5>1, <1>2
        <5> QED
          BY <5>1, <5>2, <4>1
      <4>2. CASE o + n < Len(s)
        <5>1. o + n + 1 \in 1 .. Len(s)
          BY <4>2, <1>2
        <5>2. r[o + n + 1] = s[o + n + 1]
          BY <5>1, <1>2
        <5> QED
          BY <5>2, <4>2, <3>3
      <4>3. o + n = Len(s) \/ o + n < Len(s)
        BY <3>a
      <4> QED
        BY <4>1, <4>2, <4>3
    <3>7. PacketAt(r, v, o, i, n)
      BY <3>4, <3>5, <3>6, Zenon DEF PacketAt
    <3> QED
      BY <3>2, <3>7
  <2>2. CASE k > Len(s)
    <3>1. /\ Len(w) + 1 \in 1 .. Len(v) /\ v[Len(w) + 1] = d /\ Len(s) + d = Len(r)
          /\ Len(w) + 1 = Len(v)
      BY <1>2, <1>3
    <3>a. Len(s) + d <= Len(r) /\ ~(Len(s) + d < Len(r))
      BY <3>1, <1>2
    <3>b. \A m \in 1 .. d : r[Len(s) + m] = <<Len(w) + 1, m>>
      BY <1>2
    <3>2. PacketAt(r, v, Len(s), Len(w) + 1, d)
      BY <3>1, <3>a, <3>b, Zenon DEF PacketAt
    <3> QED
      BY <2>2, <3>1, <3>2, <1>2, <1>3
  <2> QED
    BY <2>1, <2>2, <1>2
<1>6. Packets(r, v, f)
  BY <1>4, <1>5 DEF Packets
<1> QED
  BY <1>6 DEF r, v, new

----------------------------------------------------------------------------
(* The bytes between the cursor and the client, in the order in which they *)
(* were sent: what is left in the buffer, and what is on its way.          *)
Widths == [i \in 1 .. Len(clientSent) |-> Receive!Width(clientSent[i].kind)]
Top == IF op.stage = "arrived" THEN op.at + op.n ELSE size
Ahead == Top - handler.cur
Stream == [k \in 1 .. Ahead + Len(wire) |->
              IF k <= Ahead THEN mem[handler.cur + k] ELSE wire[k - Ahead]]

Players == [known : BOOLEAN, pending : 0 .. CountMod - 1,
            registered : BOOLEAN, synced : BOOLEAN]
Receives == [stage : {"none", "posted", "arrived", "over"},
             at : 0 .. Capacity, n : 0 .. Capacity]
Handlers == [stage : {"idle", "parse", "pop", "popped"}, cur : 0 .. Capacity]

Buffers ==
    /\ clientSent \in Seq(Receive!Content) /\ Len(clientSent) <= MaxPackets
    /\ wire \in Seq(Bytes) /\ mem \in [1 .. Capacity -> Bytes] /\ size \in 0 .. Capacity
    /\ busy \in BOOLEAN /\ op \in Receives /\ op.at + op.n <= Capacity
    /\ handler \in Handlers /\ handler.cur <= size
    /\ err \in {"success", "insufficient", "invalid"}
    /\ life \in {"online", "leaving", "offline"}
    /\ player \in Players /\ handled \in Seq(Bytes)

Roomy(n) == Capacity - n >= Room

(* A receive is posted behind the data and while nothing is handled; the   *)
(* event stays busy until the data have moved, and then there is room.     *)
Receiving ==
    /\ op.stage # "none" => handler.stage = "idle" /\ op.at = size /\ Roomy(size)
    /\ op.stage # "none" \/ handler.stage # "idle" => busy
    /\ handler.stage \notin {"parse", "pop"} => handler.cur = 0
    /\ handler.stage = "pop" /\ err # "invalid" => Roomy(size - handler.cur)
    /\ handler.stage \in {"idle", "popped"} /\ op.stage # "arrived"
         /\ err # "invalid" /\ life # "offline" => Roomy(size)

(* The packets handled are the first ones sent, the stream holds the rest. *)
Streaming ==
    /\ \A k \in 1 .. Len(handled) : handled[k] = <<k, 1>> /\ Size[clientSent[k].kind] > 0
    /\ Len(handled) <= Len(clientSent)
    /\ Packets(Stream, Widths, Len(handled) + 1)

(* Every packet has a width. *)
WidthShape ==
    /\ Widths \in Seq(Nat \ {0}) /\ Len(Widths) = Len(clientSent) /\ Len(clientSent) \in Nat
    /\ \A i \in 1 .. Len(clientSent) :
         /\ clientSent[i] \in Receive!Content /\ clientSent[i].kind \in Kinds
         /\ Size[clientSent[i].kind] \in Nat
         /\ Widths[i] = Receive!Width(clientSent[i].kind)

LEMMA WidthFacts == Receive!ReceiveAssumption /\ clientSent \in Seq(Receive!Content)
    => WidthShape
<1> SUFFICES ASSUME Receive!ReceiveAssumption,
                    clientSent \in Seq(Receive!Content) PROVE WidthShape
  OBVIOUS
<1> USE DEF WidthShape
<1>1. \A c \in Receive!Content : c.kind \in Kinds
  BY DEF Receive!Content
<1>2. \A k \in Kinds : Size[k] \in Nat /\ Receive!Width(k) \in Nat \ {0}
  BY DEF Receive!ReceiveAssumption, Receive!Width
<1>3. Len(clientSent) \in Nat /\ \A i \in 1 .. Len(clientSent) :
        clientSent[i] \in Receive!Content
  OBVIOUS
<1>4. \A i \in 1 .. Len(clientSent) : Receive!Width(clientSent[i].kind) \in Nat \ {0}
  BY <1>1, <1>2, <1>3
<1>5. Widths \in Seq(Nat \ {0}) /\ Len(Widths) = Len(clientSent)
      /\ \A i \in 1 .. Len(clientSent) : Widths[i] = Receive!Width(clientSent[i].kind)
  BY <1>3, <1>4 DEF Widths
<1> QED
  BY <1>1, <1>2, <1>3, <1>5

(* The stream is a sequence of bytes. *)
StreamShape ==
    /\ Stream \in Seq(Bytes) /\ Len(Stream) = Ahead + Len(wire)
    /\ Ahead \in Nat /\ Len(wire) \in Nat /\ handler.cur + Ahead <= Capacity
    /\ \A k \in 1 .. Ahead : Stream[k] = mem[handler.cur + k]
    /\ \A k \in 1 .. Len(wire) : Stream[Ahead + k] = wire[k]

LEMMA StreamFacts == Receive!ReceiveAssumption /\ Buffers /\ Receiving => StreamShape
<1> SUFFICES ASSUME Receive!ReceiveAssumption, Buffers, Receiving PROVE StreamShape
  OBVIOUS
<1>0. /\ Capacity \in Nat /\ size \in Nat /\ size <= Capacity /\ handler.cur \in Nat
      /\ handler.cur <= size /\ op.at \in Nat /\ op.n \in Nat /\ op.at + op.n <= Capacity
      /\ Len(wire) \in Nat
  BY DEF Receive!ReceiveAssumption, Buffers, Receives, Handlers
<1>1. Top \in Nat /\ Top <= Capacity /\ handler.cur <= Top
  <2>1. CASE op.stage = "arrived"
    BY <2>1, <1>0 DEF Top, Receiving
  <2>2. CASE op.stage # "arrived"
    BY <2>2, <1>0 DEF Top
  <2> QED
    BY <2>1, <2>2
<1>2. Ahead \in Nat /\ handler.cur + Ahead <= Capacity
  BY <1>0, <1>1 DEF Ahead
<1> DEFINE N == Ahead + Len(wire)
<1>3. N \in Nat
  BY <1>0, <1>2
<1>4. ASSUME NEW k \in 1 .. N
      PROVE (IF k <= Ahead THEN mem[handler.cur + k] ELSE wire[k - Ahead]) \in Bytes
  <2>1. CASE k <= Ahead
    <3>1. handler.cur + k \in 1 .. Capacity
      BY <2>1, <1>0, <1>2
    <3> QED
      BY <3>1, <2>1 DEF Buffers
  <2>2. CASE ~(k <= Ahead)
    <3>1. k - Ahead \in 1 .. Len(wire)
      BY <2>2, <1>0, <1>2
    <3> QED
      BY <3>1, <2>2 DEF Buffers
  <2> QED
    BY <2>1, <2>2
<1>5. Stream \in Seq(Bytes) /\ Len(Stream) = Ahead + Len(wire)
  BY <1>3, <1>4 DEF Stream
<1>6. ASSUME NEW k \in 1 .. Ahead PROVE Stream[k] = mem[handler.cur + k]
  <2>1. k \in 1 .. N /\ k <= Ahead
    BY <1>0, <1>2
  <2> QED
    BY <2>1 DEF Stream
<1>7. ASSUME NEW k \in 1 .. Len(wire) PROVE Stream[Ahead + k] = wire[k]
  <2>1. PICK m \in 1 .. N : m = Ahead + k
    BY <1>0, <1>2
  <2>2. ~(m <= Ahead) /\ m - Ahead = k
    BY <2>1, <1>2
  <2>3. Stream[m] = wire[m - Ahead]
    BY <2>2 DEF Stream
  <2> QED
    BY <2>1, <2>2, <2>3
<1> QED
  BY <1>0, <1>2, <1>5, <1>6, <1>7 DEF StreamShape

(* Nothing is on its way at first. *)
LEMMA InitReceiving == Receive!ReceiveAssumption /\ Receive!Init
    => Buffers /\ Receiving /\ Streaming
<1> SUFFICES ASSUME Receive!ReceiveAssumption,
                    Receive!Init PROVE Buffers /\ Receiving /\ Streaming
  OBVIOUS
<1>1. Capacity \in Nat /\ Room \in Nat /\ Room <= Capacity /\ CountMod \in Nat \ {0}
      /\ MaxPackets \in Nat
  BY DEF Receive!ReceiveAssumption
<1>2. Buffers
  <2>1. mem \in [1 .. Capacity -> Bytes]
    BY <1>1 DEF Receive!Init, Bytes
  <2>2. player \in Players
    BY <1>1 DEF Receive!Init, Receive!NoPlayer, Players
  <2>3. op \in Receives /\ op.at + op.n <= Capacity
    BY <1>1 DEF Receive!Init, Receive!NoReceive, Receives
  <2>4. handler \in Handlers /\ handler.cur <= size
    BY <1>1 DEF Receive!Init, Handlers
  <2> QED
    <3>1. /\ clientSent \in Seq(Receive!Content) /\ Len(clientSent) <= MaxPackets
          /\ wire \in Seq(Bytes)
          /\ handled \in Seq(Bytes)
      BY <1>1 DEF Receive!Init
    <3>2. size = 0 /\ 0 \in 0 .. Capacity
      BY <1>1 DEF Receive!Init
    <3>3. /\ busy \in BOOLEAN
          /\ err \in {"success", "insufficient", "invalid"}
          /\ life \in {"online", "leaving", "offline"}
      BY Zenon DEF Receive!Init
    <3> QED
      BY <2>1, <2>2, <2>3, <2>4, <3>1, <3>2, <3>3, Zenon DEF Buffers
<1>3. Receiving
  BY <1>1 DEF Receive!Init, Receiving, Receive!NoReceive, Roomy
<1>4. Len(handled) = 0 /\ Len(clientSent) = 0 /\ Len(Widths) = 0
  BY <1>2, WidthFacts DEF WidthShape, Receive!Init, Buffers
<1>5. Ahead = 0 /\ Len(wire) = 0
  BY DEF Receive!Init, Ahead, Top, Receive!NoReceive
<1>6. Stream = <<>>
  BY <1>2, <1>3, <1>5, StreamFacts DEF StreamShape
<1>7. Packets(Stream, Widths, 1)
  BY <1>4, <1>6 DEF Packets
<1> QED
  BY <1>2, <1>3, <1>4, <1>7 DEF Streaming

----------------------------------------------------------------------------
(* What the handler finds under its cursor: the first byte of the packet   *)
(* after those it has handled.                                             *)
LEMMA CursorFacts ==
  ASSUME Receive!ReceiveAssumption, Buffers, Receiving, Streaming,
         handler.stage = "parse", handler.cur < size
  PROVE  /\ op.stage = "none" /\ Ahead = size - handler.cur /\ Stream # <<>>
         /\ Receive!AtCursor = <<Len(handled) + 1, 1>>
         /\ Len(handled) + 1 \in 1 .. Len(clientSent)
         /\ Receive!KindAtCursor = clientSent[Len(handled) + 1].kind
         /\ Receive!KindAtCursor \in Kinds /\ Size[Receive!KindAtCursor] \in Nat
         /\ Widths[Len(handled) + 1] = Receive!Width(Receive!KindAtCursor)
<1>1. op.stage = "none" /\ Ahead = size - handler.cur
  BY DEF Receiving, Ahead, Top
<1>2. size \in Nat /\ handler.cur \in Nat /\ Len(handled) \in Nat
      /\ clientSent \in Seq(Receive!Content)
  BY DEF Buffers, Handlers
<1>3. 1 \in 1 .. Ahead
  BY <1>1, <1>2
<1>4. Stream \in Seq(Bytes) /\ Len(Stream) # 0 /\ Stream[1] = mem[handler.cur + 1]
  BY <1>3, StreamFacts DEF WidthShape, StreamShape
<1>5. Stream # <<>>
  BY <1>4
<1>6. Stream[1] = <<Len(handled) + 1, 1>> /\ Packets(Stream, Widths, Len(handled) + 1)
  BY <1>5 DEF Streaming, Packets
<1>7. Len(handled) + 1 \in Nat
  BY <1>2
<1>8. Len(handled) + 1 \in 1 .. Len(Widths)
  BY <1>2, <1>4, <1>5, <1>6, <1>7, DropPacket, WidthFacts DEF WidthShape, StreamShape
<1>9. Len(handled) + 1 \in 1 .. Len(clientSent)
  BY <1>2, <1>8, WidthFacts DEF WidthShape, StreamShape
<1>10. Receive!AtCursor = <<Len(handled) + 1, 1>>
  BY <1>4, <1>6 DEF Receive!AtCursor
<1>11. Receive!KindAtCursor = clientSent[Len(handled) + 1].kind
  BY <1>10 DEF Receive!KindAtCursor
<1> QED
  BY <1>1, <1>2, <1>5, <1>9, <1>10, <1>11, WidthFacts DEF WidthShape, StreamShape

(* The player keeps its shape whatever packet is handled. *)
LEMMA PlayerStep ==
  ASSUME Receive!ReceiveAssumption, player \in Players, NEW c \in Receive!Content
  PROVE  Receive!HandlePacket(c) \in Players
<1>1. CountMod \in Nat \ {0} /\ 0 \in 0 .. CountMod - 1
  BY DEF Receive!ReceiveAssumption
<1>2. \A x \in Int : x % CountMod \in 0 .. CountMod - 1
  BY <1>1
<1>3. c.count \in Int
  <2>1. CASE c \in [kind : Kinds \ {"info"}, count : {0}]
    BY <2>1
  <2>2. CASE c \in [kind : {"info"} \cap Kinds, count : Counts]
    BY <2>2 DEF Receive!ReceiveAssumption
  <2> QED
    BY <2>1, <2>2 DEF Receive!Content
<1>4. player.pending \in Int
  BY <1>1 DEF Players
<1>5. Receive!Greeted \in Players
  BY <1>1 DEF Receive!Greeted, Receive!NoPlayer, Players
<1>6. Receive!ExtensionsAnnounced(c.count) \in Players
  BY <1>2, <1>3 DEF Receive!ExtensionsAnnounced, Players
<1>7. Receive!CountEntry \in Players
  <2>1. (player.pending - 1) % CountMod \in 0 .. CountMod - 1
    BY <1>2, <1>4
  <2>2. (player.synced \/ (player.pending - 1) % CountMod = 0) \in BOOLEAN
    OBVIOUS
  <2> QED
    BY <2>1, <2>2 DEF Receive!CountEntry, Players
<1>8. Receive!HandlePacket(c) \in
        {Receive!Greeted, Receive!ExtensionsAnnounced(c.count), Receive!CountEntry, player}
  BY DEF Receive!HandlePacket
<1> QED
  BY <1>5, <1>6, <1>7, <1>8

(* The types of the buffers. *)
LEMMA BuffersStep ==
  ASSUME Receive!ReceiveAssumption, Buffers, Receiving, Streaming, Receive!Next
  PROVE  Buffers'
<1>0. Capacity \in Nat /\ Room \in Nat /\ Room <= Capacity
  BY DEF Receive!ReceiveAssumption
<1>1. ASSUME NEW packet \in Receive!Content, Receive!ClientSends(packet) PROVE Buffers'
  <2>1. packet.kind \in Kinds
    BY DEF Receive!Content
  <2>2. Receive!Width(packet.kind) \in Nat
    BY <2>1 DEF Receive!ReceiveAssumption, Receive!Width
  <2>3. Len(clientSent) + 1 \in Nat /\ Len(clientSent) + 1 <= MaxPackets
    BY <1>1 DEF Buffers, Receive!ReceiveAssumption, Receive!ClientSends
  <2>4. \A j \in 1 .. Receive!Width(packet.kind) : <<Len(clientSent) + 1, j>> \in Bytes
    BY <2>2, <2>3 DEF Bytes
  <2>5. [j \in 1 .. Receive!Width(packet.kind) |-> <<Len(clientSent) + 1, j>>] \in Seq(Bytes)
    BY <2>2, <2>4
  <2>6. wire' \in Seq(Bytes)
    BY <1>1, <2>5 DEF Buffers, Receive!ClientSends
  <2>7. clientSent' \in Seq(Receive!Content) /\ Len(clientSent') <= MaxPackets
    BY <1>1, <2>3 DEF Buffers, Receive!ClientSends
  <2> QED
    BY <1>1, <2>6, <2>7 DEF Buffers, Receive!ClientSends
<1>2. CASE Receive!PostReceive
  BY <1>2, <1>0 DEF Receive!PostReceive, Buffers, Receives
<1>3. ASSUME NEW n \in 1 .. Capacity, Receive!Arrives(n) PROVE Buffers'
  <2>1. n \in 1 .. Len(wire) /\ op.at \in Nat /\ n <= Capacity - op.at /\ n \in Nat
    BY <1>3 DEF Receive!Arrives, Buffers, Receives
  <2>2. wire' \in Seq(Bytes)
    BY <1>3, <2>1 DEF Receive!Arrives, Buffers
  <2>3. ASSUME NEW i \in 1 .. Capacity,
        i \in op.at + 1 .. op.at + n PROVE wire[i - op.at] \in Bytes
    <3>1. i - op.at \in 1 .. Len(wire)
      BY <2>1, <2>3
    <3> QED
      BY <3>1 DEF Buffers
  <2>4. mem' \in [1 .. Capacity -> Bytes]
    BY <1>3, <2>3 DEF Receive!Arrives, Buffers
  <2>5. op' = [stage |-> "arrived", at |-> op.at, n |-> n]
    BY <1>3 DEF Receive!Arrives, Buffers, Receives
  <2>6. op' \in Receives /\ op'.at + op'.n <= Capacity
    BY <2>1, <2>5, <1>0 DEF Buffers, Receives
  <2> QED
    BY <1>3, <2>2, <2>4, <2>6 DEF Receive!Arrives, Buffers
<1>4. CASE Receive!HandleBegin
  <2>1. op.at = size /\ op.n \in Nat /\ size \in Nat /\ op.at + op.n <= Capacity
    BY <1>4 DEF Receive!HandleBegin, Receiving, Buffers, Receives
  <2>2. size' \in 0 .. Capacity
    BY <1>4, <1>0, <2>1 DEF Receive!HandleBegin
  <2>3. op' \in Receives /\ op'.at + op'.n <= Capacity
    BY <1>4, <1>0 DEF Receive!HandleBegin, Receive!NoReceive, Receives
  <2>4. handler' \in Handlers /\ handler'.cur <= size'
    BY <1>4, <1>0, <2>2 DEF Receive!HandleBegin, Handlers
  <2> QED
    BY <1>4, <2>2, <2>3, <2>4 DEF Receive!HandleBegin, Buffers
<1>5. CASE Receive!HandleOne
  <2>1. /\ handler.cur < size /\ size \in Nat /\ size <= Capacity /\ handler.cur \in Nat
        /\ handler.stage = "parse"
    BY <1>5, <1>0 DEF Receive!HandleOne, Buffers, Handlers
  <2>2. /\ Receive!AtCursor = <<Len(handled) + 1, 1>>
        /\ Len(handled) + 1 \in 1 .. Len(clientSent)
        /\ Size[Receive!KindAtCursor] \in Nat
    BY <2>1, CursorFacts
  <2>3. handler' = [stage |-> "parse", cur |-> handler.cur + Size[Receive!KindAtCursor]]
        /\ Size[Receive!KindAtCursor] <= size - handler.cur
    BY <1>5, <2>1 DEF Receive!HandleOne, Buffers, Handlers, Receive!Fits
  <2>4. handler' \in Handlers /\ handler'.cur <= size
    BY <2>1, <2>2, <2>3, <1>0 DEF Handlers
  <2>5. Receive!AtCursor \in Bytes
    BY <2>2 DEF Bytes
  <2>6. clientSent[Receive!AtCursor[1]] \in Receive!Content
    BY <2>2 DEF Buffers
  <2>7. player' \in Players
    BY <1>5, <2>6, PlayerStep DEF Receive!HandleOne, Buffers
  <2> QED
    BY <1>5, <2>4, <2>5, <2>7 DEF Receive!HandleOne, Buffers
<1>6. CASE Receive!HandleEnd
  <2>1. handler' = [stage |-> "pop", cur |-> handler.cur]
    BY <1>6 DEF Receive!HandleEnd, Buffers, Handlers
  <2>2. handler' \in Handlers /\ handler'.cur <= size
    BY <2>1 DEF Buffers, Handlers
  <2>3. err' \in {"success", "insufficient", "invalid"}
    BY <1>6 DEF Receive!HandleEnd, Buffers
  <2> QED
    BY <1>6, <2>2, <2>3 DEF Receive!HandleEnd, Buffers
<1>7. CASE Receive!Pop
  <2>1. size \in Nat /\ size <= Capacity /\ handler.cur \in Nat /\ handler.cur <= size
    BY <1>0 DEF Buffers, Handlers
  <2>2. ASSUME NEW i \in 1 .. Capacity,
        i <= size - handler.cur PROVE mem[i + handler.cur] \in Bytes
    <3>1. i + handler.cur \in 1 .. Capacity
      BY <2>1, <2>2, <1>0
    <3> QED
      BY <3>1 DEF Buffers
  <2>3. mem' \in [1 .. Capacity -> Bytes]
    BY <1>7, <2>2 DEF Receive!Pop, Receive!MovedAhead, Buffers
  <2>4. size' \in 0 .. Capacity
    BY <1>7, <2>1, <1>0 DEF Receive!Pop
  <2>5. handler' \in Handlers /\ handler'.cur <= size'
    BY <1>7, <2>4, <1>0 DEF Receive!Pop, Handlers
  <2> QED
    BY <1>7, <2>3, <2>4, <2>5 DEF Receive!Pop, Buffers
<1>8. CASE Receive!Complete
  <2>1. handler' \in Handlers /\ handler'.cur <= size'
    BY <1>8, <1>0 DEF Receive!Complete, Handlers, Buffers
  <2>2. err' \in {"success", "insufficient", "invalid"}
        /\ life' \in {"online", "leaving", "offline"}
    BY <1>8 DEF Receive!Complete, Receive!Disconnect, Buffers
  <2> QED
    BY <1>8, <2>1, <2>2 DEF Receive!Complete, Buffers
<1>9. CASE Receive!ReceiveFails
  <2>1. handler' \in Handlers /\ handler'.cur <= size'
    BY <1>9, <1>0 DEF Receive!ReceiveFails, Handlers, Buffers
  <2>2. op' \in Receives /\ op'.at + op'.n <= Capacity
    BY <1>9, <1>0 DEF Receive!ReceiveFails, Receive!NoReceive, Receives
  <2> QED
    BY <1>9, <2>1, <2>2 DEF Receive!ReceiveFails, Buffers
<1>10. CASE Receive!ReceiveEof
  <2>1. op' = [stage |-> "over", at |-> op.at, n |-> op.n]
    BY <1>10 DEF Receive!ReceiveEof, Buffers, Receives
  <2>2. op' \in Receives /\ op'.at + op'.n <= Capacity
    BY <2>1 DEF Buffers, Receives
  <2>3. life' \in {"online", "leaving", "offline"}
    BY <1>10 DEF Receive!ReceiveEof, Receive!Disconnect, Buffers
  <2> QED
    BY <1>10, <2>2, <2>3 DEF Receive!ReceiveEof, Buffers
<1>11. CASE Receive!Kicked
  <2>1. life' \in {"online", "leaving", "offline"}
    BY <1>11 DEF Receive!Kicked, Receive!Disconnect, Buffers
  <2> QED
    BY <1>11, <2>1 DEF Receive!Kicked, Buffers
<1>12. CASE Receive!TurnsOffline
  BY <1>12 DEF Receive!TurnsOffline, Buffers
<1> QED
  BY <1>1, <1>2, <1>3, <1>4, <1>5, <1>6, <1>7, <1>8, <1>9, <1>10, <1>11, <1>12
     DEF Receive!Next, Receive!Deliver, Receive!Handle

(* What a receive and its handler may count on. *)
LEMMA ReceivingStep ==
  ASSUME Receive!ReceiveAssumption, Buffers, Receiving, Streaming, Receive!Next
  PROVE  Receiving'
<1>0. /\ Capacity \in Nat /\ Room \in Nat /\ Room <= Capacity /\ size \in Nat
      /\ op.stage \in {"none", "posted", "arrived", "over"} /\ op.at \in Nat /\ op.n \in Nat
      /\ handler.stage \in {"idle", "parse", "pop", "popped"} /\ handler.cur \in Nat
      /\ handler.cur <= size
  BY DEF Receive!ReceiveAssumption, Buffers, Receives, Handlers
<1>1. ASSUME NEW packet \in Receive!Content, Receive!ClientSends(packet) PROVE Receiving'
  BY <1>1 DEF Receive!ClientSends, Receiving, Roomy
<1>2. CASE Receive!PostReceive
  BY <1>2, <1>0 DEF Receive!PostReceive, Receiving, Roomy
<1>3. ASSUME NEW n \in 1 .. Capacity, Receive!Arrives(n) PROVE Receiving'
  <2>1. op'.stage = "arrived" /\ op'.at = op.at /\ op.stage = "posted"
    BY <1>3 DEF Receive!Arrives, Buffers, Receives
  <2> QED
    BY <1>3, <2>1 DEF Receive!Arrives, Receiving, Roomy
<1>4. CASE Receive!HandleBegin
  BY <1>4 DEF Receive!HandleBegin, Receiving, Receive!NoReceive, Roomy
<1>5. CASE Receive!HandleOne
  <2>1. handler'.stage = "parse" /\ handler.stage = "parse"
    BY <1>5 DEF Receive!HandleOne, Buffers, Handlers
  <2> QED
    BY <1>5, <2>1 DEF Receive!HandleOne, Receiving
<1>6. CASE Receive!HandleEnd
  <2>1. handler'.stage = "pop" /\ handler'.cur = handler.cur /\ handler.stage = "parse"
    BY <1>6 DEF Receive!HandleEnd, Buffers, Handlers
  <2>2. err' # "invalid" => Roomy(size - handler.cur)
    <3>1. CASE handler.cur = size
      BY <3>1, <1>0 DEF Roomy
    <3>2. CASE handler.cur < size /\ ~Receive!Fits(Receive!KindAtCursor)
               /\ Size[Receive!KindAtCursor] > 0
      <4>1. Receive!KindAtCursor \in Kinds /\ Size[Receive!KindAtCursor] \in Nat
        BY <2>1, <3>2, CursorFacts
      <4>2. Size[Receive!KindAtCursor] - 1 + Room <= Capacity
        BY <3>2, <4>1 DEF Receive!ReceiveAssumption, Receive!Lengths
      <4>3. size - handler.cur < Size[Receive!KindAtCursor]
        BY <3>2, <4>1, <1>0 DEF Receive!Fits
      <4> QED
        BY <4>1, <4>2, <4>3, <1>0 DEF Roomy
    <3> QED
      BY <1>6, <3>1, <3>2 DEF Receive!HandleEnd
  <2>3. op.stage = "none" /\ busy
    BY <2>1, <1>0 DEF Receiving
  <2> QED
    BY <1>6, <2>1, <2>2, <2>3 DEF Receive!HandleEnd, Receiving, Roomy
<1>7. CASE Receive!Pop
  <2>1. /\ handler'.stage = "popped" /\ handler'.cur = 0 /\ handler.stage = "pop"
        /\ op'.stage = "none" /\ busy'
    BY <1>7, <1>0 DEF Receive!Pop, Receiving
  <2>2. err' # "invalid" => Roomy(size')
    BY <1>7 DEF Receive!Pop, Receiving
  <2> QED
    BY <2>1, <2>2 DEF Receiving, Roomy
<1>8. CASE Receive!Complete
  <2>1. /\ handler'.stage = "idle" /\ handler'.cur = 0 /\ op'.stage = "none"
        /\ op.stage = "none"
        /\ handler.stage = "popped" /\ UNCHANGED size
    BY <1>8, <1>0 DEF Receive!Complete, Receiving
  <2>2. err' # "invalid" => err # "invalid" /\ life' = life
    BY <1>8 DEF Receive!Complete
  <2> QED
    BY <2>1, <2>2 DEF Receiving, Roomy
<1>9. CASE Receive!ReceiveFails
  BY <1>9, <1>0 DEF Receive!ReceiveFails, Receiving, Receive!NoReceive, Roomy
<1>10. CASE Receive!ReceiveEof
  <2>1. op'.stage = "over" /\ op'.at = op.at /\ op.stage = "posted"
    BY <1>10 DEF Receive!ReceiveEof, Buffers, Receives
  <2> QED
    BY <1>10, <2>1 DEF Receive!ReceiveEof, Receiving, Roomy
<1>11. CASE Receive!Kicked
  BY <1>11 DEF Receive!Kicked, Receiving, Roomy
<1>12. CASE Receive!TurnsOffline
  BY <1>12 DEF Receive!TurnsOffline, Receiving, Roomy
<1> QED
  BY <1>1, <1>2, <1>3, <1>4, <1>5, <1>6, <1>7, <1>8, <1>9, <1>10, <1>11, <1>12
     DEF Receive!Next, Receive!Deliver, Receive!Handle

(* The stream stays where the cursor, the memory and the wire do. *)
LEMMA StreamStays ==
  ASSUME Streaming, Ahead' = Ahead, handler'.cur = handler.cur,
         UNCHANGED <<mem, wire, clientSent, handled>>
  PROVE  Streaming'
<1>1. Stream' = Stream /\ Widths' = Widths
  BY DEF Stream, Widths
<1> QED
  BY <1>1 DEF Streaming

(* ... or where the two of them read the same bytes. *)
LEMMA SameStream ==
  ASSUME Streaming, UNCHANGED <<clientSent, handled>>,
         Ahead' \in Nat, Len(wire)' \in Nat, Ahead \in Nat, Len(wire) \in Nat,
         Ahead' + Len(wire)' = Ahead + Len(wire),
         Stream \in Seq(Bytes), Stream' \in Seq(Bytes),
         Len(Stream) = Ahead + Len(wire), Len(Stream)' = Ahead' + Len(wire)',
         \A k \in 1 .. Ahead + Len(wire) : Stream'[k] = Stream[k]
  PROVE  Streaming'
<1>1. Len(Stream)' = Len(Stream)
  OBVIOUS
<1>2. \A k \in 1 .. Len(Stream) : Stream'[k] = Stream[k]
  OBVIOUS
<1>3. Stream' = Stream
  BY <1>1, <1>2, SMTT(60)
<1>4. Widths' = Widths
  BY DEF Widths
<1> QED
  BY <1>3, <1>4 DEF Streaming

(* The stream holds the packets that are sent, and loses those handled. *)
LEMMA StreamingStep ==
  ASSUME Receive!ReceiveAssumption, Buffers, Receiving, Streaming, Receive!Next, Buffers',
         Receiving'
  PROVE  Streaming'
<1>0. /\ Capacity \in Nat /\ size \in Nat /\ size <= Capacity /\ handler.cur \in Nat
      /\ handler.cur <= size /\ op.at \in Nat /\ op.n \in Nat
      /\ op.stage \in {"none", "posted", "arrived", "over"}
      /\ handler.stage \in {"idle", "parse", "pop", "popped"}
      /\ clientSent \in Seq(Receive!Content) /\ Len(clientSent) \in Nat
      /\ Len(handled) \in Nat
      /\ handled \in Seq(Bytes)
  BY DEF Receive!ReceiveAssumption, Buffers, Receives, Handlers
<1>s. /\ Stream \in Seq(Bytes) /\ Len(Stream) = Ahead + Len(wire)
      /\ Ahead \in Nat /\ Len(wire) \in Nat /\ handler.cur + Ahead <= Capacity
      /\ \A k \in 1 .. Ahead : Stream[k] = mem[handler.cur + k]
      /\ \A k \in 1 .. Len(wire) : Stream[Ahead + k] = wire[k]
  BY StreamFacts DEF StreamShape
<1>t. /\ Stream' \in Seq(Bytes) /\ Len(Stream)' = Ahead' + Len(wire)'
      /\ Ahead' \in Nat /\ Len(wire)' \in Nat
      /\ \A k \in 1 .. Ahead' : Stream'[k] = mem'[handler'.cur + k]
      /\ \A k \in 1 .. Len(wire)' : Stream'[Ahead' + k] = wire'[k]
  <2>1. StreamShape'
    BY StreamFacts, PTL
  <2> QED
    BY <2>1 DEF StreamShape
<1>1. ASSUME NEW packet \in Receive!Content, Receive!ClientSends(packet) PROVE Streaming'
  <2> DEFINE d == Receive!Width(packet.kind)
             new == [j \in 1 .. d |-> <<Len(clientSent) + 1, j>>]
  <2>1. packet.kind \in Kinds
    BY DEF Receive!Content
  <2>2. d \in Nat \ {0} /\ 1 \in 1 .. d
    BY <2>1 DEF Receive!ReceiveAssumption, Receive!Width
  <2>3. Len(clientSent) + 1 \in Nat
    BY <1>0
  <2>4. new \in Seq(Bytes) /\ Len(new) = d
    BY <2>2, <2>3 DEF Bytes
  <2>5. clientSent' = Append(clientSent, packet) /\ wire' = wire \o new /\ Ahead' = Ahead
        /\ UNCHANGED <<mem, handler, handled>>
    BY <1>1 DEF Receive!ClientSends, Ahead, Top
  <2>6. /\ Widths \in Seq(Nat \ {0}) /\ Len(Widths) = Len(clientSent)
        /\ \A i \in 1 .. Len(clientSent) : Widths[i] = Receive!Width(clientSent[i].kind)
    BY <1>0, WidthFacts DEF WidthShape
  <2>7. /\ Widths' \in Seq(Nat \ {0}) /\ Len(Widths)' = Len(clientSent)'
        /\ \A i \in 1 .. Len(clientSent)' : Widths'[i] = Receive!Width(clientSent'[i].kind)
    <3>1. (clientSent \in Seq(Receive!Content))'
      BY DEF Buffers
    <3>2. WidthShape'
      BY <3>1, WidthFacts, PTL
    <3> QED
      BY <3>2 DEF WidthShape
  <2>8. /\ Len(clientSent)' = Len(clientSent) + 1
        /\ clientSent'[Len(clientSent) + 1] = packet
        /\ \A i \in 1 .. Len(clientSent) : clientSent'[i] = clientSent[i]
    BY <2>5, <1>0
  <2> HIDE DEF d, new
  <2>9. Widths' = Append(Widths, d)
    <3>0. Append(Widths, d)[Len(Widths) + 1] = d
          /\ \A i \in 1 .. Len(Widths) : Append(Widths, d)[i] = Widths[i]
      BY <2>2, <2>6
    <3>1. Len(Widths)' = Len(Append(Widths, d)) /\ Append(Widths, d) \in Seq(Nat \ {0})
      BY <2>2, <2>6, <2>7, <2>8
    <3>2. ASSUME NEW i \in 1 .. Len(clientSent) + 1 PROVE Widths'[i] = Append(Widths, d)[i]
      <4>1. CASE i \in 1 .. Len(clientSent)
        <5>1. i \in 1 .. Len(clientSent)' /\ i \in 1 .. Len(Widths)
              /\ clientSent'[i] = clientSent[i]
          BY <4>1, <2>6, <2>8, <1>0
        <5>2. Widths'[i] = Receive!Width(clientSent[i].kind)
              /\ Widths[i] = Receive!Width(clientSent[i].kind)
          BY <5>1, <4>1, <2>6, <2>7
        <5> QED
          BY <5>1, <5>2, <3>0
      <4>2. CASE i = Len(clientSent) + 1
        <5>1. i \in 1 .. Len(clientSent)' /\ clientSent'[i] = packet
          BY <4>2, <2>8, <1>0
        <5>2. Widths'[i] = d
          BY <5>1, <2>7 DEF d
        <5> QED
          BY <5>2, <4>2, <3>0, <2>6
      <4>3. i \in 1 .. Len(clientSent) \/ i = Len(clientSent) + 1
        BY <1>0
      <4> QED
        BY <4>1, <4>2, <4>3
    <3>3. Widths' \in Seq(Nat \ {0}) /\ Len(Widths)' = Len(clientSent) + 1
      BY <2>7, <2>8
    <3> DEFINE v == Append(Widths, d)
    <3>4. v \in Seq(Nat \ {0}) /\ Len(v) = Len(clientSent) + 1
          /\ \A i \in 1 .. Len(clientSent) + 1 : Widths'[i] = v[i]
      BY <3>1, <3>2, <3>3
    <3> HIDE DEF v
    <3>5. Widths' = v
      BY <3>3, <3>4
    <3> QED
      BY <3>5 DEF v
  <2>10. Stream' = Stream \o new
    <3> DEFINE r == Stream \o new
    <3>1. /\ r \in Seq(Bytes) /\ Len(r) = Len(Stream) + d
          /\ \A k \in 1 .. Len(Stream) : r[k] = Stream[k]
          /\ \A m \in 1 .. d : r[Len(Stream) + m] = new[m]
      <4>1. Stream \in Seq(Bytes) /\ new \in Seq(Bytes)
        BY <1>s, <2>4
      <4>2. /\ r \in Seq(Bytes) /\ Len(r) = Len(Stream) + Len(new)
            /\ \A k \in 1 .. Len(Stream) : r[k] = Stream[k]
            /\ \A m \in 1 .. Len(new) : r[Len(Stream) + m] = new[m]
        BY <4>1, ConcatFacts
      <4> QED
        BY <4>2, <2>4
    <3>w. /\ Len(wire') = Len(wire) + d
          /\ \A k \in 1 .. Len(wire) : wire'[k] = wire[k]
          /\ \A m \in 1 .. d : wire'[Len(wire) + m] = new[m]
      <4>1. wire \in Seq(Bytes)
        BY DEF Buffers
      <4>2. new \in Seq(Bytes)
        BY <2>4
      <4>3. /\ Len(wire \o new) = Len(wire) + Len(new)
            /\ \A k \in 1 .. Len(wire) : (wire \o new)[k] = wire[k]
            /\ \A m \in 1 .. Len(new) : (wire \o new)[Len(wire) + m] = new[m]
        BY <4>1, <4>2, ConcatFacts
      <4> QED
        BY <4>3, <2>4, <2>5
    <3> HIDE DEF r
    <3>2. Len(Stream)' = Len(r)
      BY <3>1, <3>w, <1>s, <1>t, <2>2, <2>5
    <3>3. ASSUME NEW k \in 1 .. Ahead PROVE Stream'[k] = r[k]
      <4>1. k \in 1 .. Len(Stream)
        BY <1>s
      <4> QED
        BY <4>1, <3>1, <1>s, <1>t, <2>5
    <3>4. ASSUME NEW k \in 1 .. Len(wire) PROVE Stream'[Ahead + k] = r[Ahead + k]
      <4>1. Ahead + k \in 1 .. Len(Stream) /\ k \in 1 .. Len(wire')
        BY <1>s, <3>w, <2>2
      <4> QED
        BY <4>1, <3>1, <3>w, <1>s, <1>t, <2>5
    <3>5. ASSUME NEW m \in 1 .. d
          PROVE Stream'[Len(Stream) + m] = r[Len(Stream) + m]
      <4>1. Len(wire) + m \in 1 .. Len(wire') /\ Len(Stream) + m = Ahead + (Len(wire) + m)
        BY <1>s, <3>w, <2>2
      <4>2. Stream'[Ahead + (Len(wire) + m)] = wire'[Len(wire) + m]
        BY <4>1, <1>t, <2>5
      <4> QED
        BY <4>1, <4>2, <3>1, <3>w
    <3>6. ASSUME NEW k \in 1 .. Len(r) PROVE Stream'[k] = r[k]
      <4>1. k \in Nat /\ Len(r) = Ahead + Len(wire) + d
        BY <3>1, <1>s
      <4>2. CASE k <= Ahead
        BY <4>1, <4>2, <3>3
      <4>3. CASE k > Ahead /\ k <= Len(Stream)
        <5>1. PICK m \in 1 .. Len(wire) : k = Ahead + m
          <6>1. k - Ahead \in 1 .. Len(wire) /\ k = Ahead + (k - Ahead)
            BY <4>1, <4>3, <1>s
          <6> QED
            BY <6>1
        <5> QED
          BY <5>1, <3>4
      <4>4. CASE k > Len(Stream)
        <5>1. PICK m \in 1 .. d : k = Len(Stream) + m
          <6>1. k - Len(Stream) \in 1 .. d /\ k = Len(Stream) + (k - Len(Stream))
            BY <4>1, <4>4, <1>s, <3>1, <2>2
          <6> QED
            BY <6>1
        <5> QED
          BY <5>1, <3>5
      <4> QED
        BY <4>1, <4>2, <4>3, <4>4, <1>s
    <3>7. Stream' = r
      BY <3>1, <3>2, <3>6, <1>t
    <3> QED
      BY <3>7 DEF r
  <2>11. Packets(Stream \o new, Append(Widths, d), Len(handled) + 1)
    <3>1. Packets(Stream, Widths, Len(handled) + 1) /\ Len(handled) + 1 \in Nat
      BY <1>0 DEF Streaming
    <3>2. Packets(Stream \o [j \in 1 .. d |-> <<Len(Widths) + 1, j>>], Append(Widths, d),
                  Len(handled) + 1)
      BY <3>1, <1>s, <2>2, <2>6, AddPacket
    <3> QED
      BY <3>2, <2>6 DEF new
  <2>12. \A k \in 1 .. Len(handled) : handled[k] = <<k, 1>> /\ Size[clientSent'[k].kind] > 0
    <3>1. \A k \in 1 .. Len(handled) : k \in 1 .. Len(clientSent)
      BY <1>0 DEF Streaming
    <3> QED
      BY <3>1, <2>8 DEF Streaming
  <2>13. Len(handled) <= Len(clientSent)'
    BY <2>8, <1>0 DEF Streaming
  <2> QED
    BY <2>5, <2>9, <2>10, <2>11, <2>12, <2>13 DEF Streaming
<1>2. CASE Receive!PostReceive
  <2>1. op.stage = "none" /\ handler.stage = "idle"
    BY <1>2, <1>0 DEF Receive!PostReceive, Receiving
  <2>2. Ahead' = Ahead
    BY <1>2, <2>1 DEF Receive!PostReceive, Ahead, Top
  <2> QED
    BY <1>2, <2>2, StreamStays DEF Receive!PostReceive
<1>3. ASSUME NEW n \in 1 .. Capacity, Receive!Arrives(n) PROVE Streaming'
  <2>1. /\ op.stage = "posted" /\ handler.stage = "idle" /\ op.at = size /\ handler.cur = 0
        /\ n \in 1 .. Len(wire) /\ n <= Capacity - op.at /\ n \in Nat
        /\ op'.stage = "arrived" /\ op'.at = size /\ op'.n = n
        /\ UNCHANGED <<size, handler, clientSent, handled>>
        /\ wire' = SubSeq(wire, n + 1, Len(wire))
        /\ mem' = [i \in 1 .. Capacity |-> IF i \in op.at + 1 .. op.at + n
                                           THEN wire[i - op.at] ELSE mem[i]]
    BY <1>3, <1>0 DEF Receive!Arrives, Receiving, Buffers, Receives
  <2>2. Ahead = size /\ Ahead' = size + n
    BY <2>1, <1>0 DEF Ahead, Top
  <2>3. Len(wire') = Len(wire) - n /\ \A k \in 1 .. Len(wire') : wire'[k] = wire[n + k]
    <3>1. wire \in Seq(Bytes)
      BY DEF Buffers
    <3>2. Len(wire') = Len(wire) - n
      BY <3>1, <2>1, <1>s
    <3>3. ASSUME NEW k \in 1 .. Len(wire') PROVE wire'[k] = wire[n + k]
      <4>1. k \in 1 .. Len(wire) - n
        BY <3>2
      <4>2. (n + 1) + k - 1 = n + k
        BY <4>1, <2>1
      <4> QED
        BY <3>1, <4>1, <4>2, <2>1, <1>s
    <3> QED
      BY <3>2, <3>3
  <2>4. ASSUME NEW k \in 1 .. size PROVE Stream'[k] = Stream[k]
    <3>1. k \in 1 .. Ahead /\ k \in 1 .. Ahead' /\ k \in 1 .. Capacity /\ 0 + k = k
          /\ ~(k \in op.at + 1 .. op.at + n)
      BY <2>1, <2>2, <1>0
    <3>2. mem'[k] = mem[k]
      BY <3>1, <2>1
    <3> QED
      BY <3>1, <3>2, <2>1, <1>s, <1>t
  <2>5. ASSUME NEW k \in 1 .. n PROVE Stream'[size + k] = Stream[size + k]
    <3>1. PICK i \in 1 .. Ahead' : i = size + k
      BY <2>1, <2>2, <1>0
    <3>2. i \in 1 .. Capacity /\ i \in op.at + 1 .. op.at + n /\ i - op.at = k /\ 0 + i = i
      BY <3>1, <2>1, <1>0
    <3>3. mem'[i] = wire[k]
      BY <3>2, <2>1
    <3>4. Stream'[i] = wire[k]
      BY <3>2, <3>3, <2>1, <1>t
    <3>5. k \in 1 .. Len(wire)
      BY <2>1, <1>s
    <3>6. Stream[Ahead + k] = wire[k]
      BY <3>5, <1>s
    <3> QED
      BY <3>1, <3>4, <3>6, <2>2
  <2>6. ASSUME NEW k \in 1 .. Len(wire')
        PROVE Stream'[(size + n) + k] = Stream[(size + n) + k]
    <3>1. n + k \in 1 .. Len(wire) /\ Ahead + (n + k) = (size + n) + k
      BY <2>1, <2>2, <2>3, <1>0, <1>s
    <3>2. Stream[Ahead + (n + k)] = wire[n + k]
      BY <3>1, <1>s
    <3>3. Stream'[Ahead' + k] = wire'[k]
      BY <1>t
    <3> QED
      BY <3>1, <3>2, <3>3, <2>2, <2>3
  <2>7. ASSUME NEW k \in 1 .. Ahead + Len(wire) PROVE Stream'[k] = Stream[k]
    <3>1. k \in Nat /\ size \in Nat /\ n \in Nat /\ k <= size + Len(wire)
          /\ Len(wire) = Len(wire') + n
      BY <2>1, <2>2, <2>3, <1>0, <1>s
    <3>2. CASE k <= size
      BY <3>1, <3>2, <2>4
    <3>3. CASE k > size /\ k <= size + n
      <4>1. k - size \in 1 .. n /\ k = size + (k - size)
        BY <3>1, <3>3
      <4> QED
        BY <4>1, <2>5
    <3>4. CASE k > size + n
      <4>1. k - (size + n) \in 1 .. Len(wire') /\ k = (size + n) + (k - (size + n))
        BY <3>1, <3>4, <1>t
      <4> QED
        BY <4>1, <2>6
    <3> QED
      BY <3>1, <3>2, <3>3, <3>4
  <2>8. Ahead' + Len(wire)' = Ahead + Len(wire)
    <3>1. Ahead' = size + n /\ Len(wire)' = Len(wire) - n /\ Ahead = size
      BY <2>2, <2>3
    <3>2. n \in Nat /\ size \in Nat /\ Len(wire) \in Nat
      BY <1>0, <1>s
    <3> QED
      BY <3>1, <3>2
  <2> QED
    BY <2>1, <2>7, <2>8, <1>s, <1>t, SameStream
<1>4. CASE Receive!HandleBegin
  <2>1. /\ op.stage = "arrived" /\ op.at = size /\ handler.cur = 0 /\ size' = size + op.n
        /\ op'.stage = "none" /\ handler'.cur = 0
    BY <1>4 DEF Receive!HandleBegin, Receiving, Receive!NoReceive
  <2>2. Ahead' = Ahead
    BY <2>1 DEF Ahead, Top
  <2> QED
    BY <1>4, <2>1, <2>2, StreamStays DEF Receive!HandleBegin
<1>5. CASE Receive!HandleOne
  <2> DEFINE f == Len(handled) + 1
  <2>1. handler.stage = "parse" /\ handler.cur < size
    BY <1>5 DEF Receive!HandleOne
  <2>2. /\ op.stage = "none" /\ Ahead = size - handler.cur /\ Stream # <<>>
        /\ Receive!AtCursor = <<f, 1>> /\ f \in 1 .. Len(clientSent)
        /\ Receive!KindAtCursor = clientSent[f].kind
        /\ Size[Receive!KindAtCursor] \in Nat
        /\ Widths[f] = Receive!Width(Receive!KindAtCursor)
    BY <2>1, CursorFacts
  <2> DEFINE d == Size[Receive!KindAtCursor]
  <2>3. d \in Nat /\ d > 0 /\ Widths[f] = d
    BY <1>5, <2>2 DEF Receive!HandleOne, Receive!Width
  <2>4. /\ handler'.cur = handler.cur + d /\ d <= size - handler.cur
        /\ handled' = Append(handled, <<f, 1>>)
        /\ UNCHANGED <<op, size, mem, wire, clientSent>>
    BY <1>5, <2>2 DEF Receive!HandleOne, Buffers, Handlers, Receive!Fits
  <2> HIDE DEF d
  <2>5. Ahead' = Ahead - d
    BY <2>2, <2>3, <2>4, <1>0 DEF Ahead, Top
  <2>6. f \in Nat /\ Packets(Stream, Widths, f) /\ Widths \in Seq(Nat \ {0})
    BY <1>0, WidthFacts DEF WidthShape, Streaming
  <2>7. Packets([k \in 1 .. Len(Stream) - d |-> Stream[k + d]], Widths, f + 1)
    BY <1>s, <2>2, <2>3, <2>6, DropPacket
  <2>8. ASSUME NEW k \in 1 .. Len(Stream) - d PROVE Stream'[k] = Stream[k + d]
    <3>1. k \in Nat /\ Len(Stream) = Ahead + Len(wire) /\ Ahead' = Ahead - d
      BY <1>s, <2>3, <2>5
    <3>2. CASE k <= Ahead'
      <4>1. k \in 1 .. Ahead' /\ k + d \in 1 .. Ahead
            /\ handler'.cur + k = handler.cur + (k + d)
        BY <3>1, <3>2, <2>3, <2>4, <1>0, <1>s, <1>t
      <4>2. Stream'[k] = mem[handler'.cur + k]
        BY <4>1, <1>t, <2>4
      <4>3. Stream[k + d] = mem[handler.cur + (k + d)]
        BY <4>1, <1>s
      <4> QED
        BY <4>1, <4>2, <4>3
    <3>3. CASE k > Ahead'
      <4>1. PICK m \in 1 .. Len(wire) : k = Ahead' + m
        <5>1. k - Ahead' \in 1 .. Len(wire) /\ k = Ahead' + (k - Ahead')
          BY <3>1, <3>3, <2>3, <1>s, <1>t
        <5> QED
          BY <5>1
      <4>2. k + d = Ahead + m
        BY <4>1, <3>1, <2>3, <1>s
      <4>3. Stream'[Ahead' + m] = wire[m]
        BY <1>t, <2>4
      <4>4. Stream[Ahead + m] = wire[m]
        BY <1>s
      <4> QED
        BY <4>1, <4>2, <4>3, <4>4
    <3> QED
      BY <3>1, <3>2, <3>3, <1>t
  <2>9. Len(Stream)' = Len(Stream) - d /\ Len(Stream) - d \in Nat
    <3>1. Len(Stream)' = (Ahead - d) + Len(wire)
      BY <1>t, <2>4, <2>5
    <3> QED
      BY <3>1, <1>s, <1>t, <2>3, <2>5
  <2>10. Stream' = [k \in 1 .. Len(Stream) - d |-> Stream[k + d]]
    BY <2>8, <2>9, <1>t
  <2>11. Widths' = Widths
    BY <2>4 DEF Widths
  <2>12. Len(handled)' = f /\ handled'[f] = <<f, 1>>
         /\ \A k \in 1 .. Len(handled) : handled'[k] = handled[k]
    <3>1. <<f, 1>> \in Bytes
      BY <2>6 DEF Bytes
    <3> QED
      BY <3>1, <2>4, <1>0
  <2>13. \A k \in 1 .. f : handled'[k] = <<k, 1>> /\ Size[clientSent[k].kind] > 0
    <3> SUFFICES ASSUME NEW k \in 1 .. f PROVE handled'[k] = <<k, 1>>
                        /\ Size[clientSent[k].kind] > 0
      OBVIOUS
    <3>1. CASE k = f
      BY <3>1, <2>2, <2>3, <2>12 DEF d
    <3>2. CASE k \in 1 .. Len(handled)
      BY <3>2, <2>12 DEF Streaming
    <3> QED
      BY <3>1, <3>2, <1>0
  <2>14. f <= Len(clientSent)
    BY <2>2, <1>0
  <2> QED
    BY <2>4, <2>7, <2>10, <2>11, <2>12, <2>13, <2>14 DEF Streaming
<1>6. CASE Receive!HandleEnd
  <2>1. handler'.cur = handler.cur
    BY <1>6 DEF Receive!HandleEnd, Buffers, Handlers
  <2>2. Ahead' = Ahead
    BY <1>6, <2>1 DEF Receive!HandleEnd, Ahead, Top
  <2> QED
    BY <1>6, <2>1, <2>2, StreamStays DEF Receive!HandleEnd
<1>7. CASE Receive!Pop
  <2>1. op.stage = "none" /\ handler'.cur = 0 /\ size' = size - handler.cur
        /\ UNCHANGED <<op, wire, clientSent, handled>>
        /\ mem' = [i \in 1 .. Capacity |-> IF i <= size - handler.cur THEN mem[i + handler.cur]
                                           ELSE mem[i]]
    BY <1>7, <1>0 DEF Receive!Pop, Receiving, Receive!MovedAhead
  <2>2. Ahead = size - handler.cur /\ Ahead' = Ahead
    BY <2>1, <1>0 DEF Ahead, Top
  <2>3. ASSUME NEW k \in 1 .. Ahead PROVE Stream'[k] = Stream[k]
    <3>1. k \in 1 .. Capacity /\ 0 + k = k /\ k <= size - handler.cur
          /\ k + handler.cur = handler.cur + k /\ k \in 1 .. Ahead'
      BY <2>2, <1>0
    <3>2. mem'[k] = mem[handler.cur + k]
      BY <3>1, <2>1
    <3>3. Stream'[k] = mem'[0 + k]
      BY <3>1, <2>1, <1>t
    <3> QED
      BY <3>1, <3>2, <3>3, <1>s
  <2>4. ASSUME NEW k \in 1 .. Len(wire) PROVE Stream'[Ahead + k] = Stream[Ahead + k]
    BY <2>1, <2>2, <1>s, <1>t
  <2>5. ASSUME NEW k \in 1 .. Ahead + Len(wire) PROVE Stream'[k] = Stream[k]
    <3>1. k \in Nat
      BY <1>s
    <3>2. CASE k <= Ahead
      BY <3>1, <3>2, <2>3, <1>s
    <3>3. CASE k > Ahead
      <4>1. k - Ahead \in 1 .. Len(wire) /\ k = Ahead + (k - Ahead)
        BY <3>1, <3>3, <1>s
      <4> QED
        BY <4>1, <2>4
    <3> QED
      BY <3>1, <3>2, <3>3, <1>s
  <2> QED
    BY <2>1, <2>2, <2>5, <1>s, <1>t, SameStream
<1>8. CASE Receive!Complete
  <2>1. handler.cur = 0 /\ handler'.cur = 0
    BY <1>8 DEF Receive!Complete, Receiving
  <2>2. Ahead' = Ahead
    BY <1>8, <2>1 DEF Receive!Complete, Ahead, Top
  <2> QED
    BY <1>8, <2>1, <2>2, StreamStays DEF Receive!Complete
<1>9. CASE Receive!ReceiveFails
  <2>1. handler.cur = 0 /\ handler'.cur = 0 /\ op.stage = "posted" /\ op'.stage = "none"
    BY <1>9 DEF Receive!ReceiveFails, Receiving, Receive!NoReceive
  <2>2. Ahead' = Ahead
    BY <1>9, <2>1 DEF Receive!ReceiveFails, Ahead, Top
  <2> QED
    BY <1>9, <2>1, <2>2, StreamStays DEF Receive!ReceiveFails
<1>10. CASE Receive!ReceiveEof
  <2>1. op.stage = "posted" /\ op'.stage = "over"
    BY <1>10 DEF Receive!ReceiveEof, Buffers, Receives
  <2>2. Ahead' = Ahead
    BY <1>10, <2>1 DEF Receive!ReceiveEof, Ahead, Top
  <2> QED
    BY <1>10, <2>2, StreamStays DEF Receive!ReceiveEof
<1>11. CASE Receive!Kicked
  <2>1. Ahead' = Ahead
    BY <1>11 DEF Receive!Kicked, Ahead, Top
  <2> QED
    BY <1>11, <2>1, StreamStays DEF Receive!Kicked
<1>12. CASE Receive!TurnsOffline
  <2>1. Ahead' = Ahead
    BY <1>12 DEF Receive!TurnsOffline, Ahead, Top
  <2> QED
    BY <1>12, <2>1, StreamStays DEF Receive!TurnsOffline
<1> QED
  BY <1>1, <1>2, <1>3, <1>4, <1>5, <1>6, <1>7, <1>8, <1>9, <1>10, <1>11, <1>12
     DEF Receive!Next, Receive!Deliver, Receive!Handle

----------------------------------------------------------------------------
(* The count of the extension entries still to come.                       *)
Residue(x) == IF x < 0 THEN x + CountMod ELSE x

(* Counting modulo CountMod, within one turn of the counter. *)
LEMMA ResidueFacts ==
  ASSUME CountMod \in Nat \ {0}, NEW x \in Int, 0 - CountMod < x, x < CountMod
  PROVE  /\ x % CountMod = Residue(x) /\ Residue(x) \in 0 .. CountMod - 1
         /\ Residue(x) = 0 <=> x = 0
<1> DEFINE m == CountMod
           p == x \div m
           r == x % m
<1>m. m \in Nat \ {0}
  OBVIOUS
<1>1. p \in Int /\ r \in 0 .. m - 1 /\ x = m * p + r
  BY <1>m
<1>b. 0 - m < x /\ x < m
  OBVIOUS
<1> HIDE DEF m, p, r
<1>2. p >= 1 => m * p >= m
  BY <1>m, <1>1
<1>3. p <= -2 => m * p <= 0 - m - m
  BY <1>m, <1>1
<1>4. p \in {-1, 0}
  BY <1>m, <1>1, <1>2, <1>3, <1>b
<1>5. r = IF x < 0 THEN x + m ELSE x
  <2>1. CASE p = 0
    BY <2>1, <1>m, <1>1
  <2>2. CASE p = -1
    <3>1. m * p = 0 - m
      BY <2>2, <1>m
    <3> QED
      BY <3>1, <1>m, <1>1
  <2> QED
    BY <1>4, <2>1, <2>2
<1>6. r = Residue(x)
  BY <1>5 DEF Residue, m
<1>7. r = 0 <=> x = 0
  BY <1>5, <1>m, <1>b
<1> QED
  BY <1>1, <1>6, <1>7 DEF m, r

(* Counting down, past zero too. *)
LEMMA ResidueDown ==
  ASSUME CountMod \in Nat \ {0}, NEW x \in Int, 0 - CountMod < x - 1, x < CountMod
  PROVE  (Residue(x) - 1) % CountMod = Residue(x - 1)
<1>1. PICK y \in Int : y = Residue(x) - 1
  BY DEF Residue
<1>2. 0 - CountMod < y /\ y < CountMod /\ Residue(y) = Residue(x - 1)
  BY <1>1 DEF Residue
<1> QED
  BY <1>1, <1>2, ResidueFacts

(* q are the packets sent, of which the first n have been handled.         *)
Entered(q, b, n) == {k \in b + 1 .. n : q[k].kind = "entry"}

(* b is the last packet that set the count.                                *)
Base(q, b, n) ==
    /\ b \in 1 .. n /\ q[b].kind \in {"hello", "info"}
    /\ \A k \in b + 1 .. n : q[k].kind \notin {"hello", "info"}
    /\ \E h \in 1 .. b : q[h].kind = "hello"

Worth(q, b) == IF q[b].kind = "info" THEN q[b].count ELSE 0
Left(q, b, n) == Worth(q, b) - Cardinality(Entered(q, b, n))

(* As many entries have come as were announced.                            *)
AllCame(q, i, n) ==
    /\ q[i].kind = "info" /\ q[i].count > 0
    /\ \E h \in 1 .. i : q[h].kind = "hello"
    /\ \A h \in i .. n : q[h].kind # "hello"
    /\ \E j \in i .. n : /\ \A k \in i + 1 .. j : q[k].kind # "info"
                         /\ Cardinality(Entered(q, i, j)) = q[i].count
SyncedBy(q, n) == \E i \in 1 .. n : AllCame(q, i, n)

Counted(q, n, pl) ==
    /\ pl.known <=> \E h \in 1 .. n : q[h].kind = "hello"
    /\ pl.known => \E b \in 1 .. n : Base(q, b, n) /\ pl.pending = Residue(Left(q, b, n))
    /\ pl.synced <=> SyncedBy(q, n)

(* The entries among the packets handled. *)
LEMMA EnteredFacts ==
  ASSUME NEW q, NEW b \in Nat, NEW n \in Nat, b <= n
  PROVE  /\ Cardinality(Entered(q, b, n)) \in Nat
         /\ Cardinality(Entered(q, b, n)) <= n - b
         /\ q[n + 1].kind = "entry" =>
              Cardinality(Entered(q, b, n + 1)) = Cardinality(Entered(q, b, n)) + 1
         /\ q[n + 1].kind # "entry" => Entered(q, b, n + 1) = Entered(q, b, n)
         /\ Cardinality(Entered(q, n, n)) = 0
<1>1. IsFiniteSet(b + 1 .. n) /\ Cardinality(b + 1 .. n) = n - b
  <2>1. PICK c \in Int : c = b + 1
    OBVIOUS
  <2>2. /\ IsFiniteSet(c .. n)
        /\ Cardinality(c .. n) = IF c > n THEN 0 ELSE n - c + 1
    BY FS_Interval
  <2>3. (IF c > n THEN 0 ELSE n - c + 1) = n - b
    BY <2>1
  <2> QED
    BY <2>1, <2>2, <2>3
<1>2. Entered(q, b, n) \subseteq b + 1 .. n
  BY DEF Entered
<1>3. /\ IsFiniteSet(Entered(q, b, n)) /\ Cardinality(Entered(q, b, n)) <= n - b
      /\ Cardinality(Entered(q, b, n)) \in Nat
  BY <1>1, <1>2, FS_Subset, FS_CardinalityType
<1>4. n + 1 \notin Entered(q, b, n)
  BY <1>2
<1>5. ASSUME q[n + 1].kind = "entry"
      PROVE  Cardinality(Entered(q, b, n + 1)) = Cardinality(Entered(q, b, n)) + 1
  <2>1. Entered(q, b, n + 1) = Entered(q, b, n) \cup {n + 1}
    BY <1>5 DEF Entered
  <2> QED
    BY <2>1, <1>3, <1>4, FS_AddElement
<1>6. ASSUME q[n + 1].kind # "entry" PROVE Entered(q, b, n + 1) = Entered(q, b, n)
  BY <1>6 DEF Entered
<1>7. Cardinality(Entered(q, n, n)) = 0
  <2>1. Entered(q, n, n) = {}
    BY DEF Entered
  <2> QED
    BY <2>1, FS_EmptySet
<1> QED
  BY <1>3, <1>5, <1>6, <1>7

(* A packet that is no entry and no handshake changes nothing about it.    *)
LEMMA SyncedStays ==
  ASSUME NEW q, NEW n \in Nat, q[n + 1].kind \notin {"hello", "entry"}
  PROVE  SyncedBy(q, n + 1) <=> SyncedBy(q, n)
<1>1. ASSUME NEW i \in 1 .. n, AllCame(q, i, n) PROVE AllCame(q, i, n + 1)
  <2>1. \A h \in i .. n + 1 : h \in i .. n \/ h = n + 1
    OBVIOUS
  <2>2. \A j \in i .. n : j \in i .. n + 1
    OBVIOUS
  <2> QED
    BY <1>1, <2>1, <2>2 DEF AllCame
<1>2. ASSUME NEW i \in 1 .. n + 1, AllCame(q, i, n + 1) PROVE SyncedBy(q, n)
  <2>1. PICK j \in i .. n + 1 : /\ \A k \in i + 1 .. j : q[k].kind # "info"
                                /\ Cardinality(Entered(q, i, j)) = q[i].count
    BY <1>2 DEF AllCame
  <2>2. i # n + 1
    <3> SUFFICES ASSUME i = n + 1 PROVE FALSE
      OBVIOUS
    <3>1. j = n + 1 /\ n + 1 \in Nat
      BY <2>1
    <3>2. Cardinality(Entered(q, n + 1, n + 1)) = 0
      BY <3>1, EnteredFacts
    <3> QED
      BY <1>2, <2>1, <3>1, <3>2 DEF AllCame
  <2>3. i \in 1 .. n /\ i \in Nat /\ i <= n
    BY <2>2
  <2>4. \E l \in i .. n : /\ \A k \in i + 1 .. l : q[k].kind # "info"
                          /\ Cardinality(Entered(q, i, l)) = q[i].count
    <3>1. CASE j \in i .. n
      BY <3>1, <2>1
    <3>2. CASE j = n + 1
      <4>1. Entered(q, i, n + 1) = Entered(q, i, n)
        BY <2>3, EnteredFacts
      <4>2. n \in i .. n /\ \A k \in i + 1 .. n : k \in i + 1 .. j
        BY <2>3, <3>2
      <4> QED
        BY <2>1, <3>2, <4>1, <4>2
    <3> QED
      BY <3>1, <3>2, <2>3
  <2>5. \A h \in i .. n : h \in i .. n + 1
    OBVIOUS
  <2>6. AllCame(q, i, n)
    BY <1>2, <2>4, <2>5 DEF AllCame
  <2> QED
    BY <2>3, <2>6 DEF SyncedBy
<1>3. \A i \in 1 .. n : i \in 1 .. n + 1
  OBVIOUS
<1> QED
  BY <1>1, <1>2, <1>3 DEF SyncedBy

(* An entry may be the last of those that the base announced.              *)
LEMMA SyncedByEntry ==
  ASSUME NEW q, NEW n \in Nat, q[n + 1].kind = "entry", NEW b \in 1 .. n, Base(q, b, n)
  PROVE  SyncedBy(q, n + 1) <=>
           \/ SyncedBy(q, n)
           \/ /\ q[b].kind = "info" /\ q[b].count > 0
              /\ Cardinality(Entered(q, b, n)) + 1 = q[b].count
<1>b. b \in Nat /\ b <= n
  OBVIOUS
<1>e. Cardinality(Entered(q, b, n + 1)) = Cardinality(Entered(q, b, n)) + 1
  BY <1>b, EnteredFacts
<1>1. ASSUME NEW i \in 1 .. n, AllCame(q, i, n) PROVE AllCame(q, i, n + 1)
  <2>1. \A h \in i .. n + 1 : h \in i .. n \/ h = n + 1
    OBVIOUS
  <2>2. \A j \in i .. n : j \in i .. n + 1
    OBVIOUS
  <2> QED
    BY <1>1, <2>1, <2>2 DEF AllCame
<1>2. ASSUME q[b].kind = "info", q[b].count > 0,
             Cardinality(Entered(q, b, n)) + 1 = q[b].count
      PROVE  AllCame(q, b, n + 1)
  <2>1. \A h \in b .. n + 1 : h \in b + 1 .. n \/ h = n + 1 \/ h = b
    BY <1>b
  <2>2. \A h \in b .. n + 1 : q[h].kind # "hello"
    BY <2>1, <1>2 DEF Base
  <2>3. n + 1 \in b .. n + 1 /\ \A k \in b + 1 .. n + 1 : k \in b + 1 .. n \/ k = n + 1
    BY <1>b
  <2>4. \A k \in b + 1 .. n + 1 : q[k].kind # "info"
    BY <2>3 DEF Base
  <2> QED
    BY <1>2, <1>e, <2>2, <2>3, <2>4 DEF AllCame, Base
<1>3. ASSUME NEW i \in 1 .. n + 1, AllCame(q, i, n + 1)
      PROVE  \/ AllCame(q, i, n) /\ i \in 1 .. n
             \/ /\ q[b].kind = "info" /\ q[b].count > 0
                /\ Cardinality(Entered(q, b, n)) + 1 = q[b].count
  <2>1. PICK j \in i .. n + 1 : /\ \A k \in i + 1 .. j : q[k].kind # "info"
                                /\ Cardinality(Entered(q, i, j)) = q[i].count
    BY <1>3 DEF AllCame
  <2>2. i \in 1 .. n /\ i \in Nat /\ i <= n
    BY <1>3 DEF AllCame
  <2>3. \A h \in i .. n : q[h].kind # "hello"
    BY <1>3 DEF AllCame
  <2>4. CASE j \in i .. n
    BY <2>1, <2>2, <2>3, <2>4, <1>3 DEF AllCame
  <2>5. CASE j = n + 1
    <3>1. \A k \in i + 1 .. n : k \in i + 1 .. j /\ k \in i .. n
      BY <2>2, <2>5
    <3>2. ~(b > i)
      <4> SUFFICES ASSUME b > i PROVE FALSE
        OBVIOUS
      <4>1. b \in i + 1 .. n
        BY <1>b, <2>2
      <4> QED
        BY <4>1, <3>1, <2>1, <2>3 DEF Base
    <3>3. ~(b < i)
      <4> SUFFICES ASSUME b < i PROVE FALSE
        OBVIOUS
      <4>1. i \in b + 1 .. n
        BY <1>b, <2>2
      <4> QED
        BY <4>1, <1>3 DEF Base, AllCame
    <3>4. b = i
      BY <3>2, <3>3, <1>b, <2>2
    <3> QED
      BY <3>4, <2>1, <2>5, <1>3, <1>e DEF AllCame
  <2> QED
    BY <2>2, <2>4, <2>5
<1>4. \A i \in 1 .. n : i \in 1 .. n + 1
  OBVIOUS
<1> QED
  BY <1>1, <1>2, <1>3, <1>4 DEF SyncedBy

(* What the handler of packet n + 1 makes of the player.                   *)
LEMMA CountStep ==
  ASSUME Receive!ReceiveAssumption, Receive!CountsFit, player \in Players,
         NEW q \in Seq(Receive!Content),
         NEW n \in Nat, n < Len(q), Len(q) <= MaxPackets, Counted(q, n, player)
  PROVE  Counted(q, n + 1, Receive!HandlePacket(q[n + 1]))
<1> DEFINE c == q[n + 1]
<1>0. /\ CountMod \in Nat \ {0} /\ MaxPackets \in Nat /\ Counts \subseteq Int
      /\ Len(q) \in Nat /\ n + 1 \in Nat /\ n + 1 \in 1 .. n + 1 /\ n + 1 <= MaxPackets
  BY DEF Receive!ReceiveAssumption
<1>1. \A i \in 1 .. n + 1 : q[i] \in Receive!Content
  BY <1>0
<1>2. \A p \in Receive!Content : /\ p.kind = "info" => p.count \in Counts
                                 /\ p.kind # "info" => p.count = 0
  BY DEF Receive!Content
<1>3. ASSUME NEW p \in Counts \cup {0}
      PROVE p \in Int /\ MaxPackets - CountMod < p /\ p < CountMod
  BY <1>0, <1>3 DEF Receive!CountsFit
<1>4. \A i \in 1 .. n : i \in 1 .. n + 1 /\ i \in Nat /\ i <= n
  BY <1>0
<1>5. \A i \in 1 .. n + 1 : i \in 1 .. n \/ i = n + 1
  BY <1>0
<1>6. ~(\E k \in n + 2 .. n + 1 : TRUE)
  BY <1>0
<1>7. Cardinality(Entered(q, n + 1, n + 1)) = 0
  BY <1>0, EnteredFacts
<1>8. player.known \in BOOLEAN /\ player.synced \in BOOLEAN
  BY DEF Players
<1>9. player.pending \in 0 .. CountMod - 1
  BY DEF Players
<1>a. player.known <=> \E h \in 1 .. n : q[h].kind = "hello"
  BY DEF Counted
<1>b. player.synced <=> SyncedBy(q, n)
  BY DEF Counted
<1>c. c.kind = "hello" \/ player.known => \E h \in 1 .. n + 1 : q[h].kind = "hello"
  BY <1>0, <1>4, <1>a
<1>d. (\E h \in 1 .. n + 1 : q[h].kind = "hello") => c.kind = "hello" \/ player.known
  BY <1>5, <1>a
<1>e. ASSUME c.kind \in {"hello", "info"}, c.kind = "hello" \/ player.known
      PROVE Base(q, n + 1, n + 1) /\ Left(q, n + 1, n + 1) = Worth(q, n + 1)
  <2>1. Base(q, n + 1, n + 1)
    <3>1. \A k \in (n + 1) + 1 .. n + 1 : FALSE
      BY <1>0
    <3> QED
      BY <1>0, <1>e, <1>c, <3>1 DEF Base
  <2>2. PICK u \in Counts \cup {0} : u = Worth(q, n + 1)
    BY <1>0, <1>1, <1>2 DEF Worth
  <2>3. u \in Int
    BY <1>3
  <2>4. Left(q, n + 1, n + 1) = u - 0
    BY <2>2, <1>7 DEF Left
  <2> QED
    BY <2>1, <2>2, <2>3, <2>4
<1>f. CASE c.kind = "hello"
  <2>1. Receive!HandlePacket(c) = Receive!Greeted
    BY <1>f DEF Receive!HandlePacket
  <2>2. Receive!Greeted.known = TRUE /\ Receive!Greeted.pending = 0
        /\ Receive!Greeted.synced = FALSE
    BY DEF Receive!Greeted, Receive!NoPlayer
  <2>3. ~SyncedBy(q, n + 1)
    <3> SUFFICES ASSUME NEW i \in 1 .. n + 1, AllCame(q, i, n + 1) PROVE FALSE
      BY DEF SyncedBy
    <3>1. n + 1 \in i .. n + 1
      BY <1>0
    <3> QED
      BY <3>1, <1>f DEF AllCame
  <2>4. Base(q, n + 1, n + 1) /\ Receive!Greeted.pending = Residue(Left(q, n + 1, n + 1))
    BY <1>e, <1>f, <2>2 DEF Worth, Residue
  <2> QED
    BY <2>1, <2>2, <2>3, <2>4, <1>0, <1>c, <1>f DEF Counted
<1>g. CASE c.kind = "info" /\ player.known
  <2>1. Receive!HandlePacket(c) = Receive!ExtensionsAnnounced(c.count)
    BY <1>g DEF Receive!HandlePacket
  <2>2. PICK u \in Counts : u = c.count
    BY <1>0, <1>1, <1>2, <1>g
  <2>3. u % CountMod = Residue(u) /\ u % CountMod \in 0 .. CountMod - 1
    <3>1. u \in Int /\ 0 - CountMod < u /\ u < CountMod
      <4>1. u \in Int /\ MaxPackets - CountMod < u /\ u < CountMod
        BY <1>3
      <4> QED
        BY <4>1, <1>0
    <3> QED
      BY <3>1, <1>0, ResidueFacts
  <2>4. PICK w \in Players : w = Receive!ExtensionsAnnounced(c.count)
        /\ w.known = player.known
                        /\ w.synced = player.synced /\ w.pending = u % CountMod
    <3>1. PICK v \in 0 .. CountMod - 1 : v = u % CountMod
      BY <2>3
    <3>2. Receive!ExtensionsAnnounced(c.count) = [player EXCEPT !.pending = v]
      BY <2>2, <3>1 DEF Receive!ExtensionsAnnounced
    <3>3. PICK w : w = [player EXCEPT !.pending = v]
      OBVIOUS
    <3>4. w \in Players /\ w.known = player.known /\ w.synced = player.synced
          /\ w.pending = v
      BY <3>1, <3>3 DEF Players
    <3> QED
      BY <3>1, <3>2, <3>3, <3>4
  <2>5. Base(q, n + 1, n + 1) /\ w.pending = Residue(Left(q, n + 1, n + 1))
    BY <1>e, <1>g, <2>2, <2>3, <2>4 DEF Worth
  <2>6. SyncedBy(q, n + 1) <=> SyncedBy(q, n)
    BY <1>g, SyncedStays
  <2>7. Counted(q, n + 1, w)
    BY <2>4, <2>5, <2>6, <1>0, <1>b, <1>c, <1>g DEF Counted
  <2> QED
    BY <2>1, <2>4, <2>7
<1>h. CASE c.kind = "entry" /\ player.known
  <2>1. Receive!HandlePacket(c) = Receive!CountEntry
    BY <1>h DEF Receive!HandlePacket
  <2>2. PICK b \in 1 .. n : Base(q, b, n) /\ player.pending = Residue(Left(q, b, n))
    BY <1>h DEF Counted
  <2>3. PICK e \in Nat : /\ e = Cardinality(Entered(q, b, n)) /\ e <= n - b
                         /\ Cardinality(Entered(q, b, n + 1)) = e + 1
    BY <1>4, <1>h, EnteredFacts
  <2>4. PICK u \in Counts \cup {0} : u = Worth(q, b)
    BY <1>4, <1>1, <1>2 DEF Worth
  <2>5. PICK x \in Int : x = u - e
    BY <1>3, <2>3
  <2>6. Left(q, b, n) = x /\ Left(q, b, n + 1) = x - 1
    BY <2>3, <2>4, <2>5, <1>3 DEF Left
  <2>7. 0 - CountMod < x - 1 /\ x < CountMod
    <3>1. u \in Int /\ MaxPackets - CountMod < u /\ u < CountMod
      BY <1>3
    <3>2. e + 1 <= MaxPackets /\ b >= 1
      BY <2>3, <1>0
    <3> QED
      BY <3>1, <3>2, <2>5, <1>0
  <2>8. (player.pending - 1) % CountMod = Residue(x - 1)
    BY <2>2, <2>6, <2>7, <1>0, ResidueDown
  <2>9. Residue(x - 1) = 0 <=> x - 1 = 0
    <3>1. PICK y \in Int : y = x - 1
      OBVIOUS
    <3>2. Residue(y) = 0 <=> y = 0
      BY <3>1, <2>7, <1>0, ResidueFacts
    <3> QED
      BY <3>1, <3>2
  <2>10. SyncedBy(q, n + 1) <=> SyncedBy(q, n) \/ x - 1 = 0
    <3>1. SyncedBy(q, n + 1) <=> \/ SyncedBy(q, n)
                                 \/ /\ q[b].kind = "info" /\ q[b].count > 0
                                    /\ Cardinality(Entered(q, b, n)) + 1 = q[b].count
      BY <1>h, <2>2, SyncedByEntry
    <3>2. x - 1 = 0 <=> u = e + 1
      BY <2>3, <2>5, <1>3
    <3>3. q[b].kind = "info" => u = q[b].count
      BY <2>4 DEF Worth
    <3>4. q[b].kind # "info" => u = 0
      BY <2>4 DEF Worth
    <3> QED
      BY <3>1, <3>2, <3>3, <3>4, <2>3
  <2>11. PICK w \in Players : /\ w = Receive!CountEntry /\ w.known = player.known
                              /\ w.pending = (player.pending - 1) % CountMod
                              /\ w.synced <=> player.synced
                                 \/ (player.pending - 1) % CountMod = 0
    <3>1. (player.pending - 1) % CountMod \in 0 .. CountMod - 1
      BY <1>9, <1>0
    <3>2. (player.synced \/ (player.pending - 1) % CountMod = 0) \in BOOLEAN
      OBVIOUS
    <3>3. Receive!CountEntry \in Players
      BY <3>1, <3>2 DEF Receive!CountEntry, Players
    <3>4. Receive!CountEntry.known = player.known
          /\ Receive!CountEntry.pending = (player.pending - 1) % CountMod
      BY DEF Receive!CountEntry, Players
    <3>5. Receive!CountEntry.synced = (player.synced \/ (player.pending - 1) % CountMod = 0)
      BY DEF Receive!CountEntry, Players
    <3> QED
      BY <3>3, <3>4, <3>5
  <2>12. Base(q, b, n + 1)
    <3>1. \A k \in b + 1 .. n + 1 : k \in b + 1 .. n \/ k = n + 1
      BY <1>0, <1>4
    <3> QED
      BY <3>1, <2>2, <1>4, <1>h DEF Base
  <2>13. w.pending = Residue(Left(q, b, n + 1))
    BY <2>6, <2>8, <2>11
  <2>14. w.synced <=> SyncedBy(q, n + 1)
    BY <2>8, <2>9, <2>10, <2>11, <1>b
  <2>15. Counted(q, n + 1, w)
    BY <2>11, <2>12, <2>13, <2>14, <1>4, <1>c, <1>h DEF Counted
  <2> QED
    BY <2>1, <2>11, <2>15
<1>i. CASE c.kind # "hello" /\ ~(c.kind = "info" /\ player.known)
             /\ ~(c.kind = "entry" /\ player.known)
  <2>1. Receive!HandlePacket(c) = player
    BY <1>i DEF Receive!HandlePacket
  <2>2. CASE player.known
    <3>1. PICK b \in 1 .. n : Base(q, b, n) /\ player.pending = Residue(Left(q, b, n))
      BY <2>2 DEF Counted
    <3>2. Base(q, b, n + 1)
      <4>1. \A k \in b + 1 .. n + 1 : k \in b + 1 .. n \/ k = n + 1
        BY <1>0, <1>4
      <4> QED
        BY <4>1, <3>1, <1>4, <1>i, <2>2 DEF Base
    <3>3. Left(q, b, n + 1) = Left(q, b, n)
      BY <1>4, <1>i, <2>2, EnteredFacts DEF Left
    <3>4. SyncedBy(q, n + 1) <=> SyncedBy(q, n)
      BY <1>i, <2>2, SyncedStays
    <3>5. Counted(q, n + 1, player)
      BY <3>1, <3>2, <3>3, <3>4, <1>4, <1>b, <1>c, <2>2 DEF Counted
    <3> QED
      BY <2>1, <3>5
  <2>3. CASE ~player.known
    <3>1. \A i \in 1 .. n + 1 : q[i].kind # "hello"
      BY <1>d, <1>i, <2>3
    <3>2. ASSUME NEW i, NEW m, AllCame(q, i, m) PROVE \E h \in 1 .. i : q[h].kind = "hello"
      BY <3>2 DEF AllCame
    <3>3. ~SyncedBy(q, n + 1)
      <4>1. \A i \in 1 .. n + 1 : \A h \in 1 .. i : h \in 1 .. n + 1
        BY <1>0
      <4> QED
        BY <4>1, <3>1, <3>2 DEF SyncedBy
    <3>4. ~SyncedBy(q, n)
      <4>1. \A i \in 1 .. n : \A h \in 1 .. i : h \in 1 .. n + 1
        BY <1>0
      <4> QED
        BY <4>1, <3>1, <3>2 DEF SyncedBy
    <3>5. Counted(q, n + 1, player)
      BY <3>1, <3>3, <3>4, <1>b, <2>3 DEF Counted
    <3> QED
      BY <2>1, <3>5
  <2> QED
    BY <2>2, <2>3, <1>8
<1> QED
  BY <1>f, <1>g, <1>h, <1>i

(* Packets that are sent later do not matter.                              *)
LEMMA CountStays ==
  ASSUME NEW q, NEW r, NEW n \in Nat, \A k \in 1 .. n : r[k] = q[k], NEW pl,
         Counted(q, n, pl)
  PROVE  Counted(r, n, pl)
<1>1. \A i \in 1 .. n : i \in Nat /\ \A j \in i .. n : j \in 1 .. n
  OBVIOUS
<1>2. \A i, j \in 1 .. n : \A k \in i + 1 .. j : k \in 1 .. n
  OBVIOUS
<1>3. \A i \in 1 .. n : \A h \in 1 .. i : h \in 1 .. n
  OBVIOUS
<1>4. ASSUME NEW i \in 1 .. n, NEW j \in 1 .. n PROVE Entered(r, i, j) = Entered(q, i, j)
  BY <1>2 DEF Entered
<1>5. n >= 1 => n \in 1 .. n
  OBVIOUS
<1>6. ASSUME NEW i \in 1 .. n PROVE AllCame(r, i, n) <=> AllCame(q, i, n)
  <2>1. r[i] = q[i]
    OBVIOUS
  <2>2. (\E h \in 1 .. i : r[h].kind = "hello") <=> \E h \in 1 .. i : q[h].kind = "hello"
    BY <1>3
  <2>3. (\A h \in i .. n : r[h].kind # "hello") <=> \A h \in i .. n : q[h].kind # "hello"
    BY <1>1
  <2>4. ASSUME NEW j \in i .. n
        PROVE  /\ (\A k \in i + 1 .. j : r[k].kind # "info")
                    <=> \A k \in i + 1 .. j : q[k].kind # "info"
               /\ Cardinality(Entered(r, i, j)) = Cardinality(Entered(q, i, j))
    <3>1. j \in 1 .. n
      BY <1>1
    <3> QED
      BY <3>1, <1>2, <1>4
  <2> QED
    BY <2>1, <2>2, <2>3, <2>4 DEF AllCame
<1>7. SyncedBy(r, n) <=> SyncedBy(q, n)
  BY <1>6 DEF SyncedBy
<1>8. (\E h \in 1 .. n : r[h].kind = "hello") <=> \E h \in 1 .. n : q[h].kind = "hello"
  OBVIOUS
<1>9. ASSUME NEW b \in 1 .. n, Base(q, b, n)
      PROVE  Base(r, b, n) /\ Left(r, b, n) = Left(q, b, n)
  <2>1. n \in 1 .. n
    BY <1>5
  <2>2. r[b] = q[b] /\ \A k \in b + 1 .. n : r[k] = q[k]
    BY <1>2, <2>1
  <2>3. Base(r, b, n)
    BY <1>9, <1>3, <2>2 DEF Base
  <2>4. Left(r, b, n) = Left(q, b, n)
    BY <1>4, <2>1, <2>2 DEF Left, Worth
  <2> QED
    BY <2>3, <2>4
<1>a. pl.known <=> \E h \in 1 .. n : r[h].kind = "hello"
  BY <1>8 DEF Counted
<1>b. ASSUME pl.known PROVE \E b \in 1 .. n : Base(r, b, n)
      /\ pl.pending = Residue(Left(r, b, n))
  <2>1. PICK b \in 1 .. n : Base(q, b, n) /\ pl.pending = Residue(Left(q, b, n))
    BY <1>b DEF Counted
  <2> QED
    BY <2>1, <1>9
<1>c. pl.synced <=> SyncedBy(r, n)
  BY <1>7 DEF Counted
<1> QED
  BY <1>a, <1>b, <1>c DEF Counted

(* The player counts the packets that have been handled.                   *)
Counting == Counted(clientSent, Len(handled), player)

(* There is no player at first. *)
LEMMA InitCounting == Receive!Init => Counting
<1> SUFFICES ASSUME Receive!Init PROVE Counting
  OBVIOUS
<1>1. player = Receive!NoPlayer /\ handled = <<>> /\ Len(handled) = 0
  BY DEF Receive!Init
<1>2. ~player.known /\ ~player.synced
  BY <1>1 DEF Receive!NoPlayer
<1>3. ~(\E h \in 1 .. 0 : TRUE)
  OBVIOUS
<1> QED
  BY <1>1, <1>2, <1>3 DEF Counting, Counted, SyncedBy

(* The player counts every packet when it is handled, and at no other time. *)
LEMMA CountingStep ==
  ASSUME Receive!ReceiveAssumption, Receive!CountsFit, Buffers, Receiving, Streaming,
         Counting, Receive!Next
  PROVE  Counting'
<1>0. clientSent \in Seq(Receive!Content) /\ Len(clientSent) \in Nat
      /\ Len(clientSent) <= MaxPackets
      /\ Len(handled) \in Nat /\ Len(handled) <= Len(clientSent) /\ handled \in Seq(Bytes)
  BY DEF Buffers, Streaming
<1>1. ASSUME NEW packet \in Receive!Content, Receive!ClientSends(packet) PROVE Counting'
  <2>1. clientSent' = Append(clientSent, packet) /\ player' = player /\ handled' = handled
    BY <1>1 DEF Receive!ClientSends
  <2>2. \A k \in 1 .. Len(handled) : clientSent'[k] = clientSent[k]
    BY <2>1, <1>0
  <2>3. Counted(clientSent, Len(handled), player)
    BY DEF Counting
  <2>4. Counted(clientSent', Len(handled), player)
    BY <2>2, <2>3, <1>0, CountStays
  <2> QED
    BY <2>1, <2>4 DEF Counting
<1>2. CASE Receive!HandleOne
  <2>1. /\ Receive!AtCursor = <<Len(handled) + 1, 1>>
        /\ Len(handled) + 1 \in 1 .. Len(clientSent)
    BY <1>2, CursorFacts DEF Receive!HandleOne
  <2>2. /\ player' = Receive!HandlePacket(clientSent[Len(handled) + 1])
        /\ clientSent' = clientSent
        /\ handled' = Append(handled, Receive!AtCursor)
    BY <1>2, <2>1 DEF Receive!HandleOne
  <2>3. Receive!AtCursor \in Bytes
    BY <2>1, <1>0 DEF Bytes
  <2>4. Len(handled') = Len(handled) + 1
    BY <2>2, <2>3, <1>0
  <2>5. Len(handled) < Len(clientSent)
    BY <2>1, <1>0
  <2>6. Counted(clientSent, Len(handled), player) /\ player \in Players
    BY DEF Counting, Buffers
  <2>7. Counted(clientSent, Len(handled) + 1, Receive!HandlePacket(clientSent[Len(handled) + 1]))
    BY <2>5, <2>6, <1>0, CountStep
  <2> QED
    BY <2>2, <2>4, <2>7 DEF Counting
<1>3. CASE UNCHANGED <<clientSent, player, handled>>
  BY <1>3 DEF Counting
<1> QED
  BY <1>1, <1>2, <1>3
     DEF Receive!Next, Receive!Deliver, Receive!Handle, Receive!PostReceive,
     Receive!Arrives, Receive!HandleBegin, Receive!HandleEnd, Receive!Pop, Receive!Complete,
         Receive!ReceiveFails, Receive!ReceiveEof, Receive!Kicked, Receive!TurnsOffline

----------------------------------------------------------------------------
(* What the invariant says of the properties.                              *)
LEMMA StreamIsInOrder == Buffers /\ Streaming => Receive!HandledInOrder
<1>1. handled \in Seq(Bytes) => DOMAIN handled = 1 .. Len(handled)
  OBVIOUS
<1> QED
  BY <1>1 DEF Buffers, Streaming, Receive!HandledInOrder

(* A free event has room to be posted. *)
LEMMA FreeIsRoomy == Buffers /\ Receiving => Receive!NeverStarved
  BY DEF Buffers, Receiving, Receive!NeverStarved, Roomy

(* What the player has counted are the packets handled. *)
LEMMA CountedIsAnnounced == Buffers /\ Streaming /\ Counting => Receive!SyncedWhenAnnounced
<1> SUFFICES ASSUME Buffers, Streaming, Counting PROVE Receive!SyncedWhenAnnounced
  OBVIOUS
<1> DEFINE n == Len(handled)
<1>0. n \in Nat /\ DOMAIN handled = 1 .. n
  BY DEF Buffers
<1>1. \A k \in 1 .. n :
        Receive!KindOf(k) = clientSent[k].kind /\ Receive!Announced(k) = clientSent[k].count
  BY DEF Streaming, Receive!KindOf, Receive!Announced
<1> HIDE DEF n
<1>2. \A i \in 1 .. n : /\ \A h \in 1 .. i : h \in 1 .. n
                        /\ \A h \in i .. n : h \in 1 .. n
                        /\ \A j \in i .. n : \A k \in i + 1 .. j : k \in 1 .. n
  BY <1>0
<1>3. ASSUME NEW i \in 1 .. n
      PROVE  AllCame(clientSent, i, n) <=>
               /\ Receive!KindOf(i) = "info" /\ Receive!Announced(i) > 0
               /\ \E h \in 1 .. i : Receive!KindOf(h) = "hello"
               /\ \A h \in i .. n : Receive!KindOf(h) # "hello"
               /\ \E j \in i .. n :
                    /\ \A k \in i + 1 .. j : Receive!KindOf(k) # "info"
                    /\ Cardinality({k \in i + 1 .. j : Receive!KindOf(k) = "entry"})
                         = Receive!Announced(i)
  <2>1. ASSUME NEW j \in i .. n
        PROVE {k \in i + 1 .. j : Receive!KindOf(k) = "entry"} = Entered(clientSent, i, j)
    BY <1>1, <1>2 DEF Entered
  <2>2. ASSUME NEW j \in i .. n
        PROVE (\A k \in i + 1 .. j : Receive!KindOf(k) # "info")
                <=> \A k \in i + 1 .. j : clientSent[k].kind # "info"
    BY <1>1, <1>2
  <2>3. (\E h \in 1 .. i : Receive!KindOf(h) = "hello")
          <=> \E h \in 1 .. i : clientSent[h].kind = "hello"
    BY <1>1, <1>2
  <2>4. (\A h \in i .. n : Receive!KindOf(h) # "hello")
          <=> \A h \in i .. n : clientSent[h].kind # "hello"
    BY <1>1, <1>2
  <2>5. Receive!KindOf(i) = clientSent[i].kind /\ Receive!Announced(i) = clientSent[i].count
    BY <1>1
  <2> HIDE DEF Receive!KindOf, Receive!Announced
  <2> QED
    BY <2>1, <2>2, <2>3, <2>4, <2>5 DEF AllCame
<1>4. player.synced <=> SyncedBy(clientSent, n)
  BY DEF Counting, Counted, n
<1>5. player.synced <=>
        \E i \in 1 .. n :
            /\ Receive!KindOf(i) = "info" /\ Receive!Announced(i) > 0
            /\ \E h \in 1 .. i : Receive!KindOf(h) = "hello"
            /\ \A h \in i .. n : Receive!KindOf(h) # "hello"
            /\ \E j \in i .. n :
                 /\ \A k \in i + 1 .. j : Receive!KindOf(k) # "info"
                 /\ Cardinality({k \in i + 1 .. j : Receive!KindOf(k) = "entry"})
                      = Receive!Announced(i)
  <2> HIDE DEF Receive!KindOf, Receive!Announced
  <2> QED
    BY <1>3, <1>4 DEF SyncedBy
<1>6. \A S : Receive!Cardinality(S) = Cardinality(S)
  BY DEF Cardinality, Receive!Cardinality
<1> QED
  BY <1>0, <1>5, <1>6 DEF Receive!SyncedWhenAnnounced, n

----------------------------------------------------------------------------
(* The receive path in the specification of the connection.                *)
ReceiveInv == Buffers /\ Receiving /\ Streaming

(* Nothing of the receive path moves. *)
LEMMA ReceiveStutters ==
  ASSUME UNCHANGED Receive!receiveVars
  PROVE  /\ ReceiveInv => ReceiveInv'
         /\ Counting => Counting'
<1>1. UNCHANGED <<clientSent, wire, mem, size, busy, op, handler, err, life, player, handled>>
  BY DEF Receive!receiveVars
<1>2. Buffers => Buffers'
  BY <1>1 DEF Buffers
<1>3. Receiving => Receiving'
  BY <1>1 DEF Receiving, Roomy
<1>4. Ahead' = Ahead /\ Widths' = Widths
  BY <1>1 DEF Ahead, Top, Widths
<1>5. Stream' = Stream
  BY <1>1, <1>4 DEF Stream
<1>6. Streaming => Streaming'
  BY <1>1, <1>4, <1>5 DEF Streaming
<1>7. Counting => Counting'
  BY <1>1 DEF Counting
<1> QED
  BY <1>2, <1>3, <1>6, <1>7 DEF ReceiveInv

(* A step of the connection is one of the receive path, or leaves it alone. *)
LEMMA OneStep == [ConnectionNext]_allVars => Receive!Next \/ UNCHANGED Receive!receiveVars
  BY DEF ConnectionNext, OnBuffer, OnIO, OnReceive, allVars, receiveVars, Receive!receiveVars

(* The fairness is not needed for what is always true. *)
LEMMA SafeSpec == ConnectionSpec => ConnectionInit /\ [][ConnectionNext]_allVars
  BY PTL DEF ConnectionSpec

(* The inductive invariant of the receive path. *)
THEOREM ReceiveInvariant == ConnectionSpec => []ReceiveInv
<1>1. ConnectionInit => ReceiveInv
  BY InitReceiving, ConnectionAssumption DEF ConnectionInit, ReceiveInv
<1>2. ReceiveInv /\ [ConnectionNext]_allVars => ReceiveInv'
  <2> SUFFICES ASSUME ReceiveInv, [ConnectionNext]_allVars PROVE ReceiveInv'
    OBVIOUS
  <2>1. CASE Receive!Next
    <3>1. Buffers'
      BY <2>1, BuffersStep, ConnectionAssumption DEF ReceiveInv
    <3>2. Receiving'
      BY <2>1, ReceivingStep, ConnectionAssumption DEF ReceiveInv
    <3>3. Streaming'
      BY <2>1, <3>1, <3>2, StreamingStep, ConnectionAssumption DEF ReceiveInv
    <3> QED
      BY <3>1, <3>2, <3>3 DEF ReceiveInv
  <2>2. CASE UNCHANGED Receive!receiveVars
    BY <2>2, ReceiveStutters
  <2> QED
    BY <2>1, <2>2, OneStep
<1> QED
  BY <1>1, <1>2, SafeSpec, PTL

(* process_packets and pop: however TCP cuts the stream, each packet is      *)
(* handled once, whole, in the order it was sent, and none behind an unknown *)
(* id.                                                                       *)
THEOREM PacketsInOrder == ConnectionSpec => []HandledInOrder
<1>1. ReceiveInv => HandledInOrder
  BY StreamIsInOrder DEF ReceiveInv, HandledInOrder
<1> QED
  BY <1>1, ReceiveInvariant, PTL

(* post_rio_event asks for the room of the largest packet structure: what is *)
(* left of a cut packet never takes it, so an idle receive can be posted.    *)
THEOREM ReceiveGoesOn == ConnectionSpec => []NeverStarved
<1>1. ReceiveInv => NeverStarved
  BY FreeIsRoomy DEF ReceiveInv, NeverStarved
<1> QED
  BY <1>1, ReceiveInvariant, PTL

(* The player has counted the packets that were handled. *)
THEOREM CountInvariant == ConnectionSpec => []Counting
<1>1. ConnectionInit => Counting
  BY InitCounting DEF ConnectionInit
<1>2. ReceiveInv /\ Counting /\ [ConnectionNext]_allVars => Counting'
  <2> SUFFICES ASSUME ReceiveInv, Counting, [ConnectionNext]_allVars PROVE Counting'
    OBVIOUS
  <2>1. CASE Receive!Next
    BY <2>1, CountingStep, ConnectionAssumption, CountAssumption DEF ReceiveInv
  <2>2. CASE UNCHANGED Receive!receiveVars
    BY <2>2, ReceiveStutters
  <2> QED
    BY <2>1, <2>2, OneStep
<1> QED
  BY <1>1, <1>2, ReceiveInvariant, SafeSpec, PTL

(* decrease_pending_extension_count: a player counts as synced exactly when  *)
(* as many entries have come as the last announcement named, also when the   *)
(* unsigned count has wrapped around.                                        *)
THEOREM SyncedAsAnnounced == ConnectionSpec => []SyncedWhenAnnounced
<1>1. ReceiveInv /\ Counting => SyncedWhenAnnounced
  BY CountedIsAnnounced DEF ReceiveInv, SyncedWhenAnnounced
<1> QED
  BY <1>1, ReceiveInvariant, CountInvariant, PTL

----------------------------------------------------------------------------
(* The events of one connection, with the one event that                   *)
(* num_of_multicast_events gives it.  With two, a free may store a bitmap   *)
(* that was loaded before the other event was taken, and hand it out twice. *)
OneEvent == \E e : Events = {e}

SendStages == {"idle", "posted", "handled", "over"}
EventStages == {"free", "ready", "posted", "handled", "freed", "over"}

EventRecords == [stage : EventStages, packet : IO!Packet \cup {IO!NoPacket},
                seen : SUBSET Events]
PosterRecords == [stage : {"idle", "lock", "store"}, packet : IO!Packet \cup {IO!NoPacket},
                 event : Events \cup {"none"}, seen : SUBSET Events]

(* The shape of the variables that the proofs use. *)
IOShape ==
    /\ buf \in Seq(IO!Packet) /\ received \in Seq(IO!Packet)
    /\ sending \in [stage : SendStages, packets : Seq(IO!Packet)]
    /\ slot \in Events \cup {"none", "send"}
    /\ bits \in SUBSET Events
    /\ event \in [Events -> EventRecords]
    /\ ready \in Seq(Events)
    /\ main \in [stage : {"send", "swap", "post", "free"}, list : Seq(Events)]
    /\ poster \in [Posters -> PosterRecords]
    /\ ioPosted \in [Posters -> 0 .. MaxPosts]
    /\ fate \in [refused : SUBSET IO!Packet, waited : SUBSET IO!Packet,
                 dropped : SUBSET IO!Packet]

(* The list that flush_multicast_send took over still holds events to post. *)
Swapped == main.stage = "post" /\ main.list # <<>>

(* Who holds the event, as each that may hold it sees it.                   *)
StorerHolds ==
    \A p \in Posters :
        IF poster[p].stage = "store"
        THEN /\ \A q \in Posters : poster[q].stage = "store" => q = p
             /\ poster[p].event \in Events
             /\ poster[p].seen = Events /\ bits = Events
             /\ event[poster[p].event].stage = "ready"
             /\ event[poster[p].event].packet = poster[p].packet
        ELSE poster[p].event = "none"

EventHeld ==
    \A e \in Events :
        /\ event[e].stage = "free" => e \in bits
        /\ e \in bits => event[e].stage = "free" \/ IO!Locked
        /\ event[e].stage = "freed" => event[e].seen = {}
        /\ slot = e <=> event[e].stage = "posted"
        /\ event[e].stage = "ready" => IO!Locked \/ ready # <<>> \/ Swapped

ListsHold ==
    \A e \in Events :
        /\ ready = <<>> \/ ready = <<e>>
        /\ main.list = <<>> \/ main.list = <<e>>
        /\ main.stage \in {"send", "swap"} => main.list = <<>>
        /\ main.stage = "free" => main.list # <<>>
        /\ ready # <<>> => event[e].stage = "ready" /\ ~IO!Locked /\ ~Swapped
        /\ Swapped => event[e].stage = "ready" /\ ~IO!Locked

PoolInv == ~clash /\ StorerHolds /\ EventHeld /\ ListsHold

(* The places a packet can be in. *)
Came(k) == \E i \in DOMAIN received : received[i] = k
InBuffer(k) == /\ k \in IO!Elements(buf)
               /\ ~(sending.stage = "handled" /\ k \in IO!Elements(sending.packets))
Refused(k) == k \in fate.refused
GivenUp(k) == k \in fate.dropped

OneOf(came, refused, given, inbuf, waits) ==
    /\ came \/ refused \/ given \/ inbuf \/ waits
    /\ ~(came /\ refused) /\ ~(came /\ given) /\ ~(came /\ inbuf) /\ ~(came /\ waits)
    /\ ~(refused /\ given) /\ ~(refused /\ inbuf) /\ ~(refused /\ waits)
    /\ ~(given /\ inbuf) /\ ~(given /\ waits) /\ ~(inbuf /\ waits)

InOnePlace(k) == OneOf(Came(k), Refused(k), GivenUp(k), InBuffer(k), IO!Waiting(k))
InNoPlace(k) == ~Came(k) /\ ~Refused(k) /\ ~GivenUp(k) /\ ~InBuffer(k) /\ ~IO!Waiting(k)

Distinct(s) == \A i, j \in 1 .. Len(s) : s[i] = s[j] => i = j

Accounted ==
    \A k \in IO!Packet : IF k.n <= ioPosted[k.by] THEN InOnePlace(k) ELSE InNoPlace(k)

(* What is being sent is the front of the buffer. *)
FrontIsSent ==
    /\ Distinct(received) /\ Distinct(buf)
    /\ Len(sending.packets) <= Len(buf)
    /\ \A i \in 1 .. Len(sending.packets) : sending.packets[i] = buf[i]
    /\ slot = "send" <=> sending.stage = "posted"
    /\ \A i \in 1 .. Len(buf) : buf[i].n <= ioPosted[buf[i].by]

(* A poster holds the packet it posted last, until it has an event for it.  *)
PostersHold ==
    \A p \in Posters :
        /\ IF poster[p].stage = "idle" THEN poster[p].packet = IO!NoPacket
           ELSE ioPosted[p] >= 1 /\ poster[p].packet = [by |-> p, n |-> ioPosted[p]]
        /\ poster[p].stage = "lock" =>
             \A e \in Events : event[e].stage \in {"ready", "posted"}
                                 => event[e].packet # poster[p].packet
EventsHold ==
    \A e \in Events : event[e].stage \in {"ready", "posted"} => event[e].packet \in IO!Packet

PacketInv == Accounted /\ FrontIsSent /\ PostersHold /\ EventsHold

IOGood == part = "io" => IOShape /\ PoolInv /\ PacketInv

----------------------------------------------------------------------------
(* The packets and events that the assumptions keep apart. *)
LEMMA IOFacts ==
  ASSUME IO!IOAssumption
  PROVE  /\ IO!NoPacket \notin IO!Packet
         /\ "none" \notin Events /\ "send" \notin Events
         /\ \A k \in IO!Packet : k.by \in Posters /\ k.n \in 1 .. MaxPosts
                                 /\ k = [by |-> k.by, n |-> k.n]
         /\ \A p \in Posters, n \in 1 .. MaxPosts :
              /\ [by |-> p, n |-> n] \in IO!Packet
              /\ [by |-> p, n |-> n].by = p /\ [by |-> p, n |-> n].n = n
         /\ MaxPosts \in Nat
<1>1. "none" \notin Events /\ "send" \notin Events /\ MaxPosts \in Nat
  BY DEF IO!IOAssumption
<1>2. IO!NoPacket.n = 0 /\ \A k \in IO!Packet : k.n \in 1 .. MaxPosts
  BY DEF IO!NoPacket, IO!Packet
<1>3. IO!NoPacket \notin IO!Packet
  BY <1>2, <1>1
<1> QED
  BY <1>1, <1>3 DEF IO!Packet

(* The one event, its lists, and what they begin with. *)
LEMMA OneEventFacts ==
  ASSUME NEW E, Events = {E}
  PROVE  /\ \A e \in Events : e = E
         /\ Head(<<E>>) = E /\ Tail(<<E>>) = <<>> /\ Append(<<>>, E) = <<E>> /\ <<E>> # <<>>
         /\ <<E>> \in Seq(Events) /\ <<>> \in Seq(Events)
  OBVIOUS

(* Sequences of packets stay sequences of packets. *)
LEMMA SeqFacts ==
  ASSUME NEW S, NEW s \in Seq(S)
  PROVE  /\ \A x \in S : Append(s, x) \in Seq(S)
         /\ \A t \in Seq(S) : s \o t \in Seq(S)
         /\ \A n \in Nat : n <= Len(s) =>
              /\ SubSeq(s, n + 1, Len(s)) \in Seq(S)
              /\ Len(SubSeq(s, n + 1, Len(s))) = Len(s) - n
              /\ \A i \in 1 .. Len(s) - n : SubSeq(s, n + 1, Len(s))[i] = s[n + i]
         /\ Len(s) \in Nat
  OBVIOUS

IOActions ==
    \/ \E p \in Posters : IO!PostAny(p) \/ IO!PoolTake(p) \/ IO!PoolTaken(p) \/ IO!PoolEmpty(p)
    \/ IO!FlushSend \/ IO!FlushSwap \/ IO!FlushPost \/ IO!FlushFree \/ IO!FlushFreed
    \/ IO!FlushEnd \/ IO!SendCompletes \/ IO!SendFails \/ IO!SendHandled
    \/ IO!CompletesWithEof
    \/ \E e \in Events : IO!MulticastCompletes(e) \/ IO!MulticastFails(e)
                         \/ IO!MulticastHandled(e) \/ IO!FreeEnd(e)

(* The actions of ConnectionIO, one by one. *)
LEMMA IOCases == IO!Next => IOActions
  BY DEF IO!Next, IO!Flush, IO!Complete, IOActions

(* The initial state. *)
LEMMA InitIO ==
  ASSUME NEW E, Events = {E}, IO!IOAssumption, IO!Init
  PROVE  IOShape /\ PoolInv /\ PacketInv
<1> USE IOFacts, OneEventFacts
<1>1. IOShape
  <2>1. IO!Unused \in EventRecords
    BY DEF IO!Unused, EventStages, EventRecords
  <2>2. IO!Resting \in PosterRecords
    BY DEF IO!Resting, PosterRecords
  <2>3. event \in [Events -> EventRecords]
    BY <2>1 DEF IO!Init
  <2>4. poster \in [Posters -> PosterRecords]
    BY <2>2 DEF IO!Init
  <2>5. ioPosted \in [Posters -> 0 .. MaxPosts]
    BY DEF IO!Init
  <2> QED
    BY <2>3, <2>4, <2>5 DEF IO!Init, IOShape, SendStages
<1>2. /\ \A p \in Posters : poster[p].stage = "idle" /\ poster[p].packet = IO!NoPacket
                            /\ poster[p].event = "none"
      /\ \A e \in Events : event[e].stage = "free"
      /\ slot = "none" /\ bits = Events /\ ~clash /\ ready = <<>>
      /\ main.stage = "send" /\ main.list = <<>>
  BY DEF IO!Init, IO!Unused, IO!Resting
<1>3. PoolInv
  <2>1. ~IO!Locked
    BY <1>2 DEF IO!Locked
  <2>2. ~Swapped
    BY <1>2 DEF Swapped
  <2>3. StorerHolds
    BY <1>2 DEF StorerHolds
  <2>4. EventHeld
    BY <1>2, <2>1, <2>2 DEF EventHeld
  <2>5. ListsHold
    BY <1>2, <2>1, <2>2 DEF ListsHold
  <2> QED
    BY <1>2, <2>3, <2>4, <2>5 DEF PoolInv
<1>4. PacketInv
  <2>1. received = <<>> /\ buf = <<>> /\ sending.packets = <<>> /\ sending.stage = "idle"
        /\ fate.refused = {} /\ fate.dropped = {} /\ \A p \in Posters : ioPosted[p] = 0
    BY DEF IO!Init
  <2>2. \A k \in IO!Packet : InNoPlace(k) /\ ~(k.n <= ioPosted[k.by])
    <3> TAKE k \in IO!Packet
    <3>1. ~IO!Waiting(k)
      BY <1>2 DEF IO!Waiting
    <3>2. ~Came(k) /\ ~Refused(k) /\ ~GivenUp(k) /\ ~InBuffer(k)
      BY <2>1 DEF Came, Refused, GivenUp, InBuffer, IO!Elements
    <3>3. k.n \in 1 .. MaxPosts /\ ioPosted[k.by] = 0
      BY <2>1
    <3> QED
      BY <3>1, <3>2, <3>3 DEF InNoPlace
  <2>3. Accounted
    BY <2>2 DEF Accounted
  <2>4. FrontIsSent
    BY <1>2, <2>1 DEF FrontIsSent, Distinct
  <2>5. PostersHold /\ EventsHold
    BY <1>2 DEF PostersHold, EventsHold
  <2> QED
    BY <2>3, <2>4, <2>5 DEF PacketInv
<1> QED
  BY <1>1, <1>3, <1>4

(* The first of a list that is not empty is the event. *)
LEMMA MainHead ==
  ASSUME NEW E, Events = {E}, ListsHold, main.list # <<>>
  PROVE  main.list = <<E>> /\ Head(main.list) = E /\ Tail(main.list) = <<>>
  BY OneEventFacts DEF ListsHold

(* What a change of an event's stage leaves. *)
LEMMA StageFacts ==
  ASSUME IOShape, NEW e \in Events, NEW st \in EventStages
  PROVE  /\ [event EXCEPT ![e].stage = st] \in [Events -> EventRecords]
         /\ [event EXCEPT ![e].stage = st][e].stage = st
         /\ [event EXCEPT ![e].stage = st][e].packet = event[e].packet
<1>1. event[e] \in EventRecords /\ event \in [Events -> EventRecords]
  BY DEF IOShape
<1>2. [event[e] EXCEPT !.stage = st] \in EventRecords
  BY <1>1 DEF EventRecords
<1>3. [event[e] EXCEPT !.stage = st].stage = st
      /\ [event[e] EXCEPT !.stage = st].packet = event[e].packet
  BY <1>1 DEF EventRecords
<1>4. [event EXCEPT ![e].stage = st] = [event EXCEPT ![e] = [event[e] EXCEPT !.stage = st]]
  OBVIOUS
<1>5. [event EXCEPT ![e] = [event[e] EXCEPT !.stage = st]] \in [Events -> EventRecords]
  BY <1>1, <1>2
<1>6. [event EXCEPT ![e] = [event[e] EXCEPT !.stage = st]][e] = [event[e] EXCEPT !.stage = st]
  BY <1>1
<1> QED
  BY <1>3, <1>4, <1>5, <1>6

(* Every action keeps the shape. *)
LEMMA ShapeStep ==
  ASSUME NEW E, Events = {E}, IO!IOAssumption, IOShape, PoolInv, PacketInv, IO!Next
  PROVE  IOShape'
<1> USE OneEventFacts
<1>0. ListsHold /\ StorerHolds /\ EventsHold /\ E \in Events
  BY DEF PoolInv, PacketInv
<1>1. ASSUME NEW p \in Posters, IO!PostAny(p) PROVE IOShape'
  <2>1. PICK width \in {1, 3} : IO!Post(p, width)
    BY <1>1 DEF IO!PostAny
  <2>2. ioPosted[p] < MaxPosts /\ ioPosted[p] \in 0 .. MaxPosts /\ MaxPosts \in Nat
    BY <2>1, IOFacts DEF IO!Post, IOShape
  <2>3. [by |-> p, n |-> ioPosted[p] + 1] \in IO!Packet
    BY <2>2, IOFacts
  <2>4. ioPosted' \in [Posters -> 0 .. MaxPosts]
    BY <2>1, <2>2 DEF IO!Post, IOShape
  <2>5. buf' \in Seq(IO!Packet)
    <3>1. buf \in Seq(IO!Packet)
      BY DEF IOShape
    <3>2. Append(buf, [by |-> p, n |-> ioPosted[p] + 1]) \in Seq(IO!Packet)
      BY <3>1, <2>3, SeqFacts
    <3>3. buf' = buf \/ buf' = Append(buf, [by |-> p, n |-> ioPosted[p] + 1])
      BY <2>1 DEF IO!Post
    <3> QED
      BY <3>1, <3>2, <3>3
  <2>6. poster' \in [Posters -> PosterRecords]
    <3>1. [IO!Resting EXCEPT !.stage = "lock", !.packet = [by |-> p, n |-> ioPosted[p] + 1]]
            \in PosterRecords
      BY <2>3 DEF IO!Resting, PosterRecords
    <3>2. \/ poster' = poster
          \/ poster' = [poster EXCEPT ![p] = [IO!Resting EXCEPT !.stage = "lock",
                                    !.packet = [by |-> p, n |-> ioPosted[p] + 1]]]
      BY <2>1 DEF IO!Post
    <3> QED
      BY <3>1, <3>2 DEF IOShape
  <2> QED
    BY <2>1, <2>4, <2>5, <2>6 DEF IO!Post, IOShape
<1>2. ASSUME NEW p \in Posters, IO!PoolTake(p) PROVE IOShape'
  <2>1. PICK e \in bits :
          /\ poster' = [poster EXCEPT ![p].stage = "store", ![p].event = e, ![p].seen = bits]
          /\ event' = [event EXCEPT ![e] = [stage |-> "ready", packet |-> poster[p].packet,
                                            seen |-> {}]]
    BY <1>2 DEF IO!PoolTake
  <2>2. event' \in [Events -> EventRecords]
    <3>1. [stage |-> "ready", packet |-> poster[p].packet, seen |-> {}]
            \in EventRecords
      <4>1. poster[p] \in PosterRecords
        BY DEF IOShape
      <4> QED
        BY <4>1 DEF EventRecords, PosterRecords, EventStages
    <3> QED
      BY <2>1, <3>1 DEF IOShape
  <2>3. poster' \in [Posters -> PosterRecords]
    <3>1. poster[p] \in PosterRecords /\ e \in Events /\ bits \in SUBSET Events
      BY <2>1 DEF IOShape
    <3>2. [poster[p] EXCEPT !.stage = "store", !.event = e, !.seen = bits] \in PosterRecords
      BY <3>1 DEF PosterRecords
    <3>3. poster' = [poster EXCEPT ![p] = [poster[p] EXCEPT !.stage = "store", !.event = e,
                                                            !.seen = bits]]
      BY <2>1
    <3> QED
      BY <3>2, <3>3 DEF IOShape
  <2> QED
    BY <1>2, <2>2, <2>3 DEF IO!PoolTake, IOShape
<1>3. ASSUME NEW p \in Posters, IO!PoolTaken(p) \/ IO!PoolEmpty(p) PROVE IOShape'
  <2>1. IO!Resting \in PosterRecords
    BY DEF IO!Resting, PosterRecords
  <2>2. poster' = [poster EXCEPT ![p] = IO!Resting]
    BY <1>3 DEF IO!PoolTaken, IO!PoolEmpty
  <2>3. poster' \in [Posters -> PosterRecords]
    BY <2>1, <2>2 DEF IOShape
  <2>4. poster[p].stage # "idle" => poster[p].packet \in IO!Packet
    <3>1. poster[p].stage # "idle" => ioPosted[p] >= 1
                                      /\ poster[p].packet = [by |-> p, n |-> ioPosted[p]]
      BY DEF PacketInv, PostersHold
    <3>2. ioPosted[p] \in 0 .. MaxPosts /\ MaxPosts \in Nat
      BY IOFacts DEF IOShape
    <3> QED
      BY <3>1, <3>2, IOFacts
  <2>5. CASE IO!PoolTaken(p)
    <3>1. poster[p].stage = "store" /\ poster[p].event = E /\ poster[p].packet \in IO!Packet
      BY <2>5, <2>4, <1>0 DEF IO!PoolTaken, StorerHolds
    <3>2. fate' \in [refused : SUBSET IO!Packet, waited : SUBSET IO!Packet,
                     dropped : SUBSET IO!Packet]
      BY <2>5, <3>1 DEF IO!PoolTaken, IOShape
    <3>3. ready' \in Seq(Events) /\ bits' \in SUBSET Events
      <4>1. ready \in Seq(Events) /\ poster[p] \in PosterRecords
        BY DEF IOShape
      <4>2. ready' = Append(ready, E) /\ bits' = poster[p].seen \ {E}
        BY <2>5, <3>1 DEF IO!PoolTaken
      <4>3. Append(ready, E) \in Seq(Events)
        BY <4>1, <1>0, SeqFacts
      <4> QED
        BY <4>1, <4>2, <4>3 DEF PosterRecords
    <3> QED
      BY <2>5, <2>3, <3>2, <3>3 DEF IO!PoolTaken, IOShape
  <2>6. CASE IO!PoolEmpty(p)
    <3>1. fate' \in [refused : SUBSET IO!Packet, waited : SUBSET IO!Packet,
                     dropped : SUBSET IO!Packet]
      BY <2>6, <2>4 DEF IO!PoolEmpty, IOShape
    <3> QED
      BY <2>6, <2>3, <3>1 DEF IO!PoolEmpty, IOShape
  <2> QED
    BY <1>3, <2>5, <2>6
<1>4. CASE IO!FlushSend
  <2>1. sending' \in [stage : SendStages, packets : Seq(IO!Packet)]
    BY <1>4 DEF IO!FlushSend, IOShape, SendStages
  <2>2. slot' \in Events \cup {"none", "send"}
    BY <1>4 DEF IO!FlushSend, IOShape
  <2> QED
    BY <1>4, <2>1, <2>2 DEF IO!FlushSend, IOShape
<1>5. CASE IO!FlushSwap
  BY <1>5 DEF IO!FlushSwap, IOShape
<1>6. CASE IO!FlushPost
  <2>1. main.list # <<>>
    BY <1>6 DEF IO!FlushPost
  <2>2. Head(main.list) = E /\ Tail(main.list) = <<>>
    BY <2>1, <1>0, MainHead
  <2>3. event' = [event EXCEPT ![E].stage = "posted"] /\ slot' = E
        /\ main' = [main EXCEPT !.list = <<>>]
    BY <1>6, <2>2 DEF IO!FlushPost
  <2>4. event' \in [Events -> EventRecords]
    BY <2>3, StageFacts DEF EventStages
  <2> QED
    BY <1>6, <2>3, <2>4 DEF IO!FlushPost, IOShape
<1>7. ASSUME NEW e \in Events, event' = IO!FreeBegin(e)
      PROVE  event' \in [Events -> EventRecords]
  <2>1. [stage |-> "freed", packet |-> IO!NoPacket, seen |-> bits] \in EventRecords
    BY DEF EventRecords, EventStages, IOShape
  <2> QED
    BY <1>7, <2>1 DEF IO!FreeBegin, IOShape
<1>8. ASSUME NEW e \in Events, event[e].stage \in {"ready", "posted"}, fate' = IO!Dropped(e)
      PROVE  fate' \in [refused : SUBSET IO!Packet, waited : SUBSET IO!Packet,
                        dropped : SUBSET IO!Packet]
  BY <1>0, <1>8 DEF IO!Dropped, IOShape, EventsHold
<1>9. CASE IO!FlushFree
  <2>1. main.list # <<>> /\ Swapped
    BY <1>9 DEF IO!FlushFree, Swapped
  <2>2. Head(main.list) = E /\ event[E].stage = "ready"
    BY <2>1, <1>0, MainHead DEF ListsHold
  <2>3. event' = IO!FreeBegin(E) /\ fate' = IO!Dropped(E)
    BY <1>9, <2>2 DEF IO!FlushFree
  <2> QED
    BY <1>9, <2>2, <2>3, <1>0, <1>7, <1>8 DEF IO!FlushFree, IOShape
<1>10. CASE IO!FlushFreed
  <2>1. Tail(main.list) = <<>>
    BY <1>10, <1>0, MainHead DEF IO!FlushFreed, ListsHold
  <2> QED
    BY <1>10, <2>1 DEF IO!FlushFreed, IOShape
<1>11. CASE IO!FlushEnd
  BY <1>11 DEF IO!FlushEnd, IOShape
<1>12. CASE IO!SendCompletes
  <2>1. received' \in Seq(IO!Packet)
    BY <1>12, SeqFacts DEF IO!SendCompletes, IOShape
  <2> QED
    BY <1>12, <2>1 DEF IO!SendCompletes, IOShape, SendStages
<1>13. CASE IO!SendFails
  BY <1>13 DEF IO!SendFails, IOShape, SendStages
<1>14. CASE IO!SendHandled
  <2>1. Len(sending.packets) \in Nat /\ Len(sending.packets) <= Len(buf)
    BY DEF PacketInv, FrontIsSent, IOShape
  <2>2. buf' \in Seq(IO!Packet)
    BY <1>14, <2>1, SeqFacts DEF IO!SendHandled, IOShape
  <2> QED
    BY <1>14, <2>2 DEF IO!SendHandled, IOShape, SendStages
<1>15. ASSUME NEW e \in Events, slot = e PROVE event[e].stage = "posted"
  BY <1>15 DEF PoolInv, EventHeld
<1>16. ASSUME NEW e \in Events, NEW st \in EventStages, event' = [event EXCEPT ![e].stage = st]
       PROVE  event' \in [Events -> EventRecords]
  BY <1>16, StageFacts
<1>17. CASE IO!CompletesWithEof
  <2>1. CASE slot = "send"
    BY <1>17, <2>1 DEF IO!CompletesWithEof, IOShape, SendStages
  <2>2. CASE slot # "send"
    <3>1. slot \in Events /\ event[slot].stage = "posted"
      BY <1>17, <2>2, <1>15 DEF IO!CompletesWithEof, IOShape
    <3>2. event' = [event EXCEPT ![slot].stage = "over"] /\ fate' = IO!Dropped(slot)
      BY <1>17, <2>2 DEF IO!CompletesWithEof
    <3>3. "over" \in EventStages
      BY DEF EventStages
    <3>4. event' \in [Events -> EventRecords]
      BY <3>1, <3>2, <3>3, <1>16
    <3> QED
      BY <1>17, <2>2, <3>1, <3>2, <3>4, <1>8 DEF IO!CompletesWithEof, IOShape
  <2> QED
    BY <2>1, <2>2
<1>18. ASSUME NEW e \in Events, IO!MulticastCompletes(e) PROVE IOShape'
  <2>1. event[e].stage = "posted" /\ event[e].packet \in IO!Packet
    BY <1>18, <1>15, <1>0 DEF IO!MulticastCompletes, EventsHold
  <2>2. received' \in Seq(IO!Packet)
    BY <1>18, <2>1, SeqFacts DEF IO!MulticastCompletes, IOShape
  <2>3. "handled" \in EventStages /\ event' = [event EXCEPT ![e].stage = "handled"]
    BY <1>18 DEF IO!MulticastCompletes, EventStages
  <2> QED
    BY <1>18, <2>2, <2>3, <1>16 DEF IO!MulticastCompletes, IOShape
<1>19. ASSUME NEW e \in Events, IO!MulticastFails(e) PROVE IOShape'
  <2>1. event[e].stage = "posted" /\ fate' = IO!Dropped(e)
    BY <1>19, <1>15 DEF IO!MulticastFails
  <2>2. "handled" \in EventStages /\ event' = [event EXCEPT ![e].stage = "handled"]
    BY <1>19 DEF IO!MulticastFails, EventStages
  <2> QED
    BY <1>19, <2>1, <2>2, <1>8, <1>16 DEF IO!MulticastFails, IOShape
<1>20. ASSUME NEW e \in Events, IO!MulticastHandled(e) PROVE IOShape'
  BY <1>20, <1>7 DEF IO!MulticastHandled, IOShape
<1>21. ASSUME NEW e \in Events, IO!FreeEnd(e) PROVE IOShape'
  <2>1. IO!Unused \in EventRecords
    BY DEF IO!Unused, EventStages, EventRecords
  <2> QED
    <3>1. bits' \in SUBSET Events
      <4>1. event[e] \in EventRecords
        BY DEF IOShape
      <4> QED
        BY <1>21, <4>1 DEF IO!FreeEnd, EventRecords
    <3>2. event' \in [Events -> EventRecords]
      BY <1>21, <2>1 DEF IO!FreeEnd, IOShape
    <3> QED
      BY <1>21, <3>1, <3>2 DEF IO!FreeEnd, IOShape
<1> QED
  BY IOCases, <1>1, <1>2, <1>3, <1>4, <1>5, <1>6, <1>9, <1>10, <1>11, <1>12, <1>13, <1>14,
     <1>17, <1>18, <1>19, <1>20, <1>21 DEF IOActions

----------------------------------------------------------------------------
(* Whoever stores in the bitmap knows the only event, and nobody frees it.  *)
LEMMA StorerFacts ==
  ASSUME NEW E, Events = {E}, StorerHolds, EventHeld, ListsHold, NEW p \in Posters,
         poster[p].stage = "store"
  PROVE  /\ IO!Locked /\ poster[p].event = E /\ poster[p].seen = Events /\ bits = Events
         /\ event[E].stage = "ready" /\ event[E].packet = poster[p].packet
         /\ ready = <<>> /\ ~Swapped
         /\ \A q \in Posters : poster[q].stage = "store" => q = p
<1>1. IO!Locked
  BY DEF IO!Locked
<1>2. ready = <<>> /\ ~Swapped
  BY <1>1 DEF ListsHold
<1> QED
  BY <1>1, <1>2 DEF StorerHolds

(* The pool is as it was when its parts are. *)
LEMMA PoolStays ==
  ASSUME PoolInv, UNCHANGED <<slot, bits, event, ready, main, poster, clash>>
  PROVE  PoolInv'
<1>1. IO!Locked' = IO!Locked /\ Swapped' = Swapped
  BY DEF IO!Locked, Swapped
<1>2. StorerHolds'
  BY DEF PoolInv, StorerHolds
<1>3. EventHeld'
  BY <1>1 DEF PoolInv, EventHeld
<1>4. ListsHold'
  BY <1>1 DEF PoolInv, ListsHold
<1> QED
  BY <1>2, <1>3, <1>4 DEF PoolInv

(* A poster takes an event only when it is free, and returns the bitmap it  *)
(* loaded only while no event is freed.                                     *)
LEMMA PosterPoolStep ==
  ASSUME NEW E, Events = {E}, IO!IOAssumption, IOShape, PoolInv, NEW p \in Posters,
         IO!PostAny(p) \/ IO!PoolTake(p) \/ IO!PoolTaken(p) \/ IO!PoolEmpty(p)
  PROVE  PoolInv'
<1> USE OneEventFacts
<1>0. StorerHolds /\ EventHeld /\ ListsHold /\ ~clash /\ E \in Events
  BY DEF PoolInv
<1>1. poster[p] \in PosterRecords /\ event[E] \in EventRecords
      /\ poster \in [Posters -> PosterRecords] /\ event \in [Events -> EventRecords]
  BY DEF IOShape
<1>2. ASSUME NEW r, r.stage # "store", r.event = "none", poster[p].stage # "store",
             poster' = [poster EXCEPT ![p] = r],
             UNCHANGED <<slot, bits, event, ready, main, clash>>
      PROVE  PoolInv'
  <2>1. \A q \in Posters : /\ poster'[q].stage = "store" <=> poster[q].stage = "store"
                           /\ q # p => poster'[q] = poster[q]
    BY <1>2, <1>1
  <2>2. IO!Locked' <=> IO!Locked
    BY <2>1 DEF IO!Locked
  <2>3. Swapped' <=> Swapped
    BY <1>2 DEF Swapped
  <2>4. StorerHolds'
    <3> SUFFICES ASSUME NEW q \in Posters
                 PROVE  IF poster'[q].stage = "store"
                        THEN /\ \A r2 \in Posters : poster'[r2].stage = "store" => r2 = q
                             /\ poster'[q].event \in Events
                             /\ poster'[q].seen = Events /\ bits' = Events
                             /\ event'[poster'[q].event].stage = "ready"
                             /\ event'[poster'[q].event].packet = poster'[q].packet
                        ELSE poster'[q].event = "none"
      BY DEF StorerHolds
    <3>1. CASE q = p
      BY <3>1, <1>2, <1>1
    <3>2. CASE q # p
      <4>1. poster'[q] = poster[q]
        BY <3>2, <2>1
      <4>2. \A r2 \in Posters : poster'[r2].stage = "store" => poster[r2].stage = "store"
        BY <2>1
      <4> QED
        BY <4>1, <4>2, <1>2, <1>0 DEF StorerHolds
    <3> QED
      BY <3>1, <3>2
  <2>5. EventHeld'
    BY <1>0, <1>2, <2>2, <2>3 DEF EventHeld
  <2>6. ListsHold'
    BY <1>0, <1>2, <2>2, <2>3 DEF ListsHold
  <2> QED
    BY <1>0, <1>2, <2>4, <2>5, <2>6 DEF PoolInv
<1>3. CASE IO!PostAny(p)
  <2>1. PICK width \in {1, 3} : IO!Post(p, width)
    BY <1>3 DEF IO!PostAny
  <2>2. poster[p].stage # "store" /\ UNCHANGED <<slot, bits, event, ready, main, clash>>
    BY <2>1 DEF IO!Post
  <2>3. CASE poster' = poster
    BY <2>2, <2>3, PoolStays
  <2>4. CASE poster' # poster
    <3> DEFINE r == [IO!Resting EXCEPT !.stage = "lock",
                                       !.packet = [by |-> p, n |-> ioPosted[p] + 1]]
    <3>1. poster' = [poster EXCEPT ![p] = r]
      BY <2>1, <2>4 DEF IO!Post
    <3>2. r.stage = "lock" /\ r.event = "none"
      BY DEF IO!Resting
    <3> HIDE DEF r
    <3> QED
      BY <2>2, <3>1, <3>2, <1>2
  <2> QED
    BY <2>3, <2>4
<1>4. CASE IO!PoolEmpty(p)
  <2>1. IO!Resting.stage = "idle" /\ IO!Resting.event = "none"
    BY DEF IO!Resting
  <2> QED
    BY <1>4, <2>1, <1>2 DEF IO!PoolEmpty
<1>5. CASE IO!PoolTake(p)
  <2>1. bits = {E} /\ ~IO!Locked /\ poster[p].stage = "lock"
    <3>1. bits # {} /\ ~IO!Locked /\ poster[p].stage = "lock"
      BY <1>5 DEF IO!PoolTake
    <3>2. bits \in SUBSET {E}
      BY DEF IOShape
    <3> QED
      BY <3>1, <3>2
  <2>2. event[E].stage = "free"
    BY <1>0, <2>1 DEF EventHeld
  <2>3. PICK e \in bits :
          /\ poster' = [poster EXCEPT ![p].stage = "store", ![p].event = e, ![p].seen = bits]
          /\ clash' = (clash \/ event[e].stage # "free")
          /\ event' = [event EXCEPT ![e] = [stage |-> "ready", packet |-> poster[p].packet,
                                            seen |-> {}]]
    BY <1>5 DEF IO!PoolTake
  <2>4. e = E /\ ~clash'
    BY <2>1, <2>2, <2>3, <1>0
  <2>5. event'[E].stage = "ready" /\ event'[E].packet = poster[p].packet
    BY <2>3, <2>4, <1>1
  <2>6. poster'[p].stage = "store" /\ poster'[p].event = E /\ poster'[p].seen = bits
        /\ poster'[p].packet = poster[p].packet
    <3>1. poster' = [poster EXCEPT ![p] = [poster[p] EXCEPT !.stage = "store", !.event = E,
                                                            !.seen = bits]]
      BY <2>3, <2>4
    <3>2. poster'[p] = [poster[p] EXCEPT !.stage = "store", !.event = E, !.seen = bits]
      BY <3>1, <1>1
    <3> QED
      BY <3>2, <1>1 DEF PosterRecords
  <2>7. \A q \in Posters : q # p => poster'[q] = poster[q] /\ poster[q].stage # "store"
    BY <2>1, <2>3, <1>1 DEF IO!Locked
  <2>8. UNCHANGED <<slot, bits, ready, main>>
    BY <1>5 DEF IO!PoolTake
  <2>9. ready = <<>> /\ ~Swapped
    BY <1>0, <2>2 DEF ListsHold
  <2>10. StorerHolds'
    <3>1. \A q \in Posters : q # p => poster'[q].stage # "store" /\ poster'[q].event = "none"
      BY <2>7, <1>0 DEF StorerHolds
    <3> QED
      BY <3>1, <2>1, <2>5, <2>6, <2>8, <1>0 DEF StorerHolds
  <2>11. IO!Locked' /\ ~Swapped'
    BY <2>6, <2>8, <2>9 DEF IO!Locked, Swapped
  <2>12. EventHeld'
    <3>1. slot # E
      BY <1>0, <2>2 DEF EventHeld
    <3> QED
      BY <3>1, <2>5, <2>8, <2>11 DEF EventHeld
  <2>13. ListsHold'
    BY <1>0, <2>8, <2>9, <2>11 DEF ListsHold
  <2> QED
    BY <2>4, <2>10, <2>12, <2>13 DEF PoolInv
<1>6. CASE IO!PoolTaken(p)
  <2>1. poster[p].stage = "store"
    BY <1>6 DEF IO!PoolTaken
  <2>2. /\ poster[p].event = E /\ poster[p].seen = Events /\ bits = Events
        /\ event[E].stage = "ready" /\ ready = <<>> /\ ~Swapped
        /\ \A q \in Posters : poster[q].stage = "store" => q = p
    BY <2>1, <1>0, StorerFacts
  <2>3. bits' = {} /\ ready' = <<E>> /\ UNCHANGED <<slot, event, main, clash>>
    BY <1>6, <2>2 DEF IO!PoolTaken
  <2>4. poster'[p] = IO!Resting /\ \A q \in Posters : q # p => poster'[q] = poster[q]
    BY <1>6, <1>1 DEF IO!PoolTaken
  <2>5. \A q \in Posters : poster'[q].stage # "store" /\ poster'[q].event = "none"
    <3>1. IO!Resting.stage = "idle" /\ IO!Resting.event = "none"
      BY DEF IO!Resting
    <3>2. \A q \in Posters : q # p => poster[q].stage # "store" /\ poster[q].event = "none"
      BY <2>2, <1>0 DEF StorerHolds
    <3> QED
      BY <3>1, <3>2, <2>4
  <2>6. ~IO!Locked' /\ ~Swapped' /\ ready' # <<>>
    BY <2>2, <2>3, <2>5 DEF IO!Locked, Swapped
  <2>7. StorerHolds'
    BY <2>5 DEF StorerHolds
  <2>8. EventHeld'
    BY <1>0, <2>2, <2>3, <2>6 DEF EventHeld
  <2>9. ListsHold'
    BY <1>0, <2>2, <2>3, <2>6 DEF ListsHold
  <2> QED
    BY <1>0, <2>3, <2>7, <2>8, <2>9 DEF PoolInv
<1> QED
  BY <1>3, <1>4, <1>5, <1>6

(* What every step below that no poster takes has in common: no poster      *)
(* moves, and the rest of the invariant is about the one event.             *)
LEMMA EventPoolStep ==
  ASSUME NEW E, Events = {E}, IOShape, PoolInv, UNCHANGED <<poster, clash>>,
         \A q \in Posters : poster[q].stage = "store" =>
             bits' = Events /\ event'[E].stage = "ready" /\ event'[E].packet = event[E].packet,
         /\ event'[E].stage = "free" => E \in bits'
         /\ E \in bits' => event'[E].stage = "free" \/ IO!Locked
         /\ event'[E].stage = "freed" => event'[E].seen = {}
         /\ slot' = E <=> event'[E].stage = "posted"
         /\ event'[E].stage = "ready" => IO!Locked \/ ready' # <<>> \/ Swapped',
         /\ ready' = <<>> \/ ready' = <<E>>
         /\ main'.list = <<>> \/ main'.list = <<E>>
         /\ main'.stage \in {"send", "swap"} => main'.list = <<>>
         /\ main'.stage = "free" => main'.list # <<>>
         /\ ready' # <<>> => event'[E].stage = "ready" /\ ~IO!Locked /\ ~Swapped'
         /\ Swapped' => event'[E].stage = "ready" /\ ~IO!Locked
  PROVE  PoolInv'
<1>1. IO!Locked' = IO!Locked
  BY DEF IO!Locked
<1>2. StorerHolds'
  BY DEF PoolInv, StorerHolds
<1>3. EventHeld'
  BY <1>1 DEF EventHeld
<1>4. ListsHold'
  BY <1>1 DEF ListsHold
<1> QED
  BY <1>2, <1>3, <1>4 DEF PoolInv

(* What an event that has begun to be freed remembers.                      *)
LEMMA FreeFacts ==
  ASSUME NEW E, Events = {E}, IOShape, event' = IO!FreeBegin(E)
  PROVE  event'[E].stage = "freed" /\ event'[E].seen = bits
  BY DEF IO!FreeBegin, IOShape

(* The flush posts the events it took over, and frees those it cannot post. *)
LEMMA FlushPoolStep ==
  ASSUME NEW E, Events = {E}, IO!IOAssumption, IOShape, PoolInv,
         IO!FlushSend \/ IO!FlushSwap \/ IO!FlushPost \/ IO!FlushFree \/ IO!FlushFreed
           \/ IO!FlushEnd
  PROVE  PoolInv'
<1> USE OneEventFacts, IOFacts
<1>0. StorerHolds /\ EventHeld /\ ListsHold /\ ~clash /\ E \in Events
  BY DEF PoolInv
<1>1. /\ event \in [Events -> EventRecords] /\ bits \in SUBSET {E}
      /\ main \in [stage : {"send", "swap", "post", "free"}, list : Seq(Events)]
  BY DEF IOShape
<1>2. \A q \in Posters : poster[q].stage = "store" =>
          IO!Locked /\ bits = Events /\ event[E].stage = "ready" /\ ready = <<>> /\ ~Swapped
  BY <1>0, StorerFacts
<1>3. /\ event[E].stage = "free" => E \in bits
      /\ E \in bits => event[E].stage = "free" \/ IO!Locked
      /\ event[E].stage = "freed" => event[E].seen = {}
      /\ slot = E <=> event[E].stage = "posted"
      /\ event[E].stage = "ready" => IO!Locked \/ ready # <<>> \/ Swapped
  BY <1>0 DEF EventHeld
<1>4. /\ ready = <<>> \/ ready = <<E>>
      /\ main.list = <<>> \/ main.list = <<E>>
      /\ main.stage \in {"send", "swap"} => main.list = <<>>
      /\ main.stage = "free" => main.list # <<>>
      /\ ready # <<>> => event[E].stage = "ready" /\ ~IO!Locked /\ ~Swapped
      /\ Swapped => event[E].stage = "ready" /\ ~IO!Locked
  BY <1>0 DEF ListsHold
<1>5. CASE IO!FlushSend
  <2>1. main'.stage = "swap" /\ main'.list = main.list /\ main.stage = "send"
    BY <1>1, <1>5 DEF IO!FlushSend
  <2>2. slot' = E <=> slot = E
    BY <1>5 DEF IO!FlushSend
  <2>3. ~Swapped /\ ~Swapped'
    BY <2>1 DEF Swapped
  <2>4. UNCHANGED <<poster, clash, bits, event, ready>>
    BY <1>5 DEF IO!FlushSend
  <2> QED
    BY <1>2, <1>3, <1>4, <2>1, <2>2, <2>3, <2>4, EventPoolStep
<1>6. CASE IO!FlushSwap
  <2>1. main'.stage = "post" /\ main'.list = ready /\ main.stage = "swap" /\ ready' = <<>>
        /\ ~IO!Locked
    BY <1>1, <1>6 DEF IO!FlushSwap
  <2>2. ~Swapped /\ (Swapped' <=> ready # <<>>)
    BY <2>1 DEF Swapped
  <2>3. UNCHANGED <<poster, clash, bits, event, slot>>
    BY <1>6 DEF IO!FlushSwap
  <2> QED
    BY <1>2, <1>3, <1>4, <2>1, <2>2, <2>3, EventPoolStep
<1>7. ASSUME main.stage = "post", main.list # <<>>
      PROVE  /\ Swapped /\ event[E].stage = "ready" /\ ~IO!Locked /\ ready = <<>>
             /\ E \notin bits /\ slot # E
             /\ Head(main.list) = E /\ Tail(main.list) = <<>>
  <2>1. Swapped
    BY <1>7 DEF Swapped
  <2>2. Head(main.list) = E /\ Tail(main.list) = <<>>
    BY <1>0, <1>7, MainHead
  <2> QED
    BY <2>1, <2>2, <1>3, <1>4
<1>8. CASE IO!FlushPost
  <2>1. main.stage = "post" /\ main.list # <<>>
    BY <1>8 DEF IO!FlushPost
  <2>2. /\ Swapped /\ event[E].stage = "ready" /\ ~IO!Locked /\ ready = <<>>
        /\ E \notin bits /\ Head(main.list) = E /\ Tail(main.list) = <<>>
    BY <2>1, <1>7
  <2>3. event' = [event EXCEPT ![E].stage = "posted"] /\ slot' = E
        /\ main' = [main EXCEPT !.list = <<>>]
    BY <1>8, <2>2 DEF IO!FlushPost
  <2>4. main'.list = <<>> /\ main'.stage = "post"
    BY <1>1, <2>1, <2>3
  <2>5. event'[E].stage = "posted"
    BY <2>3, <1>0, StageFacts DEF EventStages
  <2>6. ~Swapped'
    BY <2>4 DEF Swapped
  <2>7. UNCHANGED <<poster, clash, bits, ready>>
    BY <1>8 DEF IO!FlushPost
  <2> QED
    BY <1>2, <2>2, <2>3, <2>4, <2>5, <2>6, <2>7, EventPoolStep
<1>9. CASE IO!FlushFree
  <2>1. main.stage = "post" /\ main.list # <<>>
    BY <1>9 DEF IO!FlushFree
  <2>2. /\ Swapped /\ event[E].stage = "ready" /\ ~IO!Locked /\ ready = <<>>
        /\ E \notin bits /\ slot # E
        /\ Head(main.list) = E /\ Tail(main.list) = <<>>
    BY <2>1, <1>7
  <2>3. event' = IO!FreeBegin(E) /\ main' = [stage |-> "free", list |-> main.list]
        /\ UNCHANGED <<poster, clash, bits, ready, slot>>
    BY <1>9, <2>2 DEF IO!FlushFree
  <2>4. bits = {}
    BY <1>1, <2>2
  <2>5. event'[E].stage = "freed" /\ event'[E].seen = {}
    BY <2>3, <2>4, FreeFacts
  <2>6. main'.stage = "free" /\ main'.list = main.list /\ ~Swapped'
    BY <2>3 DEF Swapped
  <2> QED
    BY <1>2, <1>4, <2>1, <2>2, <2>3, <2>4, <2>5, <2>6, EventPoolStep
<1>10. CASE IO!FlushFreed
  <2>1. main.stage = "free" /\ Tail(main.list) = <<>>
    BY <1>10, <1>0, <1>4, MainHead DEF IO!FlushFreed
  <2>2. main'.stage = "post" /\ main'.list = <<>>
    BY <1>10, <2>1 DEF IO!FlushFreed
  <2>3. ~Swapped /\ ~Swapped'
    BY <2>1, <2>2 DEF Swapped
  <2>4. UNCHANGED <<poster, clash, bits, event, ready, slot>>
    BY <1>10 DEF IO!FlushFreed
  <2> QED
    BY <1>2, <1>3, <1>4, <2>2, <2>3, <2>4, EventPoolStep
<1>11. CASE IO!FlushEnd
  <2>1. main.stage = "post" /\ main.list = <<>> /\ main'.stage = "send" /\ main'.list = <<>>
    BY <1>1, <1>11 DEF IO!FlushEnd
  <2>2. ~Swapped /\ ~Swapped'
    BY <2>1 DEF Swapped
  <2>3. UNCHANGED <<poster, clash, bits, event, ready, slot>>
    BY <1>11 DEF IO!FlushEnd
  <2> QED
    BY <1>2, <1>3, <1>4, <2>1, <2>2, <2>3, EventPoolStep
<1> QED
  BY <1>5, <1>6, <1>8, <1>9, <1>10, <1>11

(* A completion passes the event on, and the bitmap that a free stores is   *)
(* the empty one: nobody else moved it since it was loaded.                 *)
LEMMA CompletePoolStep ==
  ASSUME NEW E, Events = {E}, IO!IOAssumption, IOShape, PoolInv,
         \/ IO!SendCompletes \/ IO!SendFails \/ IO!SendHandled \/ IO!CompletesWithEof
         \/ IO!MulticastCompletes(E) \/ IO!MulticastFails(E) \/ IO!MulticastHandled(E)
         \/ IO!FreeEnd(E)
  PROVE  PoolInv'
<1> USE OneEventFacts, IOFacts
<1>0. StorerHolds /\ EventHeld /\ ListsHold /\ ~clash /\ E \in Events
  BY DEF PoolInv
<1>1. /\ event \in [Events -> EventRecords] /\ bits \in SUBSET {E}
      /\ slot \in Events \cup {"none", "send"}
  BY DEF IOShape
<1>2. \A q \in Posters : poster[q].stage = "store" =>
          IO!Locked /\ bits = Events /\ event[E].stage = "ready" /\ ready = <<>> /\ ~Swapped
  BY <1>0, StorerFacts
<1>3. /\ event[E].stage = "free" => E \in bits
      /\ E \in bits => event[E].stage = "free" \/ IO!Locked
      /\ event[E].stage = "freed" => event[E].seen = {}
      /\ slot = E <=> event[E].stage = "posted"
      /\ event[E].stage = "ready" => IO!Locked \/ ready # <<>> \/ Swapped
  BY <1>0 DEF EventHeld
<1>4. /\ ready = <<>> \/ ready = <<E>>
      /\ main.list = <<>> \/ main.list = <<E>>
      /\ main.stage \in {"send", "swap"} => main.list = <<>>
      /\ main.stage = "free" => main.list # <<>>
      /\ ready # <<>> => event[E].stage = "ready" /\ ~IO!Locked /\ ~Swapped
      /\ Swapped => event[E].stage = "ready" /\ ~IO!Locked
  BY <1>0 DEF ListsHold
<1>5. IO!Locked => event[E].stage = "ready"
  BY <1>2 DEF IO!Locked
<1>6. ASSUME UNCHANGED <<poster, clash, bits, ready, main, event>>, slot' # E, slot # E
      PROVE  PoolInv'
  <2>1. Swapped' = Swapped
    BY <1>6 DEF Swapped
  <2> QED
    BY <1>2, <1>3, <1>4, <1>6, <2>1, EventPoolStep
<1>7. ASSUME UNCHANGED <<poster, clash, bits, ready, main>>, event[E].stage = "posted",
             event'[E].stage \in {"handled", "over"}, slot' # E
      PROVE  PoolInv'
  <2>1. Swapped' = Swapped
    BY <1>7 DEF Swapped
  <2> QED
    BY <1>2, <1>3, <1>4, <1>5, <1>7, <2>1, EventPoolStep
<1>8. CASE IO!SendCompletes \/ IO!SendFails
  BY <1>8, <1>6 DEF IO!SendCompletes, IO!SendFails
<1>9. CASE IO!SendHandled
  <2>1. UNCHANGED <<slot, bits, event, ready, main, poster, clash>>
    BY <1>9 DEF IO!SendHandled
  <2> QED
    BY <2>1, PoolStays
<1>10. CASE IO!CompletesWithEof
  <2>1. UNCHANGED <<poster, clash, bits, ready, main>> /\ slot' = "none" /\ slot # "none"
    BY <1>10 DEF IO!CompletesWithEof
  <2>2. CASE slot = "send"
    <3>1. UNCHANGED event
      BY <1>10, <2>2 DEF IO!CompletesWithEof
    <3> QED
      BY <2>1, <2>2, <3>1, <1>6
  <2>3. CASE slot # "send"
    <3>1. slot = E /\ event' = [event EXCEPT ![slot].stage = "over"]
      BY <1>10, <2>1, <2>3, <1>1 DEF IO!CompletesWithEof
    <3>2. event' = [event EXCEPT ![E].stage = "over"]
      BY <3>1
    <3>3. event'[E].stage = "over"
      BY <3>2, <1>0, StageFacts DEF EventStages
    <3> QED
      BY <2>1, <3>1, <3>3, <1>3, <1>7
  <2> QED
    BY <2>2, <2>3
<1>11. CASE IO!MulticastCompletes(E) \/ IO!MulticastFails(E)
  <2>1. /\ UNCHANGED <<poster, clash, bits, ready, main>> /\ slot' = "none" /\ slot = E
        /\ event' = [event EXCEPT ![E].stage = "handled"]
    BY <1>11 DEF IO!MulticastCompletes, IO!MulticastFails
  <2>2. event'[E].stage = "handled"
    BY <2>1, <1>0, StageFacts DEF EventStages
  <2> QED
    BY <2>1, <2>2, <1>3, <1>7
<1>12. CASE IO!MulticastHandled(E)
  <2>1. event[E].stage = "handled" /\ event' = IO!FreeBegin(E)
        /\ UNCHANGED <<poster, clash, bits, ready, main, slot>>
    BY <1>12 DEF IO!MulticastHandled
  <2>2. bits = {} /\ slot # E /\ ~IO!Locked /\ ready = <<>> /\ ~Swapped
    BY <1>1, <1>3, <1>4, <1>5, <2>1
  <2>3. event'[E].stage = "freed" /\ event'[E].seen = {}
    BY <2>1, <2>2, FreeFacts
  <2>4. ~Swapped'
    BY <2>1, <2>2 DEF Swapped
  <2> QED
    BY <1>2, <1>4, <2>1, <2>2, <2>3, <2>4, EventPoolStep
<1>13. CASE IO!FreeEnd(E)
  <2>1. event[E].stage = "freed" /\ event' = [event EXCEPT ![E] = IO!Unused]
        /\ bits' = event[E].seen \cup {E}
        /\ UNCHANGED <<poster, clash, ready, main, slot>>
    BY <1>13 DEF IO!FreeEnd
  <2>2. E \in bits' /\ slot # E /\ ~IO!Locked /\ ready = <<>> /\ ~Swapped
    BY <1>3, <1>4, <1>5, <2>1
  <2>3. event'[E].stage = "free"
    BY <2>1, <1>1 DEF IO!Unused
  <2>4. ~Swapped'
    BY <2>1, <2>2 DEF Swapped
  <2> QED
    BY <1>2, <1>4, <2>1, <2>2, <2>3, <2>4, EventPoolStep
<1> QED
  BY <1>8, <1>9, <1>10, <1>11, <1>12, <1>13

(* Every action keeps the pool's invariant. *)
LEMMA PoolStep ==
  ASSUME NEW E, Events = {E}, IO!IOAssumption, IOShape, PoolInv, IO!Next
  PROVE  PoolInv'
  BY PosterPoolStep, FlushPoolStep, CompletePoolStep, IOCases, OneEventFacts DEF IOActions

(* The invariant says what the run checks.                                  *)
LEMMA PoolHolds ==
  ASSUME NEW E, Events = {E}, IO!IOAssumption, PoolInv
  PROVE  IO!PoolIsConsistent
<1>1. ~clash /\ StorerHolds /\ EventHeld /\ ListsHold
  BY DEF PoolInv
<1>2. ASSUME NEW e \in Events, e \in bits, event[e].stage # "free"
      PROVE  \E p \in Posters : poster[p].event = e
  <2>1. PICK p \in Posters : poster[p].stage = "store"
    BY <1>1, <1>2 DEF EventHeld, IO!Locked
  <2> QED
    BY <2>1, <1>1, StorerFacts, OneEventFacts
<1> QED
  BY <1>1, <1>2 DEF IO!PoolIsConsistent, EventHeld

----------------------------------------------------------------------------
(* What is in a sequence, and what is left when its front is gone.          *)
LEMMA ElementFacts ==
  ASSUME NEW S, NEW s \in Seq(S)
  PROVE  /\ \A x : x \in IO!Elements(s) <=> \E i \in 1 .. Len(s) : s[i] = x
         /\ \A x \in S : \A y : y \in IO!Elements(Append(s, x)) <=> y \in IO!Elements(s) \/ y = x
  <1>1. \A t \in Seq(S) : \A x : x \in IO!Elements(t) <=> \E i \in 1 .. Len(t) : t[i] = x
    BY DEF IO!Elements
  <1>2. ASSUME NEW x \in S, NEW y
        PROVE  y \in IO!Elements(Append(s, x)) <=> y \in IO!Elements(s) \/ y = x
    <2>1. /\ Append(s, x) \in Seq(S) /\ Len(s) \in Nat /\ Len(Append(s, x)) = Len(s) + 1
          /\ Append(s, x)[Len(s) + 1] = x
          /\ \A i \in 1 .. Len(s) : Append(s, x)[i] = s[i]
      OBVIOUS
    <2>2. \A i \in 1 .. Len(s) + 1 : i \in 1 .. Len(s) \/ i = Len(s) + 1
      BY <2>1
    <2>3. Len(s) + 1 \in 1 .. Len(s) + 1 /\ \A i \in 1 .. Len(s) : i \in 1 .. Len(s) + 1
      BY <2>1
    <2>4. y \in IO!Elements(Append(s, x)) <=> \E i \in 1 .. Len(s) + 1 : Append(s, x)[i] = y
      BY <2>1, <1>1
    <2>5. y \in IO!Elements(s) <=> \E i \in 1 .. Len(s) : s[i] = y
      BY <1>1
    <2> QED
      BY <2>1, <2>2, <2>3, <2>4, <2>5
  <1> QED
    BY <1>1, <1>2

(* Appending something new keeps the elements distinct. *)
LEMMA DistinctAppend ==
  ASSUME NEW S, NEW s \in Seq(S), Distinct(s), NEW x \in S,
         \A i \in 1 .. Len(s) : s[i] # x
  PROVE  Distinct(Append(s, x))
<1>1. /\ Len(s) \in Nat /\ Len(Append(s, x)) = Len(s) + 1
      /\ Append(s, x)[Len(s) + 1] = x /\ \A i \in 1 .. Len(s) : Append(s, x)[i] = s[i]
  OBVIOUS
<1>2. \A i \in 1 .. Len(s) + 1 : i \in 1 .. Len(s) \/ i = Len(s) + 1
  BY <1>1
<1> QED
  BY <1>1, <1>2 DEF Distinct

(* The front of a sequence of distinct elements, and the rest of it.        *)
LEMMA FrontAndRest ==
  ASSUME NEW S, NEW s \in Seq(S), NEW f \in Seq(S), Distinct(s), Len(f) <= Len(s),
         \A i \in 1 .. Len(f) : f[i] = s[i]
  PROVE  LET r == SubSeq(s, Len(f) + 1, Len(s)) IN
         /\ r \in Seq(S) /\ Distinct(r) /\ Distinct(f)
         /\ \A x : x \in IO!Elements(r) <=> x \in IO!Elements(s) /\ x \notin IO!Elements(f)
         /\ \A i \in 1 .. Len(r) : r[i] \in IO!Elements(s)
<1> DEFINE r == SubSeq(s, Len(f) + 1, Len(s))
<1>1. /\ Len(f) \in Nat /\ Len(s) \in Nat /\ Len(f) <= Len(s)
      /\ r \in Seq(S) /\ Len(r) = Len(s) - Len(f)
      /\ \A i \in 1 .. Len(s) - Len(f) : r[i] = s[Len(f) + i]
  BY SeqFacts
<1> HIDE DEF r
<1>2. \A i \in 1 .. Len(r) : Len(f) + i \in 1 .. Len(s) /\ Len(f) + i \notin 1 .. Len(f)
  BY <1>1
<1>3. \A i \in 1 .. Len(s) : i \in 1 .. Len(f)
                             \/ (i - Len(f) \in 1 .. Len(r) /\ Len(f) + (i - Len(f)) = i)
  BY <1>1
<1>4. \A i \in 1 .. Len(f) : i \in 1 .. Len(s)
  BY <1>1
<1>5. \A i \in 1 .. Len(r) : r[i] = s[Len(f) + i]
  BY <1>1
<1>6. Distinct(f)
  BY <1>4 DEF Distinct
<1>7. Distinct(r)
  <2>1. \A i, j \in 1 .. Len(r) : r[i] = r[j] => Len(f) + i = Len(f) + j
    BY <1>2, <1>5 DEF Distinct
  <2>2. \A i, j \in 1 .. Len(r) : Len(f) + i = Len(f) + j => i = j
    BY <1>1
  <2> QED
    BY <2>1, <2>2 DEF Distinct
<1>8. /\ \A x : x \in IO!Elements(r) <=> \E i \in 1 .. Len(r) : r[i] = x
      /\ \A x : x \in IO!Elements(s) <=> \E i \in 1 .. Len(s) : s[i] = x
      /\ \A x : x \in IO!Elements(f) <=> \E i \in 1 .. Len(f) : f[i] = x
  BY <1>1, ElementFacts
<1>9. ASSUME NEW x
      PROVE  x \in IO!Elements(r) <=> x \in IO!Elements(s) /\ x \notin IO!Elements(f)
  <2>1. ASSUME x \in IO!Elements(r)
        PROVE  x \in IO!Elements(s) /\ x \notin IO!Elements(f)
    <3>1. PICK i \in 1 .. Len(r) : r[i] = x
      BY <2>1, <1>8
    <3>2. s[Len(f) + i] = x /\ Len(f) + i \in 1 .. Len(s) /\ Len(f) + i \notin 1 .. Len(f)
      BY <3>1, <1>2, <1>5
    <3>3. \A j \in 1 .. Len(f) : f[j] # x
      BY <3>2, <1>4 DEF Distinct
    <3> QED
      BY <3>2, <3>3, <1>8
  <2>2. ASSUME x \in IO!Elements(s), x \notin IO!Elements(f)
        PROVE  x \in IO!Elements(r)
    <3>1. PICK i \in 1 .. Len(s) : s[i] = x
      BY <2>2, <1>8
    <3>2. i \notin 1 .. Len(f)
      BY <3>1, <2>2, <1>8
    <3>3. i - Len(f) \in 1 .. Len(r) /\ Len(f) + (i - Len(f)) = i
      BY <3>2, <1>3
    <3>4. r[i - Len(f)] = x
      BY <3>1, <3>3, <1>5
    <3> QED
      BY <3>3, <3>4, <1>8
  <2> QED
    BY <2>1, <2>2
<1>10. \A i \in 1 .. Len(r) : r[i] \in IO!Elements(s)
  BY <1>8, <1>9
<1> QED
  BY <1>1, <1>6, <1>7, <1>9, <1>10 DEF r

(* Two sequences of distinct elements that share none, one after the other. *)
LEMMA DistinctConcat ==
  ASSUME NEW S, NEW s \in Seq(S), NEW t \in Seq(S), Distinct(s), Distinct(t),
         \A i \in 1 .. Len(t) : t[i] \notin IO!Elements(s)
  PROVE  /\ Distinct(s \o t)
         /\ \A x : x \in IO!Elements(s \o t)
                     <=> x \in IO!Elements(s) \/ x \in IO!Elements(t)
<1>1. /\ s \o t \in Seq(S) /\ Len(s \o t) = Len(s) + Len(t)
      /\ Len(s) \in Nat /\ Len(t) \in Nat
      /\ \A k \in 1 .. Len(s) : (s \o t)[k] = s[k]
      /\ \A m \in 1 .. Len(t) : (s \o t)[Len(s) + m] = t[m]
  BY ConcatFacts
<1> DEFINE u == s \o t
<1>2. /\ u \in Seq(S) /\ Len(u) = Len(s) + Len(t)
      /\ \A k \in 1 .. Len(s) : u[k] = s[k]
      /\ \A m \in 1 .. Len(t) : u[Len(s) + m] = t[m]
  BY <1>1
<1> HIDE DEF u
<1>3. \A i \in 1 .. Len(u) : i \in 1 .. Len(s)
                             \/ (i - Len(s) \in 1 .. Len(t) /\ Len(s) + (i - Len(s)) = i)
  BY <1>1, <1>2
<1>4. /\ \A i \in 1 .. Len(s) : i \in 1 .. Len(u)
      /\ \A m \in 1 .. Len(t) : Len(s) + m \in 1 .. Len(u)
  BY <1>1, <1>2
<1>5. /\ \A x : x \in IO!Elements(s) <=> \E i \in 1 .. Len(s) : s[i] = x
      /\ \A x : x \in IO!Elements(t) <=> \E i \in 1 .. Len(t) : t[i] = x
  BY ElementFacts
<1>6. Distinct(u)
  <2> SUFFICES ASSUME NEW i \in 1 .. Len(u), NEW j \in 1 .. Len(u), u[i] = u[j]
               PROVE  i = j
    BY DEF Distinct
  <2>1. CASE i \in 1 .. Len(s) /\ j \in 1 .. Len(s)
    BY <2>1, <1>2 DEF Distinct
  <2>2. CASE i \notin 1 .. Len(s) /\ j \notin 1 .. Len(s)
    <3>1. /\ i - Len(s) \in 1 .. Len(t) /\ Len(s) + (i - Len(s)) = i
          /\ j - Len(s) \in 1 .. Len(t) /\ Len(s) + (j - Len(s)) = j
      BY <2>2, <1>3
    <3>2. t[i - Len(s)] = t[j - Len(s)]
      BY <3>1, <1>2
    <3>3. i - Len(s) = j - Len(s)
      BY <3>1, <3>2 DEF Distinct
    <3> QED
      BY <3>1, <3>3
  <2>3. ASSUME NEW a \in 1 .. Len(u), NEW b \in 1 .. Len(u), a \in 1 .. Len(s),
               b \notin 1 .. Len(s)
        PROVE  u[a] # u[b]
    <3>1. b - Len(s) \in 1 .. Len(t) /\ Len(s) + (b - Len(s)) = b
      BY <2>3, <1>3
    <3>2. u[b] = t[b - Len(s)] /\ u[a] = s[a]
      BY <3>1, <2>3, <1>2
    <3> QED
      BY <2>3, <3>1, <3>2, <1>5
  <2> QED
    BY <2>1, <2>2, <2>3
<1>7. ASSUME NEW x
      PROVE  (\E i \in 1 .. Len(u) : u[i] = x)
               <=> (\E i \in 1 .. Len(s) : s[i] = x) \/ x \in IO!Elements(t)
  <2>1. ASSUME NEW i \in 1 .. Len(u), u[i] = x
        PROVE  (\E l \in 1 .. Len(s) : s[l] = x) \/ \E l \in 1 .. Len(t) : t[l] = x
    BY <2>1, <1>2, <1>3
  <2>2. ASSUME NEW i \in 1 .. Len(s), s[i] = x PROVE \E l \in 1 .. Len(u) : u[l] = x
    BY <2>2, <1>2, <1>4
  <2>3. ASSUME NEW i \in 1 .. Len(t), t[i] = x PROVE \E l \in 1 .. Len(u) : u[l] = x
    BY <2>3, <1>2, <1>4
  <2> QED
    BY <2>1, <2>2, <2>3, <1>5
<1>8. \A x : x \in IO!Elements(u) <=> \E i \in 1 .. Len(u) : u[i] = x
  <2>1. u \in Seq(S)
    BY <1>2
  <2> QED
    BY <2>1, ElementFacts
<1>9. \A x : x \in IO!Elements(u) <=> x \in IO!Elements(s) \/ x \in IO!Elements(t)
  BY <1>5, <1>7, <1>8
<1>10. u = s \o t
  BY DEF u
<1> QED
  BY <1>6, <1>9, <1>10

----------------------------------------------------------------------------
(* A packet that waits, with the one event.                                 *)
LEMMA WaitFacts ==
  ASSUME NEW E, Events = {E}, IO!IOAssumption, IOShape, PacketInv
  PROVE  /\ \A k : IO!Waiting(k) <=>
               \/ \E p \in Posters : poster[p].packet = k
               \/ event[E].stage \in {"ready", "posted"} /\ event[E].packet = k
         /\ \A k : IO!Waiting(k)' <=>
               \/ \E p \in Posters : poster'[p].packet = k
               \/ event'[E].stage \in {"ready", "posted"} /\ event'[E].packet = k
         /\ event[E].stage \in {"ready", "posted"} =>
               /\ event[E].packet \in IO!Packet /\ InOnePlace(event[E].packet)
               /\ event[E].packet.n <= ioPosted[event[E].packet.by]
<1> USE OneEventFacts
<1>1. \A k : IO!Waiting(k) <=>
               \/ \E p \in Posters : poster[p].packet = k
               \/ event[E].stage \in {"ready", "posted"} /\ event[E].packet = k
  BY DEF IO!Waiting
<1>2. \A k : IO!Waiting(k)' <=>
               \/ \E p \in Posters : poster'[p].packet = k
               \/ event'[E].stage \in {"ready", "posted"} /\ event'[E].packet = k
  BY DEF IO!Waiting
<1>3. ASSUME event[E].stage \in {"ready", "posted"}
      PROVE  /\ event[E].packet \in IO!Packet /\ InOnePlace(event[E].packet)
             /\ event[E].packet.n <= ioPosted[event[E].packet.by]
  <2>1. PICK k \in IO!Packet : k = event[E].packet
    BY <1>3 DEF PacketInv, EventsHold
  <2>2. IO!Waiting(k)
    BY <2>1, <1>1, <1>3
  <2>3. ~InNoPlace(k)
    BY <2>2 DEF InNoPlace
  <2>4. InOnePlace(k) /\ k.n <= ioPosted[k.by]
    BY <2>3 DEF PacketInv, Accounted
  <2> QED
    BY <2>1, <2>4
<1> QED
  BY <1>1, <1>2, <1>3

(* Every packet is where it was. *)
LEMMA AccountStays ==
  ASSUME Accounted, ioPosted' = ioPosted,
         \A k \in IO!Packet : /\ Came(k)' <=> Came(k)
                              /\ Refused(k)' <=> Refused(k)
                              /\ GivenUp(k)' <=> GivenUp(k)
                              /\ InBuffer(k)' <=> InBuffer(k)
                              /\ IO!Waiting(k)' <=> IO!Waiting(k)
  PROVE  Accounted'
<1> SUFFICES ASSUME NEW k \in IO!Packet
             PROVE  IF k.n <= ioPosted'[k.by] THEN InOnePlace(k)' ELSE InNoPlace(k)'
  BY DEF Accounted
<1>1. /\ Came(k)' <=> Came(k)
      /\ Refused(k)' <=> Refused(k)
      /\ GivenUp(k)' <=> GivenUp(k)
      /\ InBuffer(k)' <=> InBuffer(k)
      /\ IO!Waiting(k)' <=> IO!Waiting(k)
  OBVIOUS
<1>2. (InOnePlace(k)' <=> InOnePlace(k)) /\ (InNoPlace(k)' <=> InNoPlace(k))
  BY <1>1 DEF InOnePlace, InNoPlace, OneOf
<1> QED
  BY <1>2 DEF Accounted

(* The posters that wait for the lock do not hold the event's packet when   *)
(* neither they nor the event move.                                         *)
LEMMA HoldersStay ==
  ASSUME NEW E, Events = {E}, PostersHold, EventsHold, UNCHANGED <<poster, ioPosted>>,
         event'[E].stage \in {"ready", "posted"} =>
             event[E].stage \in {"ready", "posted"} /\ event'[E].packet = event[E].packet
  PROVE  PostersHold' /\ EventsHold'
<1>1. EventsHold'
  BY DEF EventsHold
<1>2. PostersHold'
  BY DEF PostersHold
<1> QED
  BY <1>1, <1>2

(* A packet that is posted goes to the buffer, or waits for an event.       *)
LEMMA PostPacketStep ==
  ASSUME NEW E, Events = {E}, IO!IOAssumption, IOShape, PacketInv,
         NEW p \in Posters, IO!PostAny(p)
  PROVE  PacketInv'
<1> USE OneEventFacts
<1>0. Accounted /\ FrontIsSent /\ PostersHold /\ EventsHold
  BY DEF PacketInv
<1>1. PICK width \in {1, 3} : IO!Post(p, width)
  BY DEF IO!PostAny
<1>2. /\ ioPosted[p] \in 0 .. MaxPosts /\ ioPosted[p] < MaxPosts /\ MaxPosts \in Nat
      /\ poster[p].stage = "idle" /\ ioPosted' = [ioPosted EXCEPT ![p] = @ + 1]
      /\ UNCHANGED <<sending, slot, event, received, fate>>
  BY <1>1, IOFacts DEF IO!Post, IOShape
<1>3. PICK k0 \in IO!Packet : k0 = [by |-> p, n |-> ioPosted[p] + 1]
  <2>1. ioPosted[p] + 1 \in 1 .. MaxPosts
    BY <1>2
  <2> QED
    BY <2>1, IOFacts
<1>4. k0.by = p /\ k0.n = ioPosted[p] + 1
  BY <1>3
<1>5. /\ \A q \in Posters : ioPosted'[q] \in Nat /\ ioPosted[q] \in Nat
      /\ ioPosted'[p] = ioPosted[p] + 1 /\ \A q \in Posters : q # p => ioPosted'[q] = ioPosted[q]
  BY <1>2 DEF IOShape
<1>6. \A k \in IO!Packet : /\ k.n \in Nat /\ k.by \in Posters
                           /\ k # k0 => k.by # p \/ k.n # ioPosted[p] + 1
  BY <1>2, <1>3, IOFacts
<1>7. ASSUME NEW k \in IO!Packet, k # k0
      PROVE  k.n <= ioPosted'[k.by] <=> k.n <= ioPosted[k.by]
  <2>1. CASE k.by = p
    BY <2>1, <1>5, <1>6, <1>7
  <2>2. CASE k.by # p
    BY <2>2, <1>5, <1>6
  <2> QED
    BY <2>1, <2>2
<1>8. ~(k0.n <= ioPosted[k0.by]) /\ k0.n <= ioPosted'[k0.by]
  BY <1>4, <1>5
<1>9. InNoPlace(k0)
  BY <1>0, <1>8 DEF Accounted
<1>10. \A k \in IO!Packet : /\ Came(k)' <=> Came(k)
                            /\ Refused(k)' <=> Refused(k)
                            /\ GivenUp(k)' <=> GivenUp(k)
  BY <1>2 DEF Came, Refused, GivenUp
<1>11. ASSUME \A k \in IO!Packet : k # k0 => /\ InBuffer(k)' <=> InBuffer(k)
                                             /\ IO!Waiting(k)' <=> IO!Waiting(k),
              InOnePlace(k0)'
       PROVE  Accounted'
  <2> SUFFICES ASSUME NEW k \in IO!Packet
               PROVE  IF k.n <= ioPosted'[k.by] THEN InOnePlace(k)' ELSE InNoPlace(k)'
    BY DEF Accounted
  <2>1. CASE k = k0
    BY <2>1, <1>8, <1>11
  <2>2. CASE k # k0
    <3>1. (InOnePlace(k)' <=> InOnePlace(k)) /\ (InNoPlace(k)' <=> InNoPlace(k))
      BY <2>2, <1>10, <1>11 DEF InOnePlace, InNoPlace, OneOf
    <3> QED
      BY <2>2, <3>1, <1>0, <1>7 DEF Accounted
  <2> QED
    BY <2>1, <2>2
<1>12. \A k : /\ IO!Waiting(k) <=>
                   \/ \E q \in Posters : poster[q].packet = k
                   \/ event[E].stage \in {"ready", "posted"} /\ event[E].packet = k
              /\ IO!Waiting(k)' <=>
                   \/ \E q \in Posters : poster'[q].packet = k
                   \/ event'[E].stage \in {"ready", "posted"} /\ event'[E].packet = k
  BY WaitFacts
<1>13. buf \in Seq(IO!Packet) /\ sending.packets \in Seq(IO!Packet)
       /\ poster \in [Posters -> PosterRecords]
  BY DEF IOShape
<1>14. CASE buf' = Append(buf, k0) /\ poster' = poster
  <2>1. \A k : k \in IO!Elements(buf') <=> k \in IO!Elements(buf) \/ k = k0
    BY <1>13, <1>14, ElementFacts
  <2>2. \A i \in 1 .. Len(buf) : buf[i] # k0
    BY <1>0, <1>8 DEF FrontIsSent
  <2>3. k0 \notin IO!Elements(buf)
    BY <1>13, <2>2, ElementFacts
  <2>4. k0 \notin IO!Elements(sending.packets)
    <3>1. \A i \in 1 .. Len(sending.packets) : sending.packets[i] = buf[i] /\ i \in 1 .. Len(buf)
      BY <1>0, <1>13 DEF FrontIsSent
    <3> QED
      BY <3>1, <2>2, <1>13, ElementFacts
  <2>5. \A k \in IO!Packet : k # k0 => (InBuffer(k)' <=> InBuffer(k))
    BY <1>2, <2>1 DEF InBuffer
  <2>6. InBuffer(k0)'
    BY <1>2, <2>1, <2>4 DEF InBuffer
  <2>7. \A k \in IO!Packet : IO!Waiting(k)' <=> IO!Waiting(k)
    BY <1>2, <1>12, <1>14
  <2>8. InOnePlace(k0)'
    BY <1>9, <1>10, <2>6, <2>7 DEF InOnePlace, InNoPlace, OneOf
  <2>9. Accounted'
    BY <2>5, <2>7, <2>8, <1>11
  <2>10. FrontIsSent'
    <3>1. Distinct(buf')
      BY <1>0, <1>13, <1>14, <2>2, DistinctAppend DEF FrontIsSent
    <3>2. /\ Len(buf) \in Nat /\ Len(buf') = Len(buf) + 1 /\ buf'[Len(buf) + 1] = k0
          /\ \A i \in 1 .. Len(buf) : buf'[i] = buf[i]
          /\ Len(sending.packets) \in Nat
      BY <1>13, <1>14
    <3>3. \A i \in 1 .. Len(buf') : i \in 1 .. Len(buf) \/ i = Len(buf) + 1
      BY <3>2
    <3>4. \A i \in 1 .. Len(buf') : buf'[i].n <= ioPosted'[buf'[i].by]
      <4> TAKE i \in 1 .. Len(buf')
      <4>1. CASE i \in 1 .. Len(buf)
        <5>1. PICK k \in IO!Packet : k = buf[i]
          BY <4>1, <1>13
        <5>2. k.n <= ioPosted[k.by]
          BY <4>1, <5>1, <1>0 DEF FrontIsSent
        <5>3. k # k0
          BY <4>1, <5>1, <2>2
        <5> QED
          BY <4>1, <5>1, <5>2, <5>3, <3>2, <1>7
      <4>2. CASE i = Len(buf) + 1
        BY <4>2, <3>2, <1>8
      <4> QED
        BY <4>1, <4>2, <3>3
    <3>5. Len(sending.packets) <= Len(buf')
          /\ \A i \in 1 .. Len(sending.packets) : sending.packets[i] = buf'[i]
      <4>1. Len(sending.packets) <= Len(buf)
            /\ \A i \in 1 .. Len(sending.packets) : sending.packets[i] = buf[i]
        BY <1>0 DEF FrontIsSent
      <4>2. \A i \in 1 .. Len(sending.packets) : i \in 1 .. Len(buf)
        BY <4>1, <3>2
      <4> QED
        BY <4>1, <4>2, <3>2
    <3> QED
      BY <3>1, <3>4, <3>5, <1>0, <1>2 DEF FrontIsSent
  <2>11. PostersHold'
    <3> SUFFICES ASSUME NEW q \in Posters
                 PROVE  /\ IF poster[q].stage = "idle" THEN poster[q].packet = IO!NoPacket
                           ELSE /\ ioPosted'[q] >= 1
                                /\ poster[q].packet = [by |-> q, n |-> ioPosted'[q]]
                        /\ poster[q].stage = "lock" =>
                             \A e \in Events : event[e].stage \in {"ready", "posted"}
                                                 => event[e].packet # poster[q].packet
      BY <1>2, <1>14 DEF PostersHold
    <3>1. q = p => poster[q].stage = "idle"
      BY <1>2
    <3>2. q # p => ioPosted'[q] = ioPosted[q]
      BY <1>5
    <3> QED
      BY <3>1, <3>2, <1>0 DEF PostersHold
  <2>12. EventsHold'
    BY <1>0, <1>2 DEF EventsHold
  <2> QED
    BY <2>9, <2>10, <2>11, <2>12 DEF PacketInv
<1>15. CASE buf' = buf /\ poster' = [poster EXCEPT ![p] = [IO!Resting EXCEPT !.stage = "lock",
                                                                             !.packet = k0]]
  <2>1. /\ poster'[p].packet = k0 /\ poster'[p].stage = "lock"
        /\ \A q \in Posters : q # p => poster'[q] = poster[q]
    BY <1>13, <1>15 DEF IO!Resting
  <2>2. poster[p].packet = IO!NoPacket
    BY <1>0, <1>2 DEF PostersHold
  <2>3. \A k \in IO!Packet : (\E q \in Posters : poster'[q].packet = k)
                               <=> (\E q \in Posters : poster[q].packet = k) \/ k = k0
    BY <2>1, <2>2, IOFacts
  <2>4. \A k \in IO!Packet : IO!Waiting(k)' <=> IO!Waiting(k) \/ k = k0
    BY <2>3, <1>2, <1>12
  <2>5. \A k \in IO!Packet : InBuffer(k)' <=> InBuffer(k)
    BY <1>2, <1>15 DEF InBuffer
  <2>6. InOnePlace(k0)'
    BY <1>9, <1>10, <2>4, <2>5 DEF InOnePlace, InNoPlace, OneOf
  <2>7. Accounted'
    BY <2>4, <2>5, <2>6, <1>11
  <2>8. FrontIsSent'
    <3>1. \A i \in 1 .. Len(buf) : buf[i].n <= ioPosted'[buf[i].by]
      <4> TAKE i \in 1 .. Len(buf)
      <4>1. PICK k \in IO!Packet : k = buf[i]
        BY <1>13
      <4>2. k.n <= ioPosted[k.by]
        BY <4>1, <1>0 DEF FrontIsSent
      <4> QED
        BY <4>1, <4>2, <1>7, <1>8
    <3> QED
      BY <3>1, <1>0, <1>2, <1>15 DEF FrontIsSent
  <2>9. event[E].stage \in {"ready", "posted"} => event[E].packet # k0
    BY <1>9, <1>12 DEF InNoPlace
  <2>10. PostersHold'
    <3> SUFFICES ASSUME NEW q \in Posters
                 PROVE  /\ IF poster'[q].stage = "idle" THEN poster'[q].packet = IO!NoPacket
                           ELSE /\ ioPosted'[q] >= 1
                                /\ poster'[q].packet = [by |-> q, n |-> ioPosted'[q]]
                        /\ poster'[q].stage = "lock" =>
                             \A e \in Events : event[e].stage \in {"ready", "posted"}
                                                 => event[e].packet # poster'[q].packet
      BY <1>2 DEF PostersHold
    <3>1. CASE q = p
      <4>1. ioPosted'[q] >= 1 /\ k0 = [by |-> q, n |-> ioPosted'[q]]
        BY <3>1, <1>2, <1>3, <1>5
      <4> QED
        BY <3>1, <4>1, <2>1, <2>9
    <3>2. CASE q # p
      BY <3>2, <2>1, <1>5, <1>0 DEF PostersHold
    <3> QED
      BY <3>1, <3>2
  <2>11. EventsHold'
    BY <1>0, <1>2 DEF EventsHold
  <2> QED
    BY <2>7, <2>8, <2>10, <2>11 DEF PacketInv
<1> QED
  BY <1>1, <1>3, <1>14, <1>15 DEF IO!Post

(* A poster takes the event its packet waits for, or its packet is refused. *)
LEMMA PoolPacketStep ==
  ASSUME NEW E, Events = {E}, IO!IOAssumption, IOShape, PoolInv, PacketInv,
         NEW p \in Posters, IO!PoolTake(p) \/ IO!PoolTaken(p) \/ IO!PoolEmpty(p)
  PROVE  PacketInv'
<1> USE OneEventFacts
<1>0. Accounted /\ FrontIsSent /\ PostersHold /\ EventsHold
      /\ StorerHolds /\ EventHeld /\ ListsHold
  BY DEF PacketInv, PoolInv
<1>1. poster \in [Posters -> PosterRecords] /\ event \in [Events -> EventRecords]
      /\ ioPosted \in [Posters -> 0 .. MaxPosts] /\ MaxPosts \in Nat /\ E \in Events
  BY IOFacts DEF IOShape
<1>2. /\ poster[p].stage # "idle" /\ UNCHANGED <<buf, sending, slot, received, ioPosted>>
      /\ fate'.dropped = fate.dropped
  BY DEF IO!PoolTake, IO!PoolTaken, IO!PoolEmpty, IOShape
<1>3. PICK k0 \in IO!Packet : k0 = poster[p].packet
  <2>1. poster[p].packet = [by |-> p, n |-> ioPosted[p]] /\ ioPosted[p] \in 1 .. MaxPosts
    BY <1>0, <1>1, <1>2 DEF PostersHold
  <2> QED
    BY <2>1, IOFacts
<1>4. k0.by = p /\ k0.n = ioPosted[p]
  <2>1. k0 = [by |-> p, n |-> ioPosted[p]]
    BY <1>0, <1>2, <1>3 DEF PostersHold
  <2> QED
    BY <2>1
<1>5. \A q \in Posters : q # p => poster[q].packet # k0
  <2> TAKE q \in Posters
  <2>1. CASE poster[q].stage = "idle"
    <3>1. poster[q].packet = IO!NoPacket
      BY <2>1, <1>0 DEF PostersHold
    <3> QED
      BY <3>1, <1>3, IOFacts
  <2>2. CASE poster[q].stage # "idle"
    <3>1. poster[q].packet = [by |-> q, n |-> ioPosted[q]]
      BY <2>2, <1>0 DEF PostersHold
    <3>2. poster[q].packet.by = q
      BY <3>1
    <3> QED
      BY <3>2, <1>4
  <2> QED
    BY <2>1, <2>2
<1>6. FrontIsSent'
  BY <1>0, <1>2 DEF FrontIsSent
<1>7. \A k \in IO!Packet : /\ Came(k)' <=> Came(k)
                           /\ GivenUp(k)' <=> GivenUp(k)
                           /\ InBuffer(k)' <=> InBuffer(k)
  BY <1>2 DEF Came, GivenUp, InBuffer
<1>8. \A k :  /\ IO!Waiting(k) <=>
                   \/ \E q \in Posters : poster[q].packet = k
                   \/ event[E].stage \in {"ready", "posted"} /\ event[E].packet = k
              /\ IO!Waiting(k)' <=>
                   \/ \E q \in Posters : poster'[q].packet = k
                   \/ event'[E].stage \in {"ready", "posted"} /\ event'[E].packet = k
  BY WaitFacts
<1>9. CASE IO!PoolTake(p)
  <2>1. poster[p].stage = "lock" /\ ~IO!Locked /\ bits # {} /\ fate' = fate
    BY <1>9 DEF IO!PoolTake
  <2>2. PICK e \in bits :
          /\ poster' = [poster EXCEPT ![p].stage = "store", ![p].event = e, ![p].seen = bits]
          /\ event' = [event EXCEPT ![e] = [stage |-> "ready", packet |-> poster[p].packet,
                                            seen |-> {}]]
    BY <1>9 DEF IO!PoolTake
  <2>3. e = E
    BY <2>2 DEF IOShape
  <2>4. event[E].stage = "free"
    BY <2>1, <2>2, <2>3, <1>0 DEF EventHeld
  <2>5. event'[E].stage = "ready" /\ event'[E].packet = k0
    BY <2>2, <2>3, <1>1, <1>3
  <2>6. poster'[p].stage = "store" /\ poster'[p].packet = k0
    <3>1. poster' = [poster EXCEPT ![p] = [poster[p] EXCEPT !.stage = "store", !.event = e,
                                                            !.seen = bits]]
      BY <2>2
    <3>2. poster'[p] = [poster[p] EXCEPT !.stage = "store", !.event = e, !.seen = bits]
      BY <3>1, <1>1
    <3> QED
      BY <3>2, <1>1, <1>3 DEF PosterRecords
  <2>7. \A q \in Posters : q # p => poster'[q] = poster[q]
    BY <2>2, <1>1
  <2>8. \A k \in IO!Packet : (\E q \in Posters : poster'[q].packet = k)
                               <=> (\E q \in Posters : poster[q].packet = k)
    BY <2>6, <2>7, <1>3
  <2>9. \A k \in IO!Packet : IO!Waiting(k)' <=> IO!Waiting(k)
    BY <2>4, <2>5, <2>8, <1>3, <1>8
  <2>10. \A k \in IO!Packet : Refused(k)' <=> Refused(k)
    BY <2>1 DEF Refused
  <2>11. Accounted'
    BY <2>9, <2>10, <1>0, <1>2, <1>7, AccountStays
  <2>12. EventsHold'
    BY <2>5 DEF EventsHold
  <2>13. PostersHold'
    <3> SUFFICES ASSUME NEW q \in Posters
                 PROVE  /\ IF poster'[q].stage = "idle" THEN poster'[q].packet = IO!NoPacket
                           ELSE /\ ioPosted[q] >= 1
                                /\ poster'[q].packet = [by |-> q, n |-> ioPosted[q]]
                        /\ poster'[q].stage = "lock" =>
                             \A d \in Events : event'[d].stage \in {"ready", "posted"}
                                                 => event'[d].packet # poster'[q].packet
      BY <1>2 DEF PostersHold
    <3>1. CASE q = p
      BY <3>1, <2>6, <1>0, <1>2, <1>3 DEF PostersHold
    <3>2. CASE q # p
      BY <3>2, <2>5, <2>7, <1>0, <1>5 DEF PostersHold
    <3> QED
      BY <3>1, <3>2
  <2> QED
    BY <2>11, <2>12, <2>13, <1>6 DEF PacketInv
<1>10. ASSUME poster' = [poster EXCEPT ![p] = IO!Resting], event' = event
       PROVE  /\ PostersHold' /\ EventsHold'
              /\ \A k \in IO!Packet : (\E q \in Posters : poster'[q].packet = k)
                    <=> (\E q \in Posters : poster[q].packet = k) /\ k # k0
  <2>1. /\ poster'[p].stage = "idle" /\ poster'[p].packet = IO!NoPacket
        /\ \A q \in Posters : q # p => poster'[q] = poster[q]
    BY <1>1, <1>10 DEF IO!Resting
  <2>2. EventsHold'
    BY <1>0, <1>10 DEF EventsHold
  <2>3. PostersHold'
    <3> SUFFICES ASSUME NEW q \in Posters
                 PROVE  /\ IF poster'[q].stage = "idle" THEN poster'[q].packet = IO!NoPacket
                           ELSE /\ ioPosted[q] >= 1
                                /\ poster'[q].packet = [by |-> q, n |-> ioPosted[q]]
                        /\ poster'[q].stage = "lock" =>
                             \A d \in Events : event[d].stage \in {"ready", "posted"}
                                                 => event[d].packet # poster'[q].packet
      BY <1>2, <1>10 DEF PostersHold
    <3> QED
      BY <2>1, <1>0 DEF PostersHold
  <2>4. \A k \in IO!Packet : (\E q \in Posters : poster'[q].packet = k)
                    <=> (\E q \in Posters : poster[q].packet = k) /\ k # k0
    BY <2>1, <1>3, <1>5, IOFacts
  <2> QED
    BY <2>2, <2>3, <2>4
<1>11. CASE IO!PoolTaken(p)
  <2>1. poster[p].stage = "store" /\ event' = event
        /\ poster' = [poster EXCEPT ![p] = IO!Resting]
    BY <1>11 DEF IO!PoolTaken
  <2>2. event[E].stage = "ready" /\ event[E].packet = k0
    BY <2>1, <1>0, <1>3, StorerFacts
  <2>3. \A k \in IO!Packet : IO!Waiting(k)' <=> IO!Waiting(k)
    BY <2>1, <2>2, <1>8, <1>10
  <2>4. \A k \in IO!Packet : Refused(k)' <=> Refused(k)
    BY <1>11 DEF IO!PoolTaken, Refused, IOShape
  <2>5. Accounted'
    BY <2>3, <2>4, <1>0, <1>2, <1>7, AccountStays
  <2> QED
    BY <2>1, <2>5, <1>6, <1>10 DEF PacketInv
<1>12. CASE IO!PoolEmpty(p)
  <2>1. poster[p].stage = "lock" /\ event' = event
        /\ poster' = [poster EXCEPT ![p] = IO!Resting]
        /\ fate' = [fate EXCEPT !.refused = @ \cup {k0}]
    BY <1>12, <1>3 DEF IO!PoolEmpty
  <2>2. \A k \in IO!Packet : Refused(k)' <=> Refused(k) \/ k = k0
    BY <2>1 DEF Refused, IOShape
  <2>3. ~(event[E].stage \in {"ready", "posted"} /\ event[E].packet = k0)
    BY <2>1, <1>0, <1>1, <1>3 DEF PostersHold
  <2>4. \A k \in IO!Packet : IO!Waiting(k)' <=> IO!Waiting(k) /\ k # k0
    BY <2>1, <2>3, <1>8, <1>10
  <2>5. IO!Waiting(k0)
    BY <1>3, <1>8
  <2>6. Accounted'
    <3> SUFFICES ASSUME NEW k \in IO!Packet
                 PROVE  IF k.n <= ioPosted[k.by] THEN InOnePlace(k)' ELSE InNoPlace(k)'
      BY <1>2 DEF Accounted
    <3>1. k = k0 => k.n <= ioPosted[k.by] /\ InOnePlace(k)
      BY <2>5, <1>0 DEF Accounted, InNoPlace
    <3>2. InNoPlace(k) => InNoPlace(k)'
      BY <2>2, <2>4, <2>5, <1>7 DEF InNoPlace
    <3>3. InOnePlace(k) => InOnePlace(k)'
      BY <2>2, <2>4, <2>5, <1>7 DEF InOnePlace, OneOf
    <3> QED
      BY <3>1, <3>2, <3>3, <1>0 DEF Accounted
  <2> QED
    BY <2>1, <2>6, <1>6, <1>10 DEF PacketInv
<1> QED
  BY <1>9, <1>11, <1>12

(* Nothing that holds a packet moves. *)
LEMMA PacketStays ==
  ASSUME PacketInv,
         UNCHANGED <<buf, sending, slot, event, poster, ioPosted, received, fate>>
  PROVE  PacketInv'
<1>1. \A k \in IO!Packet : /\ Came(k)' <=> Came(k)
                           /\ Refused(k)' <=> Refused(k)
                           /\ GivenUp(k)' <=> GivenUp(k)
                           /\ InBuffer(k)' <=> InBuffer(k)
                           /\ IO!Waiting(k)' <=> IO!Waiting(k)
  BY DEF Came, Refused, GivenUp, InBuffer, IO!Waiting
<1>2. Accounted'
  BY <1>1, AccountStays DEF PacketInv
<1>3. FrontIsSent'
  BY DEF PacketInv, FrontIsSent
<1>4. PostersHold' /\ EventsHold'
  BY DEF PacketInv, PostersHold, EventsHold
<1> QED
  BY <1>2, <1>3, <1>4 DEF PacketInv

(* The packet an event carries leaves it: it came, or was given up.         *)
LEMMA EventPacketLeaves ==
  ASSUME NEW E, Events = {E}, IO!IOAssumption, IOShape, PacketInv,
         event[E].stage \in {"ready", "posted"},
         \A q \in Posters : poster[q].stage # "store",
         event'[E].stage \notin {"ready", "posted"},
         UNCHANGED <<buf, poster, ioPosted>>,
         sending' = sending,
         fate'.refused = fate.refused,
         \/ /\ fate'.dropped = fate.dropped \cup {event[E].packet}
            /\ received' = received
         \/ /\ received' = Append(received, event[E].packet)
            /\ fate'.dropped = fate.dropped
  PROVE  Accounted' /\ PostersHold' /\ EventsHold' /\ Distinct(received')
<1> USE OneEventFacts
<1>0. Accounted /\ FrontIsSent /\ PostersHold /\ EventsHold
  BY DEF PacketInv
<1>1. PICK k0 \in IO!Packet : k0 = event[E].packet
  BY WaitFacts
<1>2. InOnePlace(k0) /\ IO!Waiting(k0) /\ k0.n <= ioPosted[k0.by]
  BY <1>1, WaitFacts
<1>3. \A k : /\ IO!Waiting(k) <=>
                  \/ \E q \in Posters : poster[q].packet = k
                  \/ event[E].stage \in {"ready", "posted"} /\ event[E].packet = k
             /\ IO!Waiting(k)' <=>
                  \/ \E q \in Posters : poster'[q].packet = k
                  \/ event'[E].stage \in {"ready", "posted"} /\ event'[E].packet = k
  BY WaitFacts
<1>4. \A q \in Posters : poster[q].packet # k0
  <2> TAKE q \in Posters
  <2>1. CASE poster[q].stage = "idle"
    <3>1. poster[q].packet = IO!NoPacket
      BY <2>1, <1>0 DEF PostersHold
    <3> QED
      BY <3>1, IOFacts
  <2>2. CASE poster[q].stage = "lock"
    BY <2>2, <1>0, <1>1 DEF PostersHold
  <2>3. poster[q].stage \in {"idle", "lock", "store"}
    BY DEF IOShape, PosterRecords
  <2> QED
    BY <2>1, <2>2, <2>3
<1>5. \A k \in IO!Packet : IO!Waiting(k)' <=> IO!Waiting(k) /\ k # k0
  BY <1>1, <1>3, <1>4
<1>6. \A k \in IO!Packet : (Refused(k)' <=> Refused(k)) /\ (InBuffer(k)' <=> InBuffer(k))
  BY DEF Refused, InBuffer
<1>7. received \in Seq(IO!Packet)
  BY DEF IOShape
<1>8. PostersHold' /\ EventsHold'
  BY <1>0, HoldersStay
<1>9. ~Came(k0) /\ ~GivenUp(k0)
  BY <1>2 DEF InOnePlace, OneOf
<1>10. CASE fate'.dropped = fate.dropped \cup {event[E].packet} /\ received' = received
  <2>1. \A k \in IO!Packet : /\ Came(k)' <=> Came(k)
                             /\ GivenUp(k)' <=> GivenUp(k) \/ k = k0
    BY <1>1, <1>10 DEF Came, GivenUp
  <2>2. Accounted'
    <3> SUFFICES ASSUME NEW k \in IO!Packet
                 PROVE  IF k.n <= ioPosted[k.by] THEN InOnePlace(k)' ELSE InNoPlace(k)'
      BY DEF Accounted
    <3>1. InNoPlace(k) => k # k0
      BY <1>2 DEF InNoPlace
    <3>2. InNoPlace(k) => InNoPlace(k)'
      BY <2>1, <3>1, <1>5, <1>6 DEF InNoPlace
    <3>3. InOnePlace(k) => InOnePlace(k)'
      BY <2>1, <1>2, <1>5, <1>6 DEF InOnePlace, OneOf
    <3> QED
      BY <3>2, <3>3, <1>0 DEF Accounted
  <2> QED
    BY <2>2, <1>0, <1>8, <1>10 DEF FrontIsSent
<1>11. CASE received' = Append(received, event[E].packet) /\ fate'.dropped = fate.dropped
  <2>1. received' = Append(received, k0) /\ received' \in Seq(IO!Packet)
    BY <1>1, <1>7, <1>11, SeqFacts
  <2>2. \A k \in IO!Packet : Came(k)' <=> Came(k) \/ k = k0
    BY <2>1, <1>7, ElementFacts DEF Came, IO!Elements
  <2>3. \A k \in IO!Packet : GivenUp(k)' <=> GivenUp(k)
    BY <1>11 DEF GivenUp
  <2>4. Accounted'
    <3> SUFFICES ASSUME NEW k \in IO!Packet
                 PROVE  IF k.n <= ioPosted[k.by] THEN InOnePlace(k)' ELSE InNoPlace(k)'
      BY DEF Accounted
    <3>1. InNoPlace(k) => k # k0
      BY <1>2 DEF InNoPlace
    <3>2. InNoPlace(k) => InNoPlace(k)'
      BY <2>2, <2>3, <3>1, <1>5, <1>6 DEF InNoPlace
    <3>3. InOnePlace(k) => InOnePlace(k)'
      BY <2>2, <2>3, <1>2, <1>5, <1>6 DEF InOnePlace, OneOf
    <3> QED
      BY <3>2, <3>3, <1>0 DEF Accounted
  <2>5. \A i \in 1 .. Len(received) : received[i] # k0
    BY <1>7, <1>9 DEF Came
  <2>6. Distinct(received')
    BY <2>1, <2>5, <1>0, <1>7, DistinctAppend DEF FrontIsSent
  <2> QED
    BY <2>4, <2>6, <1>8
<1> QED
  BY <1>10, <1>11

(* The flush sends the whole buffer, posts the event, or gives its packet up. *)
LEMMA FlushPacketStep ==
  ASSUME NEW E, Events = {E}, IO!IOAssumption, IOShape, PoolInv, PacketInv,
         IO!FlushSend \/ IO!FlushSwap \/ IO!FlushPost \/ IO!FlushFree \/ IO!FlushFreed
           \/ IO!FlushEnd
  PROVE  PacketInv'
<1> USE OneEventFacts, IOFacts
<1>0. Accounted /\ FrontIsSent /\ PostersHold /\ EventsHold
      /\ StorerHolds /\ EventHeld /\ ListsHold /\ E \in Events
  BY DEF PacketInv, PoolInv
<1>1. CASE IO!FlushSwap \/ IO!FlushFreed \/ IO!FlushEnd
  <2>1. UNCHANGED <<buf, sending, slot, event, poster, ioPosted, received, fate>>
    BY <1>1 DEF IO!FlushSwap, IO!FlushFreed, IO!FlushEnd
  <2> QED
    BY <2>1, PacketStays
<1>2. CASE IO!FlushSend
  <2>1. UNCHANGED <<buf, event, poster, ioPosted, received, fate>>
    BY <1>2 DEF IO!FlushSend
  <2>2. CASE sending' = sending /\ slot' = slot
    BY <2>1, <2>2, PacketStays
  <2>3. CASE sending.stage = "idle" /\ slot' = "send"
             /\ sending' = [stage |-> "posted", packets |-> buf]
    <3>1. \A k \in IO!Packet : /\ Came(k)' <=> Came(k)
                               /\ Refused(k)' <=> Refused(k)
                               /\ GivenUp(k)' <=> GivenUp(k)
                               /\ InBuffer(k)' <=> InBuffer(k)
                               /\ IO!Waiting(k)' <=> IO!Waiting(k)
      BY <2>1, <2>3 DEF Came, Refused, GivenUp, InBuffer, IO!Waiting
    <3>2. Accounted'
      BY <3>1, <2>1, <1>0, AccountStays
    <3>3. sending'.packets = buf /\ sending'.stage = "posted" /\ Len(buf) \in Nat
      BY <2>3 DEF IOShape
    <3>4. FrontIsSent'
      BY <2>1, <2>3, <3>3, <1>0 DEF FrontIsSent
    <3>5. PostersHold' /\ EventsHold'
      BY <2>1, <1>0, HoldersStay
    <3> QED
      BY <3>2, <3>4, <3>5 DEF PacketInv
  <2> QED
    BY <1>2, <2>2, <2>3 DEF IO!FlushSend
<1>3. ASSUME main.stage = "post", main.list # <<>>
      PROVE  Head(main.list) = E /\ event[E].stage = "ready" /\ ~IO!Locked
  BY <1>0, <1>3, MainHead DEF ListsHold, Swapped
<1>4. CASE IO!FlushPost
  <2>1. Head(main.list) = E /\ event[E].stage = "ready"
    BY <1>3, <1>4 DEF IO!FlushPost
  <2>2. event' = [event EXCEPT ![E].stage = "posted"] /\ slot' = E /\ slot = "none"
        /\ UNCHANGED <<buf, sending, poster, ioPosted, received, fate>>
    BY <1>4, <2>1 DEF IO!FlushPost
  <2>3. event'[E].stage = "posted" /\ event'[E].packet = event[E].packet
    BY <2>2, <1>0, StageFacts DEF EventStages
  <2>4. \A k : IO!Waiting(k)' <=> IO!Waiting(k)
    BY <2>1, <2>2, <2>3, WaitFacts
  <2>5. \A k \in IO!Packet : /\ Came(k)' <=> Came(k)
                             /\ Refused(k)' <=> Refused(k)
                             /\ GivenUp(k)' <=> GivenUp(k)
                             /\ InBuffer(k)' <=> InBuffer(k)
    BY <2>2 DEF Came, Refused, GivenUp, InBuffer
  <2>6. Accounted'
    BY <2>2, <2>4, <2>5, <1>0, AccountStays
  <2>7. FrontIsSent'
    BY <2>2, <1>0 DEF FrontIsSent
  <2>8. PostersHold' /\ EventsHold'
    BY <2>1, <2>2, <2>3, <1>0, HoldersStay
  <2> QED
    BY <2>6, <2>7, <2>8 DEF PacketInv
<1>5. CASE IO!FlushFree
  <2>1. Head(main.list) = E /\ event[E].stage = "ready" /\ ~IO!Locked
    BY <1>3, <1>5 DEF IO!FlushFree
  <2>2. event' = IO!FreeBegin(E) /\ fate' = IO!Dropped(E)
        /\ UNCHANGED <<buf, sending, slot, poster, ioPosted, received>>
    BY <1>5, <2>1 DEF IO!FlushFree
  <2>3. event'[E].stage = "freed"
    BY <2>2, FreeFacts
  <2>4. fate'.dropped = fate.dropped \cup {event[E].packet} /\ fate'.refused = fate.refused
    BY <2>2 DEF IO!Dropped, IOShape
  <2>5. \A q \in Posters : poster[q].stage # "store"
    BY <2>1 DEF IO!Locked
  <2>6. Accounted' /\ PostersHold' /\ EventsHold'
    BY <2>1, <2>2, <2>3, <2>4, <2>5, EventPacketLeaves
  <2>7. FrontIsSent'
    BY <2>2, <1>0 DEF FrontIsSent
  <2> QED
    BY <2>6, <2>7 DEF PacketInv
<1> QED
  BY <1>1, <1>2, <1>4, <1>5

(* A send that completes brings the front of the buffer to the client; what *)
(* completed leaves the buffer when it is handled, and nothing else does.   *)
LEMMA SendPacketStep ==
  ASSUME NEW E, Events = {E}, IO!IOAssumption, IOShape, PacketInv,
         IO!SendCompletes \/ IO!SendFails \/ IO!SendHandled
  PROVE  PacketInv'
<1> USE OneEventFacts, IOFacts
<1>0. Accounted /\ FrontIsSent /\ PostersHold /\ EventsHold
  BY DEF PacketInv
<1>1. /\ buf \in Seq(IO!Packet) /\ received \in Seq(IO!Packet)
      /\ sending \in [stage : SendStages, packets : Seq(IO!Packet)]
      /\ sending.packets \in Seq(IO!Packet)
  BY DEF IOShape
<1>2. /\ Distinct(received) /\ Distinct(buf) /\ Len(sending.packets) <= Len(buf)
      /\ \A i \in 1 .. Len(sending.packets) : sending.packets[i] = buf[i]
      /\ slot = "send" <=> sending.stage = "posted"
      /\ \A i \in 1 .. Len(buf) : buf[i].n <= ioPosted[buf[i].by]
  BY <1>0 DEF FrontIsSent
<1> DEFINE rest == SubSeq(buf, Len(sending.packets) + 1, Len(buf))
<1>3. /\ rest \in Seq(IO!Packet) /\ Distinct(rest) /\ Distinct(sending.packets)
      /\ \A x : x \in IO!Elements(rest)
                  <=> x \in IO!Elements(buf) /\ x \notin IO!Elements(sending.packets)
      /\ \A i \in 1 .. Len(rest) : rest[i] \in IO!Elements(buf)
  BY <1>1, <1>2, FrontAndRest
<1>4. UNCHANGED <<event, poster, ioPosted, fate>>
  BY DEF IO!SendCompletes, IO!SendFails, IO!SendHandled
<1>5. PostersHold' /\ EventsHold'
  BY <1>0, <1>4, HoldersStay
<1>6. \A k \in IO!Packet : /\ Refused(k)' <=> Refused(k)
                           /\ GivenUp(k)' <=> GivenUp(k)
                           /\ IO!Waiting(k)' <=> IO!Waiting(k)
  BY <1>4 DEF Refused, GivenUp, IO!Waiting
<1>7. \A x : x \in IO!Elements(sending.packets) => x \in IO!Elements(buf)
  <2>1. \A i \in 1 .. Len(sending.packets) : i \in 1 .. Len(buf)
    BY <1>1, <1>2
  <2>2. \A x : x \in IO!Elements(sending.packets)
                 <=> \E i \in 1 .. Len(sending.packets) : sending.packets[i] = x
    BY <1>1, ElementFacts
  <2>3. \A x : x \in IO!Elements(buf) <=> \E i \in 1 .. Len(buf) : buf[i] = x
    BY <1>1, ElementFacts
  <2> QED
    BY <2>1, <2>2, <2>3, <1>2
<1> HIDE DEF rest
<1>8. CASE IO!SendFails
  <2>1. /\ slot = "send" /\ slot' = "none" /\ buf' = buf /\ received' = received
        /\ sending'.stage = "handled" /\ sending'.packets = <<>>
    BY <1>8 DEF IO!SendFails
  <2>2. \A k : k \notin IO!Elements(sending'.packets)
    BY <2>1 DEF IO!Elements
  <2>3. \A k \in IO!Packet : Came(k)' <=> Came(k)
    BY <2>1 DEF Came
  <2>4. \A k \in IO!Packet : InBuffer(k)' <=> InBuffer(k)
    BY <2>1, <2>2, <1>2 DEF InBuffer
  <2>5. Accounted'
    BY <2>3, <2>4, <1>0, <1>4, <1>6, AccountStays
  <2>6. FrontIsSent'
    <3>1. Len(sending'.packets) <= Len(buf')
          /\ \A i \in 1 .. Len(sending'.packets) : sending'.packets[i] = buf'[i]
      BY <2>1, <1>1
    <3> QED
      BY <3>1, <2>1, <1>2, <1>4 DEF FrontIsSent
  <2> QED
    BY <2>5, <2>6, <1>5 DEF PacketInv
<1>9. CASE IO!SendCompletes
  <2>1. /\ slot = "send" /\ slot' = "none" /\ buf' = buf
        /\ received' = received \o sending.packets
        /\ sending' = [sending EXCEPT !.stage = "handled"]
    BY <1>9 DEF IO!SendCompletes
  <2>2. sending'.stage = "handled" /\ sending'.packets = sending.packets
        /\ sending.stage = "posted"
    BY <2>1, <1>1, <1>2
  <2>3. \A k \in IO!Packet : /\ InBuffer(k) <=> k \in IO!Elements(buf)
                             /\ InBuffer(k)' <=> k \in IO!Elements(buf)
                                                 /\ k \notin IO!Elements(sending.packets)
    BY <2>1, <2>2 DEF InBuffer
  <2>4. \A k \in IO!Packet : k \in IO!Elements(sending.packets) => InOnePlace(k) /\ ~Came(k)
    <3> SUFFICES ASSUME NEW k \in IO!Packet, k \in IO!Elements(sending.packets)
                 PROVE  InOnePlace(k) /\ ~Came(k)
      OBVIOUS
    <3>1. InBuffer(k)
      BY <2>3, <1>7
    <3>2. InOnePlace(k)
      BY <3>1, <1>0 DEF Accounted, InNoPlace
    <3> QED
      BY <3>1, <3>2 DEF InOnePlace, OneOf
  <2>5. \A i \in 1 .. Len(sending.packets) : sending.packets[i] \notin IO!Elements(received)
    <3> TAKE i \in 1 .. Len(sending.packets)
    <3>1. sending.packets[i] \in IO!Packet
          /\ sending.packets[i] \in IO!Elements(sending.packets)
      BY <1>1, ElementFacts
    <3>2. ~Came(sending.packets[i])
      BY <2>4, <3>1
    <3> QED
      BY <3>2 DEF Came, IO!Elements
  <2>6. /\ Distinct(received')
        /\ \A k : k \in IO!Elements(received')
                    <=> k \in IO!Elements(received) \/ k \in IO!Elements(sending.packets)
    <3>1. PICK f \in Seq(IO!Packet) : f = sending.packets
      BY <1>1
    <3>2. Distinct(f) /\ \A i \in 1 .. Len(f) : f[i] \notin IO!Elements(received)
      BY <3>1, <2>5, <1>3
    <3>3. /\ Distinct(received \o f)
          /\ \A k : k \in IO!Elements(received \o f)
                      <=> k \in IO!Elements(received) \/ k \in IO!Elements(f)
      BY <3>2, <1>1, <1>2, DistinctConcat
    <3> QED
      BY <3>1, <3>3, <2>1
  <2>7. \A k \in IO!Packet : Came(k)' <=> Came(k) \/ k \in IO!Elements(sending.packets)
    BY <2>6 DEF Came, IO!Elements
  <2>8. Accounted'
    <3> SUFFICES ASSUME NEW k \in IO!Packet
                 PROVE  IF k.n <= ioPosted[k.by] THEN InOnePlace(k)' ELSE InNoPlace(k)'
      BY <1>4 DEF Accounted
    <3>1. k \in IO!Elements(sending.packets) => InBuffer(k)
      BY <2>3, <1>7
    <3>2. InNoPlace(k) => InNoPlace(k)'
      BY <2>3, <2>7, <3>1, <1>6 DEF InNoPlace
    <3>3. InOnePlace(k) => InOnePlace(k)'
      BY <2>3, <2>7, <3>1, <1>6 DEF InOnePlace, OneOf
    <3> QED
      BY <3>2, <3>3, <1>0 DEF Accounted
  <2>9. FrontIsSent'
    BY <2>1, <2>2, <2>6, <1>2, <1>4 DEF FrontIsSent
  <2> QED
    BY <2>8, <2>9, <1>5 DEF PacketInv
<1>10. CASE IO!SendHandled
  <2>1. /\ sending.stage = "handled" /\ slot' = slot /\ received' = received
        /\ sending'.stage = "idle" /\ sending'.packets = <<>>
    BY <1>10 DEF IO!SendHandled
  <2>2. buf' = rest
    BY <1>10 DEF IO!SendHandled, rest
  <2>3. \A k \in IO!Packet : Came(k)' <=> Came(k)
    BY <2>1 DEF Came
  <2>4. \A k \in IO!Packet : InBuffer(k)' <=> InBuffer(k)
    BY <2>1, <2>2, <1>3 DEF InBuffer
  <2>5. Accounted'
    BY <2>3, <2>4, <1>0, <1>4, <1>6, AccountStays
  <2>6. FrontIsSent'
    <3>1. \A i \in 1 .. Len(rest) : rest[i].n <= ioPosted[rest[i].by]
      <4>1. \A x : x \in IO!Elements(buf) <=> \E i \in 1 .. Len(buf) : buf[i] = x
        BY <1>1, ElementFacts
      <4> QED
        BY <4>1, <1>2, <1>3
    <3>2. Len(sending'.packets) <= Len(buf')
          /\ \A i \in 1 .. Len(sending'.packets) : sending'.packets[i] = buf'[i]
      BY <2>1, <2>2, <1>3
    <3> QED
      BY <3>1, <3>2, <2>1, <2>2, <1>2, <1>3, <1>4 DEF FrontIsSent
  <2> QED
    BY <2>5, <2>6, <1>5 DEF PacketInv
<1> QED
  BY <1>8, <1>9, <1>10

(* A multicast brings its packet or loses it; an eof stops a send, whose    *)
(* packets stay in the buffer, or loses the packet of the event.            *)
LEMMA MulticastPacketStep ==
  ASSUME NEW E, Events = {E}, IO!IOAssumption, IOShape, PoolInv, PacketInv,
         \/ IO!MulticastCompletes(E) \/ IO!MulticastFails(E) \/ IO!MulticastHandled(E)
         \/ IO!FreeEnd(E) \/ IO!CompletesWithEof
  PROVE  PacketInv'
<1> USE OneEventFacts, IOFacts
<1>0. Accounted /\ FrontIsSent /\ PostersHold /\ EventsHold
      /\ StorerHolds /\ EventHeld /\ ListsHold /\ E \in Events
  BY DEF PacketInv, PoolInv
<1>1. event \in [Events -> EventRecords] /\ slot \in Events \cup {"none", "send"}
      /\ sending \in [stage : SendStages, packets : Seq(IO!Packet)]
  BY DEF IOShape
<1>2. ASSUME slot = E
      PROVE  /\ event[E].stage = "posted" /\ sending.stage # "posted"
             /\ \A q \in Posters : poster[q].stage # "store"
  <2>1. event[E].stage = "posted"
    BY <1>0, <1>2 DEF EventHeld
  <2>2. sending.stage # "posted"
    BY <1>0, <1>2 DEF FrontIsSent
  <2>3. \A q \in Posters : poster[q].stage # "store"
    BY <2>1, <1>0, StorerFacts
  <2> QED
    BY <2>1, <2>2, <2>3
<1>3. CASE IO!MulticastCompletes(E) \/ IO!MulticastFails(E)
  <2>1. /\ slot = E /\ slot' = "none" /\ event' = [event EXCEPT ![E].stage = "handled"]
        /\ UNCHANGED <<buf, sending, poster, ioPosted>>
    BY <1>3 DEF IO!MulticastCompletes, IO!MulticastFails
  <2>2. event'[E].stage = "handled"
    BY <2>1, <1>0, StageFacts DEF EventStages
  <2>3. /\ fate'.refused = fate.refused
        /\ \/ /\ fate'.dropped = fate.dropped \cup {event[E].packet}
              /\ received' = received
           \/ /\ received' = Append(received, event[E].packet)
              /\ fate'.dropped = fate.dropped
    BY <1>3 DEF IO!MulticastCompletes, IO!MulticastFails, IO!Dropped, IOShape
  <2>4. Accounted' /\ PostersHold' /\ EventsHold' /\ Distinct(received')
    BY <2>1, <2>2, <2>3, <1>2, EventPacketLeaves
  <2>5. FrontIsSent'
    BY <2>1, <2>4, <1>0, <1>2 DEF FrontIsSent
  <2> QED
    BY <2>4, <2>5 DEF PacketInv
<1>4. CASE IO!MulticastHandled(E) \/ IO!FreeEnd(E)
  <2>1. UNCHANGED <<buf, sending, slot, poster, ioPosted, received, fate>>
    BY <1>4 DEF IO!MulticastHandled, IO!FreeEnd
  <2>2. event[E].stage \in {"handled", "freed"}
    BY <1>4 DEF IO!MulticastHandled, IO!FreeEnd
  <2>3. event'[E].stage \in {"freed", "free"}
    BY <1>1, <1>4, FreeFacts DEF IO!MulticastHandled, IO!FreeEnd, IO!Unused
  <2>4. \A k : IO!Waiting(k)' <=> IO!Waiting(k)
    BY <2>1, <2>2, <2>3, WaitFacts
  <2>5. \A k \in IO!Packet : /\ Came(k)' <=> Came(k)
                             /\ Refused(k)' <=> Refused(k)
                             /\ GivenUp(k)' <=> GivenUp(k)
                             /\ InBuffer(k)' <=> InBuffer(k)
    BY <2>1 DEF Came, Refused, GivenUp, InBuffer
  <2>6. Accounted'
    BY <2>1, <2>4, <2>5, <1>0, AccountStays
  <2>7. FrontIsSent'
    BY <2>1, <1>0 DEF FrontIsSent
  <2>8. PostersHold' /\ EventsHold'
    BY <2>1, <2>3, <1>0, HoldersStay
  <2> QED
    BY <2>6, <2>7, <2>8 DEF PacketInv
<1>5. CASE IO!CompletesWithEof
  <2>1. slot # "none" /\ slot' = "none" /\ UNCHANGED <<buf, poster, ioPosted, received>>
    BY <1>5 DEF IO!CompletesWithEof
  <2>2. CASE slot = "send"
    <3>1. sending' = [sending EXCEPT !.stage = "over"] /\ UNCHANGED <<event, fate>>
      BY <1>5, <2>2 DEF IO!CompletesWithEof
    <3>2. sending.stage = "posted" /\ sending'.stage = "over"
          /\ sending'.packets = sending.packets
      BY <2>2, <3>1, <1>0, <1>1 DEF FrontIsSent
    <3>3. \A k \in IO!Packet : /\ Came(k)' <=> Came(k)
                               /\ Refused(k)' <=> Refused(k)
                               /\ GivenUp(k)' <=> GivenUp(k)
                               /\ InBuffer(k)' <=> InBuffer(k)
                               /\ IO!Waiting(k)' <=> IO!Waiting(k)
      BY <2>1, <3>1, <3>2 DEF Came, Refused, GivenUp, InBuffer, IO!Waiting
    <3>4. Accounted'
      BY <3>3, <2>1, <1>0, AccountStays
    <3>5. FrontIsSent'
      BY <2>1, <3>2, <1>0 DEF FrontIsSent
    <3>6. PostersHold' /\ EventsHold'
      BY <2>1, <3>1, <1>0, HoldersStay
    <3> QED
      BY <3>4, <3>5, <3>6 DEF PacketInv
  <2>3. CASE slot # "send"
    <3>1. slot = E
      BY <2>1, <2>3, <1>1
    <3>2. event' = [event EXCEPT ![slot].stage = "over"] /\ fate' = IO!Dropped(slot)
          /\ sending' = sending
      BY <1>5, <2>3 DEF IO!CompletesWithEof
    <3>3. event' = [event EXCEPT ![E].stage = "over"] /\ fate' = IO!Dropped(E)
      BY <3>1, <3>2
    <3>4. event'[E].stage = "over"
      BY <3>3, <1>0, StageFacts DEF EventStages
    <3>5. fate'.dropped = fate.dropped \cup {event[E].packet} /\ fate'.refused = fate.refused
      BY <3>3 DEF IO!Dropped, IOShape
    <3>6. event[E].stage = "posted" /\ sending.stage # "posted"
          /\ \A q \in Posters : poster[q].stage # "store"
      BY <3>1, <1>2
    <3>7. Accounted' /\ PostersHold' /\ EventsHold' /\ Distinct(received')
      BY <2>1, <3>2, <3>4, <3>5, <3>6, EventPacketLeaves
    <3>8. FrontIsSent'
      BY <2>1, <3>2, <3>6, <3>7, <1>0 DEF FrontIsSent
    <3> QED
      BY <3>7, <3>8 DEF PacketInv
  <2> QED
    BY <2>2, <2>3
<1> QED
  BY <1>3, <1>4, <1>5

(* Every action keeps the account of the packets. *)
LEMMA PacketStep ==
  ASSUME NEW E, Events = {E}, IO!IOAssumption, IOShape, PoolInv, PacketInv, IO!Next
  PROVE  PacketInv'
  BY PostPacketStep, PoolPacketStep, FlushPacketStep, SendPacketStep, MulticastPacketStep,
     IOCases, OneEventFacts DEF IOActions

(* One or none. *)
LEMMA AtMostOne ==
  ASSUME NEW S, NEW x, S = {} \/ S = {x}
  PROVE  IO!Cardinality(S) = IF S = {} THEN 0 ELSE 1
<1>1. IO!Cardinality(S) = Cardinality(S)
  BY DEF Cardinality, IO!Cardinality
<1>2. Cardinality({}) = 0 /\ Cardinality({x}) = 1
  BY FS_EmptySet, FS_Singleton
<1> QED
  BY <1>1, <1>2

(* The account of the packets is what the run counts.                       *)
LEMMA AccountHolds ==
  ASSUME IO!IOAssumption, IOShape, PacketInv
  PROVE  IO!NothingVanishes
<1> SUFFICES ASSUME NEW p \in Posters, NEW n \in 1 .. ioPosted[p]
             PROVE  LET packet == [by |-> p, n |-> n]
                        arrived == {i \in DOMAIN received : received[i] = packet}
                        inBuffer == /\ packet \in IO!Elements(buf)
                                    /\ ~( /\ sending.stage = "handled"
                                          /\ packet \in IO!Elements(sending.packets))
                    IN  IO!Cardinality(arrived)
                          + IO!Cardinality({k \in {"refused", "dropped"} : packet \in fate[k]})
                          + (IF inBuffer THEN 1 ELSE 0)
                          + (IF IO!Waiting(packet) THEN 1 ELSE 0) = 1
  BY DEF IO!NothingVanishes
<1>1. ioPosted[p] \in 0 .. MaxPosts /\ MaxPosts \in Nat
  BY IOFacts DEF IOShape
<1>2. n \in 1 .. MaxPosts /\ n <= ioPosted[p]
  BY <1>1
<1>3. PICK packet \in IO!Packet : packet = [by |-> p, n |-> n]
  BY <1>2, IOFacts
<1>4. InOnePlace(packet)
  <2>1. packet.n <= ioPosted[packet.by]
    BY <1>2, <1>3
  <2> QED
    BY <2>1 DEF PacketInv, Accounted
<1> DEFINE arrived == {i \in DOMAIN received : received[i] = packet}
           ended == {k \in {"refused", "dropped"} : packet \in fate[k]}
<1>5. IO!Cardinality(arrived) = IF Came(packet) THEN 1 ELSE 0
  <2>1. CASE Came(packet)
    <3>1. PICK i \in DOMAIN received : received[i] = packet
      BY <2>1 DEF Came
    <3>2. arrived = {i}
      <4>1. DOMAIN received = 1 .. Len(received)
        BY DEF IOShape
      <4> QED
        BY <3>1, <4>1 DEF PacketInv, FrontIsSent, Distinct
    <3> QED
      BY <2>1, <3>2, AtMostOne
  <2>2. CASE ~Came(packet)
    <3>1. arrived = {}
      BY <2>2 DEF Came
    <3> QED
      BY <2>2, <3>1, AtMostOne
  <2> QED
    BY <2>1, <2>2
<1>6. IO!Cardinality(ended) = IF Refused(packet) \/ GivenUp(packet) THEN 1 ELSE 0
  <2>1. ~(Refused(packet) /\ GivenUp(packet))
    BY <1>4 DEF InOnePlace, OneOf
  <2>2. fate["refused"] = fate.refused /\ fate["dropped"] = fate.dropped
    BY DEF IOShape
  <2>3. CASE Refused(packet)
    <3>1. ended = {"refused"}
      BY <2>1, <2>2, <2>3 DEF Refused, GivenUp
    <3> QED
      BY <2>3, <3>1, AtMostOne
  <2>4. CASE GivenUp(packet)
    <3>1. ended = {"dropped"}
      BY <2>1, <2>2, <2>4 DEF Refused, GivenUp
    <3> QED
      BY <2>4, <3>1, AtMostOne
  <2>5. CASE ~Refused(packet) /\ ~GivenUp(packet)
    <3>1. ended = {}
      BY <2>2, <2>5 DEF Refused, GivenUp
    <3> QED
      BY <2>5, <3>1, AtMostOne
  <2> QED
    BY <2>3, <2>4, <2>5
<1> HIDE DEF arrived, ended
<1>7. IO!Cardinality(arrived) + IO!Cardinality(ended)
        + (IF InBuffer(packet) THEN 1 ELSE 0) + (IF IO!Waiting(packet) THEN 1 ELSE 0) = 1
  BY <1>4, <1>5, <1>6 DEF InOnePlace, OneOf
<1> QED
  BY <1>3, <1>7 DEF arrived, ended, InBuffer

----------------------------------------------------------------------------
(* The events in the specification of the connection.                      *)
IOInv == IOShape /\ PoolInv /\ PacketInv

(* Nothing of the events moves. *)
LEMMA IOStutters ==
  ASSUME IOInv, UNCHANGED ioVars
  PROVE  IOInv'
<1>1. UNCHANGED <<buf, sending, slot, bits, event, ready, main, poster, ioPosted, received,
                  fate, clash>>
  BY DEF ioVars
<1>2. IOShape'
  BY <1>1 DEF IOInv, IOShape
<1>3. PoolInv' /\ PacketInv'
  BY <1>1, PoolStays, PacketStays DEF IOInv
<1> QED
  BY <1>2, <1>3 DEF IOInv

(* A step of the connection is one of the events or leaves them alone. *)
LEMMA OneIOStep == [ConnectionNext]_allVars => IO!Next \/ UNCHANGED ioVars
  BY DEF ConnectionNext, OnBuffer, OnIO, OnReceive, allVars

(* With one event per connection, the inductive invariant of the events. *)
THEOREM EventInvariant == OneEvent /\ ConnectionSpec => []IOInv
<1> SUFFICES ASSUME OneEvent PROVE ConnectionSpec => []IOInv
  OBVIOUS
<1>1. PICK E : Events = {E}
  BY DEF OneEvent
<1>2. ConnectionInit => IOInv
  BY <1>1, InitIO, ConnectionAssumption DEF ConnectionInit, IOInv
<1>3. IOInv /\ [ConnectionNext]_allVars => IOInv'
  <2> SUFFICES ASSUME IOInv, [ConnectionNext]_allVars PROVE IOInv'
    OBVIOUS
  <2>1. CASE IO!Next
    <3>1. IOShape'
      BY <2>1, <1>1, ShapeStep, ConnectionAssumption DEF IOInv
    <3>2. PoolInv' /\ PacketInv'
      BY <2>1, <1>1, PoolStep, PacketStep, ConnectionAssumption DEF IOInv
    <3> QED
      BY <3>1, <3>2 DEF IOInv
  <2>2. CASE UNCHANGED ioVars
    BY <2>2, IOStutters
  <2> QED
    BY <2>1, <2>2, OneIOStep
<1> QED
  BY <1>2, <1>3, SafeSpec, PTL

(* get_free_object and free_object: with the one event of                  *)
(* num_of_multicast_events, an event is never handed out while it is used,  *)
(* although the pool is searched under a lock that the free does not take.  *)
THEOREM PoolStaysConsistent == OneEvent /\ ConnectionSpec => []PoolIsConsistent
<1> SUFFICES ASSUME OneEvent PROVE ConnectionSpec => []PoolIsConsistent
  OBVIOUS
<1>1. IOInv => PoolIsConsistent
  BY PoolHolds, ConnectionAssumption DEF OneEvent, IOInv, PoolIsConsistent
<1> QED
  BY <1>1, EventInvariant, PTL

(* post_multicast_event, flush and completion: a packet the tasks post      *)
(* arrives once, was refused, was given up, or still waits, and no two.     *)
THEOREM PacketsAreAccounted == OneEvent /\ ConnectionSpec => []NothingVanishes
<1> SUFFICES ASSUME OneEvent PROVE ConnectionSpec => []NothingVanishes
  OBVIOUS
<1>1. IOInv => NothingVanishes
  BY AccountHolds, ConnectionAssumption DEF IOInv, NothingVanishes
<1> QED
  BY <1>1, EventInvariant, PTL

=============================================================================
