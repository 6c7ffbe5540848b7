--------------------------- MODULE EventLoopProofs ---------------------------
(***************************************************************************)
(* The two tokens of the event threads: the notification of the RIO queue, *)
(* which is never lost and never doubled, and the accept event, which is   *)
(* posted at most once.  Both pass through the completion port and the     *)
(* batches that the threads take from it, for any number of threads,       *)
(* requests, exceptions and refused accepts.                               *)
(***************************************************************************)
EXTENDS EventLoop, SequenceTheorems, FiniteSetTheorems, TLAPS

Has(x, p) == \E i \in DOMAIN x : x[i] = p
Once(x, p) == \A i, j \in DOMAIN x : x[i] = p /\ x[j] = p => i = j

Batch(t) == thread[t].batch
At(t) == thread[t].at

(* What a thread does agrees with the packets it has taken.                *)
Shape ==
    \A t \in Threads :
        /\ At(t) = "wait" <=> Batch(t) = <<>>
        /\ At(t) \in {"notify", "results"} => Head(Batch(t)) = "rio" /\ thread[t].results # <<>>
        /\ At(t) \in {"accepted", "post"} => Head(Batch(t)) = "accept"

(* The notification waits, is in the port, or is with one thread that has  *)
(* not asked again; and whoever has it finds results.                      *)
Notified(t) == At(t) # "results" /\ Has(Batch(t), "rio")

NotificationIsOne ==
    /\ Once(iocp, "rio") /\ \A t \in Threads : Once(Batch(t), "rio")
    /\ \A t, u \in Threads : Notified(t) /\ Notified(u) => t = u
    /\ \A t \in Threads : Notified(t) => ~armed /\ ~Has(iocp, "rio")
    /\ armed => ~Has(iocp, "rio")
    /\ armed \/ Has(iocp, "rio") \/ \E t \in Threads : Notified(t)

NotificationFinds ==
    /\ armed => cq = <<>>
    /\ Has(iocp, "rio") => cq # <<>>
    /\ \A t \in Threads : Notified(t) /\ At(t) # "notify" => cq # <<>>

(* The accept is posted, in the port, with a thread, or about to be posted *)
(* by the main loop; and wherever it is, the server is running.            *)
Accepts(t) == Has(Batch(t), "accept")

AcceptIsOne ==
    /\ accepting \in {0, 1}
    /\ Once(iocp, "accept") /\ \A t \in Threads : Once(Batch(t), "accept")
    /\ \A t, u \in Threads : Accepts(t) /\ Accepts(u) => t = u
    /\ \A t \in Threads : Accepts(t) =>
          accepting = 0 /\ ~Has(iocp, "accept") /\ main = "idle" /\ server = "running"
    /\ Has(iocp, "accept") => accepting = 0 /\ main = "idle" /\ server = "running"
    /\ accepting = 1 => main = "idle" /\ server = "running"
    /\ main = "post" => server = "running"

Tokens == TypeOK /\ Shape /\ NotificationIsOne /\ NotificationFinds /\ AcceptIsOne

----------------------------------------------------------------------------
(* Packets in sequences: one added at the end, a batch taken from the      *)
(* front, the first one done.                                              *)
LEMMA AppendHas ==
  ASSUME NEW S, NEW s \in Seq(S), NEW e \in S
  PROVE  /\ Append(s, e) \in Seq(S) /\ Append(s, e) # <<>>
         /\ \A p : Has(Append(s, e), p) <=> (Has(s, p) \/ p = e)
         /\ \A p : Once(s, p) /\ (p = e => ~Has(s, p)) => Once(Append(s, e), p)
<1>1. /\ Append(s, e) \in Seq(S) /\ Append(s, e) # <<>>
      /\ DOMAIN Append(s, e) = DOMAIN s \cup {Len(s) + 1} /\ Len(s) + 1 \notin DOMAIN s
      /\ \A i \in DOMAIN s : Append(s, e)[i] = s[i]
      /\ Append(s, e)[Len(s) + 1] = e
  BY AppendProperties
<1>2. PICK a, k : a = Append(s, e) /\ k = Len(s) + 1
  OBVIOUS
<1>3. \A p : Has(a, p) <=> (Has(s, p) \/ p = e)
  BY <1>1, <1>2 DEF Has
<1>4. \A p : Once(s, p) /\ (p = e => ~Has(s, p)) => Once(a, p)
  BY <1>1, <1>2 DEF Has, Once
<1> QED
  BY <1>1, <1>2, <1>3, <1>4

LEMMA SplitHas ==
  ASSUME NEW S, NEW s \in Seq(S), NEW n \in 1 .. Len(s)
  PROVE  LET a == SubSeq(s, 1, n)
             b == SubSeq(s, n + 1, Len(s))
         IN  /\ a \in Seq(S) /\ a # <<>> /\ b \in Seq(S)
             /\ \A p : Has(s, p) <=> (Has(a, p) \/ Has(b, p))
             /\ \A p : Once(s, p) => Once(a, p) /\ Once(b, p) /\ ~(Has(a, p) /\ Has(b, p))
<1>1. PICK a, b : a = SubSeq(s, 1, n) /\ b = SubSeq(s, n + 1, Len(s))
  OBVIOUS
<1>2. /\ a \in Seq(S) /\ Len(a) = n /\ DOMAIN a = 1 .. n
      /\ \A i \in 1 .. n : a[i] = s[i]
  BY <1>1, SubSeqProperties, LenProperties, ElementOfSeq
<1>3. /\ b \in Seq(S) /\ DOMAIN b = 1 .. Len(s) - n
      /\ \A i \in 1 .. Len(s) - n : b[i] = s[i + n]
  BY <1>1, SubSeqProperties, LenProperties, ElementOfSeq
<1>4. a # <<>>
  BY <1>2
<1>5. DOMAIN s = 1 .. Len(s) /\ Len(s) \in Nat /\ n \in Nat /\ 1 <= n /\ n <= Len(s)
  BY LenProperties
<1>6. \A p : Has(s, p) <=> (Has(a, p) \/ Has(b, p))
  <2> SUFFICES ASSUME NEW p PROVE Has(s, p) <=> (Has(a, p) \/ Has(b, p))
    OBVIOUS
  <2>1. ASSUME NEW i \in DOMAIN s, s[i] = p PROVE Has(a, p) \/ Has(b, p)
    <3>1. CASE i <= n
      BY <1>2, <1>5, <2>1, <3>1 DEF Has
    <3>2. CASE i > n
      <4>1. i - n \in DOMAIN b /\ b[i - n] = s[i]
        BY <1>3, <1>5, <3>2
      <4> QED
        BY <2>1, <4>1 DEF Has
    <3> QED
      BY <1>5, <3>1, <3>2
  <2>2. ASSUME NEW i \in DOMAIN a, a[i] = p PROVE Has(s, p)
    BY <1>2, <1>5, <2>2 DEF Has
  <2>3. ASSUME NEW i \in DOMAIN b, b[i] = p PROVE Has(s, p)
    <3>1. i + n \in DOMAIN s /\ s[i + n] = p
      BY <1>3, <1>5, <2>3
    <3> QED
      BY <3>1 DEF Has
  <2> QED
    BY <2>1, <2>2, <2>3 DEF Has
<1>7. \A p : Once(s, p) => Once(a, p) /\ Once(b, p) /\ ~(Has(a, p) /\ Has(b, p))
  <2> SUFFICES ASSUME NEW p, Once(s, p)
               PROVE  Once(a, p) /\ Once(b, p) /\ ~(Has(a, p) /\ Has(b, p))
    OBVIOUS
  <2>1. \A i \in DOMAIN a : i \in DOMAIN s /\ a[i] = s[i] /\ i <= n
    BY <1>2, <1>5
  <2>2. \A i \in DOMAIN b : i + n \in DOMAIN s /\ b[i] = s[i + n] /\ i + n > n /\ i \in Int
    BY <1>3, <1>5
  <2>3. Once(a, p)
    BY <2>1 DEF Once
  <2>4. Once(b, p)
    BY <1>5, <2>2 DEF Once
  <2>5. ~(Has(a, p) /\ Has(b, p))
    BY <1>5, <2>1, <2>2 DEF Once, Has
  <2> QED
    BY <2>3, <2>4, <2>5
<1> QED
  BY <1>1, <1>2, <1>3, <1>4, <1>6, <1>7

LEMMA RestHas ==
  ASSUME NEW S, NEW s \in Seq(S), s # <<>>
  PROVE  /\ Tail(s) \in Seq(S) /\ (Len(s) = 1 <=> Tail(s) = <<>>)
         /\ \A p : Has(s, p) <=> (Has(Tail(s), p) \/ p = Head(s))
         /\ \A p : Once(s, p) => Once(Tail(s), p) /\ (p = Head(s) => ~Has(Tail(s), p))
<1>1. /\ Tail(s) \in Seq(S) /\ Len(Tail(s)) = Len(s) - 1
      /\ \A i \in 1 .. Len(Tail(s)) : Tail(s)[i] = s[i + 1]
  BY HeadTailProperties
<1>2. PICK b, h, n : b = Tail(s) /\ h = Head(s) /\ n = Len(s)
  OBVIOUS
<1>3. n \in Nat /\ n >= 1 /\ DOMAIN s = 1 .. n /\ h = s[1] /\ DOMAIN b = 1 .. n - 1
  BY <1>1, <1>2, LenProperties, EmptySeq
<1>4. \A i \in 1 .. n - 1 : b[i] = s[i + 1] /\ i + 1 \in 1 .. n
  BY <1>1, <1>2, <1>3
<1>5. n = 1 <=> b = <<>>
  <2>1. b \in Seq(S) /\ Len(b) = n - 1
    BY <1>1, <1>2
  <2>2. b = <<>> <=> Len(b) = 0
    BY <2>1, EmptySeq
  <2> QED
    BY <1>3, <2>1, <2>2
<1>6. \A p : Has(s, p) <=> (Has(b, p) \/ p = h)
  <2> SUFFICES ASSUME NEW p PROVE Has(s, p) <=> (Has(b, p) \/ p = h)
    OBVIOUS
  <2>1. ASSUME NEW i \in DOMAIN s, s[i] = p, i # 1 PROVE Has(b, p)
    <3>1. i - 1 \in DOMAIN b /\ b[i - 1] = s[i]
      BY <1>3, <1>4, <2>1
    <3> QED
      BY <2>1, <3>1 DEF Has
  <2>2. ASSUME NEW i \in DOMAIN b, b[i] = p PROVE Has(s, p)
    <3>1. i + 1 \in DOMAIN s /\ s[i + 1] = p
      BY <1>3, <1>4, <2>2
    <3> QED
      BY <3>1 DEF Has
  <2>3. p = h => Has(s, p)
    BY <1>3 DEF Has
  <2> QED
    BY <1>3, <2>1, <2>2, <2>3 DEF Has
<1>7. \A p : Once(s, p) => Once(b, p) /\ (p = h => ~Has(b, p))
  <2> SUFFICES ASSUME NEW p, Once(s, p) PROVE Once(b, p) /\ (p = h => ~Has(b, p))
    OBVIOUS
  <2>1. \A i \in DOMAIN b : i + 1 \in DOMAIN s /\ b[i] = s[i + 1] /\ i \in Int /\ i >= 1
    BY <1>3, <1>4
  <2>2. Once(b, p)
    BY <2>1 DEF Once
  <2>3. 1 \in DOMAIN s
    BY <1>3
  <2>4. p = h => ~Has(b, p)
    BY <1>3, <2>1, <2>3 DEF Once, Has
  <2> QED
    BY <2>2, <2>4
<1> QED
  BY <1>1, <1>2, <1>5, <1>6, <1>7

LEMMA EmptyHas == \A p : ~Has(<<>>, p) /\ Once(<<>>, p)
  BY DEF Has, Once

----------------------------------------------------------------------------
(* The threads and their batches.                                          *)
Stage == [batch : Seq(Packets), results : Seq(Requests), at : Steps]

LEMMA ThreadFacts ==
  ASSUME TypeOK, NEW t \in Threads
  PROVE  thread[t] \in Stage /\ Batch(t) \in Seq(Packets) /\ At(t) \in Steps
         /\ thread[t].results \in Seq(Requests)
  BY DEF TypeOK, Stage, Batch, At

LEMMA StageFacts ==
  ASSUME NEW b \in Seq(Packets), NEW r \in Seq(Requests), NEW a \in Steps
  PROVE  LET s == [batch |-> b, results |-> r, at |-> a]
         IN  s \in Stage /\ s.batch = b /\ s.results = r /\ s.at = a
  BY DEF Stage

(* Records with two of their three fields changed.                         *)
LEMMA BatchFacts ==
  ASSUME NEW q \in Stage, NEW b, NEW a
  PROVE  [q EXCEPT !.batch = b, !.at = a] = [batch |-> b, results |-> q.results, at |-> a]
<1>1. PICK x : x = [q EXCEPT !.batch = b]
  OBVIOUS
<1>2. x = [batch |-> b, results |-> q.results, at |-> q.at]
  BY <1>1 DEF Stage
<1>3. [x EXCEPT !.at = a] = [batch |-> b, results |-> q.results, at |-> a]
  BY <1>2
<1> QED
  BY <1>1, <1>3

LEMMA ResultFacts ==
  ASSUME NEW q \in Stage, NEW r, NEW a
  PROVE  [q EXCEPT !.results = r, !.at = a] = [batch |-> q.batch, results |-> r, at |-> a]
<1>1. PICK x : x = [q EXCEPT !.results = r]
  OBVIOUS
<1>2. x = [batch |-> q.batch, results |-> r, at |-> q.at]
  BY <1>1 DEF Stage
<1>3. [x EXCEPT !.at = a] = [batch |-> q.batch, results |-> r, at |-> a]
  BY <1>2
<1> QED
  BY <1>1, <1>3

(* One thread's step: the others stay as they are.                         *)
LEMMA StageStep ==
  ASSUME TypeOK, NEW t \in Threads, NEW s \in Stage, thread' = [thread EXCEPT ![t] = s]
  PROVE  /\ thread' \in [Threads -> Stage] /\ thread'[t] = s
         /\ Batch(t)' = s.batch /\ At(t)' = s.at
         /\ \A u \in Threads : u # t =>
              /\ thread'[u] = thread[u] /\ Batch(u)' = Batch(u) /\ At(u)' = At(u)
              /\ Notified(u)' <=> Notified(u)
              /\ Accepts(u)' <=> Accepts(u)
<1>1. thread \in [Threads -> Stage]
  BY DEF TypeOK, Stage
<1>2. /\ thread' \in [Threads -> Stage] /\ thread'[t] = s
      /\ \A u \in Threads : u # t => thread'[u] = thread[u]
  BY <1>1
<1>3. \A u \in Threads : u # t => Batch(u)' = Batch(u) /\ At(u)' = At(u)
  BY <1>2 DEF Batch, At
<1> QED
  BY <1>2, <1>3 DEF Batch, At, Notified, Accepts

(* The end of a packet's handler.                                          *)
LEMMA DoneFacts ==
  ASSUME TypeOK, NEW t \in Threads, Batch(t) # <<>>, Done(t)
  PROVE  \E s \in Stage : /\ thread' = [thread EXCEPT ![t] = s]
                          /\ s.batch = Tail(Batch(t)) /\ s.at \in {"wait", "run"}
                          /\ s.at = "wait" <=> s.batch = <<>>
<1>1. Batch(t) \in Seq(Packets) /\ thread \in [Threads -> Stage]
  BY ThreadFacts DEF TypeOK, Stage
<1>2. Tail(Batch(t)) \in Seq(Packets) /\ (Len(Batch(t)) = 1 <=> Tail(Batch(t)) = <<>>)
  BY <1>1, RestHas
<1>3. PICK s : s = IF Len(thread[t].batch) = 1 THEN Waiting
                   ELSE [batch |-> Tail(thread[t].batch), results |-> <<>>, at |-> "run"]
  OBVIOUS
<1>4. thread' = [thread EXCEPT ![t] = s]
  BY <1>3 DEF Done
<1>5. CASE Len(Batch(t)) = 1
  <2>1. s = [batch |-> <<>>, results |-> <<>>, at |-> "wait"]
    BY <1>3, <1>5 DEF Waiting, Batch
  <2>2. s \in Stage
    BY <2>1 DEF Stage, Steps
  <2> QED
    BY <1>2, <1>4, <1>5, <2>1, <2>2
<1>6. CASE Len(Batch(t)) # 1
  <2>1. s = [batch |-> Tail(Batch(t)), results |-> <<>>, at |-> "run"]
    BY <1>3, <1>6 DEF Batch
  <2>2. s \in Stage
    BY <1>2, <2>1 DEF Stage, Steps
  <2> QED
    BY <1>2, <1>4, <1>6, <2>1, <2>2
<1> QED
  BY <1>5, <1>6

(* A thread that is busy has a packet at the head of its batch.            *)
LEMMA HeadFacts ==
  ASSUME Tokens, NEW t \in Threads, At(t) # "wait"
  PROVE  /\ Batch(t) \in Seq(Packets) /\ Batch(t) # <<>> /\ Tail(Batch(t)) \in Seq(Packets)
         /\ \A p : Has(Batch(t), p) <=> (Has(Tail(Batch(t)), p) \/ p = Head(Batch(t)))
         /\ \A p : Once(Batch(t), p) =>
              Once(Tail(Batch(t)), p) /\ (p = Head(Batch(t)) => ~Has(Tail(Batch(t)), p))
<1>1. Batch(t) \in Seq(Packets) /\ Batch(t) # <<>>
  BY ThreadFacts DEF Tokens, Shape
<1> QED
  BY <1>1, RestHas

LEMMA ShapeStep ==
  ASSUME TypeOK, Shape, NEW t \in Threads, NEW s \in Stage, thread' = [thread EXCEPT ![t] = s],
         s.at = "wait" <=> s.batch = <<>>,
         s.at \in {"notify", "results"} => Head(s.batch) = "rio" /\ s.results # <<>>,
         s.at \in {"accepted", "post"} => Head(s.batch) = "accept"
  PROVE  Shape'
<1>1. thread'[t] = s /\ \A u \in Threads : u # t => thread'[u] = thread[u]
  BY StageStep
<1> QED
  BY <1>1 DEF Shape, Batch, At

LEMMA DoneStep ==
  ASSUME Tokens, NEW t \in Threads, At(t) # "wait", Done(t)
  PROVE  /\ thread' \in [Threads -> Stage] /\ Shape'
         /\ At(t)' \in {"wait", "run"}
         /\ \A p : Has(Batch(t), p)' => Has(Batch(t), p)
         /\ \A p : Once(Batch(t), p) => Once(Batch(t), p)' /\ (p = Head(Batch(t)) => ~Has(Batch(t), p)')
         /\ \A p : p # Head(Batch(t)) => (Has(Batch(t), p)' <=> Has(Batch(t), p))
         /\ \A u \in Threads : u # t =>
              /\ Batch(u)' = Batch(u) /\ At(u)' = At(u)
              /\ Notified(u)' <=> Notified(u)
              /\ Accepts(u)' <=> Accepts(u)
<1>1. TypeOK /\ Shape /\ Batch(t) # <<>>
  BY HeadFacts DEF Tokens
<1>2. PICK s \in Stage : /\ thread' = [thread EXCEPT ![t] = s]
                         /\ s.batch = Tail(Batch(t)) /\ s.at \in {"wait", "run"}
                         /\ s.at = "wait" <=> s.batch = <<>>
  BY <1>1, DoneFacts
<1>3. Shape'
  BY <1>1, <1>2, ShapeStep
<1>4. Batch(t)' = Tail(Batch(t)) /\ At(t)' = s.at
  BY <1>1, <1>2, StageStep
<1>5. \A p : (Has(Batch(t), p)' <=> Has(Tail(Batch(t)), p)) /\ (Once(Batch(t), p)' <=> Once(Tail(Batch(t)), p))
  BY <1>4 DEF Has, Once
<1>6. thread' \in [Threads -> Stage] /\ \A u \in Threads : u # t =>
              /\ Batch(u)' = Batch(u) /\ At(u)' = At(u)
              /\ Notified(u)' <=> Notified(u)
              /\ Accepts(u)' <=> Accepts(u)
  BY <1>1, <1>2, StageStep
<1> QED
  BY <1>2, <1>3, <1>4, <1>5, <1>6, HeadFacts

(* Steps that leave the threads alone keep what is said of them.           *)
LEMMA ThreadsStay ==
  ASSUME UNCHANGED thread
  PROVE  /\ Shape' <=> Shape
         /\ \A t : Batch(t)' = Batch(t) /\ At(t)' = At(t)
         /\ \A t : (Notified(t)' <=> Notified(t)) /\ (Accepts(t)' <=> Accepts(t))
  BY DEF Shape, Batch, At, Notified, Accepts

----------------------------------------------------------------------------
(* Every step keeps the tokens.                                            *)
LEMMA InitTokens == Init => Tokens
<1> SUFFICES ASSUME Init PROVE Tokens
  OBVIOUS
<1>1. \A t \in Threads : Batch(t) = <<>> /\ At(t) = "wait"
  BY DEF Init, Batch, At, Waiting
<1>2. TypeOK
  BY DEF Init, TypeOK, Waiting, Steps
<1>3. ~Has(iocp, "rio") /\ ~Has(iocp, "accept") /\ Once(iocp, "rio") /\ Once(iocp, "accept")
  BY EmptyHas DEF Init
<1>4. \A t \in Threads : ~Notified(t) /\ ~Accepts(t) /\ \A p : Once(Batch(t), p)
  BY <1>1, EmptyHas DEF Notified, Accepts
<1>5. Shape
  BY <1>1 DEF Shape
<1> QED
  BY <1>2, <1>3, <1>4, <1>5 DEF Init, Tokens, NotificationIsOne, NotificationFinds, AcceptIsOne

(* A request is posted.                                                    *)
LEMMA RequestStep ==
  ASSUME Tokens, NEW r \in Requests, PostRequest(r)
  PROVE  Tokens'
<1>1. UNCHANGED <<cq, armed, iocp, thread, server, accepting, main, task, throws, refusals, lost>>
  BY DEF PostRequest
<1>2. TypeOK'
  BY <1>1 DEF Tokens, TypeOK, PostRequest
<1> QED
  BY <1>1, <1>2, ThreadsStay DEF Tokens, NotificationIsOne, NotificationFinds, AcceptIsOne

(* A result arrives, and with it a notification that waited.               *)
LEMMA CompletesStep ==
  ASSUME Tokens, NEW r \in Requests, Completes(r)
  PROVE  Tokens'
<1>1. /\ cq' = Append(cq, r) /\ armed' = FALSE
      /\ iocp' = IF armed THEN Append(iocp, "rio") ELSE iocp
      /\ UNCHANGED <<busy, thread, server, accepting, main, task, throws, refusals, lost>>
  BY DEF Completes
<1>2. cq \in Seq(Requests) /\ iocp \in Seq(Packets) /\ "rio" \in Packets /\ armed \in BOOLEAN
  BY DEF Tokens, TypeOK, Packets
<1>3. cq' \in Seq(Requests) /\ cq' # <<>>
  BY <1>1, <1>2, AppendHas
<1>4. /\ iocp' \in Seq(Packets)
      /\ Has(iocp, "rio")' <=> (Has(iocp, "rio") \/ armed)
      /\ Has(iocp, "accept")' <=> Has(iocp, "accept")
      /\ Once(iocp, "accept") => Once(iocp, "accept")'
      /\ Once(iocp, "rio") /\ (armed => ~Has(iocp, "rio")) => Once(iocp, "rio")'
  <2>1. CASE armed
    BY <1>1, <1>2, <2>1, AppendHas
  <2>2. CASE ~armed
    BY <1>1, <1>2, <2>2
  <2> QED
    BY <2>1, <2>2
<1>5. TypeOK'
  BY <1>1, <1>3, <1>4 DEF Tokens, TypeOK, Completes
<1> QED
  BY <1>1, <1>3, <1>4, <1>5, ThreadsStay DEF Tokens, NotificationIsOne, NotificationFinds, AcceptIsOne

(* A client connects.                                                      *)
LEMMA ConnectsStep ==
  ASSUME Tokens, Connects
  PROVE  Tokens'
<1>1. /\ accepting > 0 /\ accepting' = accepting - 1 /\ iocp' = Append(iocp, "accept")
      /\ UNCHANGED <<busy, inflight, cq, armed, thread, server, main, task, throws, refusals, lost>>
  BY DEF Connects
<1>2. accepting = 1
  BY <1>1 DEF Tokens, AcceptIsOne
<1>3. iocp \in Seq(Packets) /\ "accept" \in Packets
  BY DEF Tokens, TypeOK, Packets
<1>4. /\ iocp' \in Seq(Packets)
      /\ Has(iocp, "rio")' <=> Has(iocp, "rio")
      /\ Has(iocp, "accept")'
      /\ Once(iocp, "rio") => Once(iocp, "rio")'
      /\ Once(iocp, "accept") /\ ~Has(iocp, "accept") => Once(iocp, "accept")'
  BY <1>1, <1>3, AppendHas
<1>5. TypeOK'
  BY <1>1, <1>2, <1>4 DEF Tokens, TypeOK
<1> QED
  BY <1>1, <1>2, <1>4, <1>5, ThreadsStay DEF Tokens, NotificationIsOne, NotificationFinds, AcceptIsOne

(* A task is scheduled.                                                    *)
LEMMA TaskStep ==
  ASSUME Tokens, ScheduleTask
  PROVE  Tokens'
<1>1. /\ task' = "processing" /\ iocp' = Append(iocp, "task")
      /\ UNCHANGED <<busy, inflight, cq, armed, thread, server, accepting, main, throws, refusals, lost>>
  BY DEF ScheduleTask
<1>2. iocp \in Seq(Packets) /\ "task" \in Packets
  BY DEF Tokens, TypeOK, Packets
<1>3. /\ iocp' \in Seq(Packets)
      /\ \A p \in {"rio", "accept"} : /\ Has(iocp, p)' <=> Has(iocp, p)
                                      /\ Once(iocp, p) => Once(iocp, p)'
  BY <1>1, <1>2, AppendHas
<1>4. TypeOK'
  BY <1>1, <1>3 DEF Tokens, TypeOK
<1> QED
  BY <1>1, <1>3, <1>4, ThreadsStay DEF Tokens, NotificationIsOne, NotificationFinds, AcceptIsOne

(* The main loop starts an accept.                                         *)
LEMMA MainStep ==
  ASSUME Tokens, MainRestarts \/ MainPosts
  PROVE  Tokens'
<1>1. UNCHANGED <<busy, inflight, cq, armed, iocp, thread, task, throws, lost>>
  BY DEF MainRestarts, MainPosts
<1>2. TypeOK'
  BY <1>1 DEF Tokens, TypeOK, MainRestarts, MainPosts, Posts
<1>3. AcceptIsOne'
  BY <1>1, ThreadsStay DEF Tokens, TypeOK, AcceptIsOne, MainRestarts, MainPosts, Posts
<1> QED
  BY <1>1, <1>2, <1>3, ThreadsStay DEF Tokens, NotificationIsOne, NotificationFinds

(* A thread takes packets from the port.                                   *)
LEMMA TakeStep ==
  ASSUME Tokens, NEW t \in Threads, Take(t)
  PROVE  Tokens'
<1>1. PICK n \in 1 .. Len(iocp) :
        /\ thread' = [thread EXCEPT ![t] = [@ EXCEPT !.batch = SubSeq(iocp, 1, n), !.at = "run"]]
        /\ iocp' = SubSeq(iocp, n + 1, Len(iocp))
  BY DEF Take
<1>2. /\ At(t) = "wait"
      /\ UNCHANGED <<busy, inflight, cq, armed, server, accepting, main, task, throws, refusals, lost>>
  BY DEF Take, At
<1>3. PICK a : a = SubSeq(iocp, 1, n)
  OBVIOUS
<1>4. /\ iocp \in Seq(Packets) /\ a \in Seq(Packets) /\ a # <<>> /\ iocp' \in Seq(Packets)
      /\ \A p : Has(iocp, p) <=> (Has(a, p) \/ Has(iocp', p))
      /\ \A p : Once(iocp, p) => Once(a, p) /\ Once(iocp', p) /\ ~(Has(a, p) /\ Has(iocp', p))
  <2>1. iocp \in Seq(Packets)
    BY DEF Tokens, TypeOK
  <2> QED
    BY <1>1, <1>3, <2>1, SplitHas
<1>5. PICK s : s = [batch |-> a, results |-> thread[t].results, at |-> "run"]
  OBVIOUS
<1>6. /\ s \in Stage /\ s.batch = a /\ s.at = "run"
      /\ thread' = [thread EXCEPT ![t] = s] /\ TypeOK /\ Shape
  <2>1. /\ thread[t] \in Stage /\ TypeOK /\ Shape /\ thread[t].results \in Seq(Requests)
        /\ "run" \in Steps
    BY ThreadFacts DEF Tokens, Steps
  <2>2. s \in Stage /\ s.batch = a /\ s.at = "run"
    BY <1>4, <1>5, <2>1, StageFacts
  <2>3. [thread[t] EXCEPT !.batch = a, !.at = "run"] = s
    BY <1>5, <2>1, BatchFacts
  <2> QED
    BY <1>1, <1>3, <2>1, <2>2, <2>3
<1>7. Shape'
  BY <1>4, <1>6, ShapeStep
<1>8. /\ Batch(t)' = a /\ At(t)' = "run" /\ thread' \in [Threads -> Stage]
      /\ \A u \in Threads : u # t => /\ Batch(u)' = Batch(u) /\ At(u)' = At(u)
                                     /\ Notified(u)' <=> Notified(u)
                                     /\ Accepts(u)' <=> Accepts(u)
  BY <1>6, StageStep
<1>9. /\ Notified(t)' <=> Has(a, "rio")
      /\ Accepts(t)' <=> Has(a, "accept")
      /\ Once(Batch(t), "rio")' <=> Once(a, "rio")
      /\ Once(Batch(t), "accept")' <=> Once(a, "accept")
      /\ ~Notified(t)
  <2>1. Batch(t) = <<>>
    BY <1>2, <1>6 DEF Shape
  <2> QED
    BY <1>8, <2>1, EmptyHas DEF Notified, Accepts
<1>10. TypeOK'
  BY <1>2, <1>4, <1>6, <1>8 DEF TypeOK, Stage
<1>11. NotificationIsOne'
  BY <1>2, <1>4, <1>8, <1>9 DEF Tokens, NotificationIsOne
<1>12. NotificationFinds'
  BY <1>2, <1>4, <1>8, <1>9 DEF Tokens, NotificationFinds
<1>13. AcceptIsOne'
  BY <1>2, <1>4, <1>8, <1>9 DEF Tokens, AcceptIsOne
<1> QED
  BY <1>7, <1>10, <1>11, <1>12, <1>13 DEF Tokens

(* A thread that holds the notification is the only place it is in.        *)
LEMMA HolderFacts ==
  ASSUME Tokens, NEW t \in Threads, Notified(t)
  PROVE  /\ ~armed /\ ~Has(iocp, "rio") /\ \A u \in Threads : u # t => ~Notified(u)
  BY DEF Tokens, NotificationIsOne

(* The notification's handler takes results: it finds some.                *)
LEMMA DequeueStep ==
  ASSUME Tokens, NEW t \in Threads, Dequeue(t), MaxResults \in Nat \ {0}
  PROVE  Tokens'
<1>1. PICK n : n = IF Len(cq) < MaxResults THEN Len(cq) ELSE MaxResults
  OBVIOUS
<1>2. /\ At(t) = "run" /\ Head(Batch(t)) = "rio" /\ cq' = SubSeq(cq, n + 1, Len(cq))
      /\ UNCHANGED <<busy, inflight, armed, iocp, server, accepting, main, task, throws, refusals, lost>>
  BY <1>1 DEF Dequeue, Runs, At, Batch
<1>3. TypeOK /\ Shape /\ Batch(t) \in Seq(Packets) /\ Batch(t) # <<>> /\ Notified(t)
  BY <1>2, HeadFacts DEF Tokens, Notified
<1>4. cq # <<>> /\ cq \in Seq(Requests)
  BY <1>2, <1>3 DEF Tokens, NotificationFinds, TypeOK
<1>5. n \in 1 .. Len(cq)
  BY <1>1, <1>4, EmptySeq
<1>6. SubSeq(cq, 1, n) \in Seq(Requests) /\ SubSeq(cq, 1, n) # <<>> /\ cq' \in Seq(Requests)
  BY <1>2, <1>4, <1>5, SplitHas
<1>7. PICK s : s = [batch |-> Batch(t), results |-> SubSeq(cq, 1, n), at |-> "notify"]
  OBVIOUS
<1>8. /\ s \in Stage /\ s.batch = Batch(t) /\ s.at = "notify" /\ s.results # <<>>
      /\ thread' = [thread EXCEPT ![t] = s]
  <2>1. thread[t] \in Stage /\ "notify" \in Steps
    BY <1>3, ThreadFacts DEF Steps
  <2>2. thread' = [thread EXCEPT ![t] = [@ EXCEPT !.results = SubSeq(cq, 1, n), !.at = "notify"]]
    BY <1>1, <1>5 DEF Dequeue
  <2>3. s \in Stage /\ s.batch = Batch(t) /\ s.at = "notify" /\ s.results = SubSeq(cq, 1, n)
    BY <1>3, <1>6, <1>7, <2>1, StageFacts
  <2>4. [thread[t] EXCEPT !.results = SubSeq(cq, 1, n), !.at = "notify"] = s
    BY <1>7, <2>1, ResultFacts DEF Batch
  <2> QED
    BY <1>6, <2>2, <2>3, <2>4
<1>9. Shape'
  BY <1>2, <1>3, <1>8, ShapeStep
<1>10. /\ Batch(t)' = Batch(t) /\ At(t)' = "notify" /\ thread' \in [Threads -> Stage]
       /\ \A u \in Threads : u # t => /\ Batch(u)' = Batch(u) /\ At(u)' = At(u)
                                      /\ Notified(u)' <=> Notified(u)
                                      /\ Accepts(u)' <=> Accepts(u)
  BY <1>3, <1>8, StageStep
<1>11. Notified(t)' /\ (Accepts(t)' <=> Accepts(t))
  BY <1>3, <1>10 DEF Notified, Accepts
<1>12. TypeOK'
  BY <1>2, <1>3, <1>6, <1>10 DEF TypeOK, Stage
<1>13. NotificationIsOne'
  BY <1>2, <1>3, <1>10, <1>11 DEF Tokens, NotificationIsOne
<1>14. NotificationFinds'
  BY <1>2, <1>3, <1>10, HolderFacts DEF NotificationFinds
<1>15. AcceptIsOne'
  BY <1>2, <1>10, <1>11 DEF Tokens, AcceptIsOne
<1> QED
  BY <1>9, <1>12, <1>13, <1>14, <1>15 DEF Tokens

(* It asks for the next one: the notification leaves the thread.           *)
LEMMA NotifyStep ==
  ASSUME Tokens, NEW t \in Threads, Notify(t)
  PROVE  Tokens'
<1>1. /\ At(t) = "notify" /\ thread' = [thread EXCEPT ![t].at = "results"]
      /\ UNCHANGED <<busy, inflight, cq, server, accepting, main, task, throws, refusals, lost>>
  BY DEF Notify, At
<1>2. /\ TypeOK /\ Shape /\ Batch(t) \in Seq(Packets) /\ Batch(t) # <<>> /\ Head(Batch(t)) = "rio"
      /\ Notified(t) /\ thread[t].results # <<>>
  BY <1>1, HeadFacts DEF Tokens, Notified, Shape
<1>3. PICK s : s = [batch |-> Batch(t), results |-> thread[t].results, at |-> "results"]
  OBVIOUS
<1>4. /\ s \in Stage /\ s.batch = Batch(t) /\ s.at = "results" /\ s.results # <<>>
      /\ thread' = [thread EXCEPT ![t] = s]
  <2>1. thread[t] \in Stage /\ "results" \in Steps /\ thread[t].results \in Seq(Requests)
    BY <1>2, ThreadFacts DEF Steps
  <2>2. s \in Stage /\ s.batch = Batch(t) /\ s.at = "results" /\ s.results = thread[t].results
    BY <1>2, <1>3, <2>1, StageFacts
  <2>3. [thread[t] EXCEPT !.at = "results"] = s
    BY <1>3, <2>1 DEF Stage, Batch
  <2> QED
    BY <1>1, <1>2, <2>2, <2>3
<1>5. Shape'
  BY <1>2, <1>4, ShapeStep
<1>6. /\ Batch(t)' = Batch(t) /\ At(t)' = "results" /\ thread' \in [Threads -> Stage]
      /\ \A u \in Threads : u # t => /\ Batch(u)' = Batch(u) /\ At(u)' = At(u)
                                     /\ Notified(u)' <=> Notified(u)
                                     /\ Accepts(u)' <=> Accepts(u)
  BY <1>2, <1>4, StageStep
<1>7. ~Notified(t)' /\ (Accepts(t)' <=> Accepts(t))
  BY <1>6 DEF Notified, Accepts
<1>8. /\ iocp' \in Seq(Packets) /\ armed' \in BOOLEAN
      /\ armed' <=> cq = <<>>
      /\ Has(iocp', "rio") <=> cq # <<>>
      /\ Has(iocp', "accept") <=> Has(iocp, "accept")
      /\ \A p : Once(iocp, p) => Once(iocp', p)
  <2>1. /\ iocp \in Seq(Packets) /\ "rio" \in Packets /\ armed \in BOOLEAN
        /\ ~armed /\ ~Has(iocp, "rio")
    BY <1>2, HolderFacts DEF TypeOK, Packets
  <2>2. NotifyCompletion(cq)
    BY DEF Notify
  <2>3. CASE cq = <<>>
    BY <2>1, <2>2, <2>3 DEF NotifyCompletion
  <2>4. CASE cq # <<>>
    <3>1. armed' = armed /\ iocp' = Append(iocp, "rio")
      BY <2>2, <2>4 DEF NotifyCompletion
    <3>2. /\ iocp' \in Seq(Packets) /\ Has(iocp', "rio")
          /\ Has(iocp', "accept") <=> Has(iocp, "accept")
      BY <2>1, <3>1, AppendHas
    <3>3. \A p : Once(iocp, p) => Once(iocp', p)
      BY <2>1, <3>1, AppendHas
    <3> QED
      BY <2>1, <2>4, <3>1, <3>2, <3>3
  <2> QED
    BY <2>3, <2>4
<1>9. TypeOK'
  BY <1>1, <1>2, <1>6, <1>8 DEF TypeOK, Stage
<1>10. NotificationIsOne'
  BY <1>1, <1>2, <1>6, <1>7, <1>8, HolderFacts DEF Tokens, NotificationIsOne
<1>11. NotificationFinds'
  BY <1>1, <1>2, <1>6, <1>7, <1>8, HolderFacts DEF Tokens, NotificationFinds
<1>12. AcceptIsOne'
  BY <1>1, <1>6, <1>7, <1>8 DEF Tokens, AcceptIsOne
<1> QED
  BY <1>5, <1>9, <1>10, <1>11, <1>12 DEF Tokens

(* A handler has returned: the notification and, but for its own packet,   *)
(* the accept stay where they are.                                         *)
LEMMA DoneTokens ==
  ASSUME Tokens, NEW t \in Threads, At(t) \in {"run", "results", "post"}, Done(t),
         At(t) = "run" => Head(Batch(t)) # "rio",
         UNCHANGED <<cq, armed, iocp, main>>
  PROVE  /\ Shape' /\ thread' \in [Threads -> Stage] /\ NotificationIsOne' /\ NotificationFinds'
         /\ Head(Batch(t)) # "accept" => \A u \in Threads : Accepts(u)' <=> Accepts(u)
         /\ Head(Batch(t)) = "accept" => \A u \in Threads : ~Accepts(u)'
         /\ \A u \in Threads : Once(Batch(u), "accept")'
<1>1. /\ thread' \in [Threads -> Stage] /\ Shape'
      /\ At(t)' \in {"wait", "run"}
      /\ \A p : Has(Batch(t), p)' => Has(Batch(t), p)
      /\ \A p : Once(Batch(t), p) => Once(Batch(t), p)' /\ (p = Head(Batch(t)) => ~Has(Batch(t), p)')
      /\ \A p : p # Head(Batch(t)) => (Has(Batch(t), p)' <=> Has(Batch(t), p))
      /\ \A u \in Threads : u # t =>
           /\ Batch(u)' = Batch(u) /\ At(u)' = At(u)
           /\ Notified(u)' <=> Notified(u)
           /\ Accepts(u)' <=> Accepts(u)
  BY DoneStep
<1>2. Once(Batch(t), "rio") /\ Once(Batch(t), "accept")
  BY DEF Tokens, NotificationIsOne, AcceptIsOne
<1>3. \A u \in Threads : Once(Batch(u), "rio")' /\ Once(Batch(u), "accept")'
  <2> SUFFICES ASSUME NEW u \in Threads PROVE Once(Batch(u), "rio")' /\ Once(Batch(u), "accept")'
    OBVIOUS
  <2>1. CASE u = t
    BY <1>1, <1>2, <2>1
  <2>2. CASE u # t
    <3>1. Once(Batch(u), "rio") /\ Once(Batch(u), "accept")
      BY DEF Tokens, NotificationIsOne, AcceptIsOne
    <3> QED
      BY <1>1, <2>2, <3>1 DEF Once
  <2> QED
    BY <2>1, <2>2
<1>4. Notified(t)' <=> Notified(t)
  <2>1. CASE At(t) = "results"
    <3>1. Head(Batch(t)) = "rio"
      BY <2>1 DEF Tokens, Shape
    <3> QED
      BY <1>1, <1>2, <2>1, <3>1 DEF Notified
  <2>2. CASE At(t) # "results"
    <3>1. Head(Batch(t)) # "rio"
      BY <2>2 DEF Tokens, Shape
    <3> QED
      BY <1>1, <2>2, <3>1 DEF Notified
  <2> QED
    BY <2>1, <2>2
<1>5. \A u \in Threads : Notified(u)' <=> Notified(u)
  BY <1>1, <1>4
<1>6. NotificationIsOne'
  BY <1>3, <1>5 DEF Tokens, NotificationIsOne
<1>7. NotificationFinds'
  BY <1>1, <1>5 DEF Tokens, NotificationFinds
<1>8. Head(Batch(t)) # "accept" => \A u \in Threads : Accepts(u)' <=> Accepts(u)
  BY <1>1 DEF Accepts
<1>9. ASSUME Head(Batch(t)) = "accept" PROVE \A u \in Threads : ~Accepts(u)'
  <2>1. Accepts(t) /\ ~Accepts(t)'
    BY <1>1, <1>2, <1>9, HeadFacts DEF Accepts
  <2>2. \A u \in Threads : u # t => ~Accepts(u)
    BY <2>1 DEF Tokens, AcceptIsOne
  <2> QED
    BY <1>1, <2>1, <2>2
<1> QED
  BY <1>1, <1>3, <1>6, <1>7, <1>8, <1>9

(* A result is handled.                                                    *)
LEMMA ResultStep ==
  ASSUME Tokens, NEW t \in Threads, HandleResult(t)
  PROVE  Tokens'
<1>1. /\ At(t) = "results"
      /\ UNCHANGED <<inflight, cq, armed, iocp, server, accepting, main, task, throws, refusals, lost>>
  BY DEF HandleResult, At
<1>2. TypeOK /\ Shape /\ thread[t] \in Stage /\ busy' \in SUBSET Requests
      /\ Head(Batch(t)) = "rio" /\ Batch(t) # <<>> /\ thread[t].results # <<>>
      /\ thread[t].results \in Seq(Requests) /\ Batch(t) \in Seq(Packets)
  BY <1>1, ThreadFacts, HeadFacts DEF Tokens, Shape, HandleResult, TypeOK
<1>3. CASE Len(thread[t].results) = 1
  <2>1. Done(t)
    BY <1>3 DEF HandleResult
  <2>2. /\ Shape' /\ thread' \in [Threads -> Stage] /\ NotificationIsOne' /\ NotificationFinds'
        /\ \A u \in Threads : Accepts(u)' <=> Accepts(u)
        /\ \A u \in Threads : Once(Batch(u), "accept")'
    BY <1>1, <1>2, <2>1, DoneTokens
  <2>3. TypeOK'
    BY <1>1, <1>2, <2>2 DEF TypeOK, Stage
  <2>4. AcceptIsOne'
    BY <1>1, <2>2 DEF Tokens, AcceptIsOne
  <2> QED
    BY <2>2, <2>3, <2>4 DEF Tokens
<1>4. CASE Len(thread[t].results) # 1
  <2>1. PICK r : r = Tail(thread[t].results)
    OBVIOUS
  <2>2. r \in Seq(Requests) /\ r # <<>>
    BY <1>2, <1>4, <2>1, RestHas
  <2>3. PICK s : s = [batch |-> Batch(t), results |-> r, at |-> "results"]
    OBVIOUS
  <2>4. s \in Stage /\ s.batch = Batch(t) /\ s.results = r /\ s.at = "results"
    BY <1>2, <2>2, <2>3, StageFacts DEF Steps
  <2>5. thread' = [thread EXCEPT ![t] = s]
    <3>1. thread' = [thread EXCEPT ![t].results = r]
      BY <1>4, <2>1 DEF HandleResult
    <3>2. [thread[t] EXCEPT !.results = r] = s
      BY <1>1, <1>2, <2>3 DEF Stage, Batch, At
    <3> QED
      BY <3>1, <3>2
  <2>6. Shape'
    BY <1>2, <2>2, <2>4, <2>5, ShapeStep
  <2>7. /\ Batch(t)' = Batch(t) /\ At(t)' = "results" /\ thread' \in [Threads -> Stage]
        /\ \A u \in Threads : u # t => /\ Batch(u)' = Batch(u) /\ At(u)' = At(u)
                                       /\ Notified(u)' <=> Notified(u)
                                       /\ Accepts(u)' <=> Accepts(u)
    BY <1>2, <2>4, <2>5, StageStep
  <2>8. \A u \in Threads : /\ Batch(u)' = Batch(u) /\ At(u)' = At(u)
                           /\ Notified(u)' <=> Notified(u)
                           /\ Accepts(u)' <=> Accepts(u)
    BY <1>1, <2>7 DEF Notified, Accepts
  <2>9. TypeOK'
    BY <1>1, <1>2, <2>7 DEF TypeOK, Stage
  <2>10. NotificationIsOne' /\ NotificationFinds' /\ AcceptIsOne'
    BY <1>1, <2>8 DEF Tokens, NotificationIsOne, NotificationFinds, AcceptIsOne
  <2> QED
    BY <2>6, <2>9, <2>10 DEF Tokens
<1> QED
  BY <1>3, <1>4

(* A task has run.                                                         *)
LEMMA RunTaskStep ==
  ASSUME Tokens, NEW t \in Threads, RunTask(t)
  PROVE  Tokens'
<1>1. /\ At(t) = "run" /\ Head(Batch(t)) = "task" /\ Done(t) /\ task' = "unused"
      /\ UNCHANGED <<busy, inflight, cq, armed, iocp, server, accepting, main, throws, refusals, lost>>
  BY DEF RunTask, Runs, At, Batch
<1>2. /\ Shape' /\ thread' \in [Threads -> Stage] /\ NotificationIsOne' /\ NotificationFinds'
      /\ \A u \in Threads : Accepts(u)' <=> Accepts(u)
      /\ \A u \in Threads : Once(Batch(u), "accept")'
  BY <1>1, DoneTokens
<1>3. TypeOK'
  BY <1>1, <1>2 DEF Tokens, TypeOK, Stage
<1>4. AcceptIsOne'
  BY <1>1, <1>2 DEF Tokens, AcceptIsOne
<1> QED
  BY <1>2, <1>3, <1>4 DEF Tokens

(* The accept's handler, up to the call that posts the next one.           *)
LEMMA AcceptStep ==
  ASSUME Tokens, NEW t \in Threads, HandleAccept(t) \/ StartAccept(t)
  PROVE  Tokens'
<1>1. /\ At(t) \in {"run", "accepted"} /\ Head(Batch(t)) = "accept"
      /\ UNCHANGED <<busy, inflight, cq, armed, iocp, accepting, main, task, throws, refusals, lost>>
  BY DEF HandleAccept, StartAccept, threadsOnly, Runs, At, Batch, Tokens, Shape
<1>2. PICK a : a \in {"accepted", "post"} /\ thread' = [thread EXCEPT ![t].at = a]
  BY DEF HandleAccept, StartAccept
<1>3. /\ TypeOK /\ Shape /\ Batch(t) \in Seq(Packets) /\ Batch(t) # <<>>
      /\ Accepts(t) /\ server = "running" /\ thread[t].results \in Seq(Requests)
  BY <1>1, HeadFacts, ThreadFacts DEF Tokens, Accepts, AcceptIsOne
<1>4. server' = "running"
  BY <1>3 DEF HandleAccept, StartAccept, threadsOnly
<1>5. PICK s : s = [batch |-> Batch(t), results |-> thread[t].results, at |-> a]
  OBVIOUS
<1>6. /\ s \in Stage /\ s.batch = Batch(t) /\ s.at = a
      /\ thread' = [thread EXCEPT ![t] = s]
  <2>1. thread[t] \in Stage /\ a \in Steps
    BY <1>2, <1>3, ThreadFacts DEF Steps
  <2>2. s \in Stage /\ s.batch = Batch(t) /\ s.at = a
    BY <1>3, <1>5, <2>1, StageFacts
  <2>3. [thread[t] EXCEPT !.at = a] = s
    BY <1>5, <2>1 DEF Stage, Batch
  <2> QED
    BY <1>2, <2>2, <2>3
<1>7. Shape'
  BY <1>1, <1>2, <1>3, <1>6, ShapeStep
<1>8. /\ Batch(t)' = Batch(t) /\ At(t)' = a /\ thread' \in [Threads -> Stage]
      /\ \A u \in Threads : u # t => /\ Batch(u)' = Batch(u) /\ At(u)' = At(u)
                                     /\ Notified(u)' <=> Notified(u)
                                     /\ Accepts(u)' <=> Accepts(u)
  BY <1>3, <1>6, StageStep
<1>9. /\ \A u \in Threads : /\ Batch(u)' = Batch(u)
                            /\ Notified(u)' <=> Notified(u)
                            /\ Accepts(u)' <=> Accepts(u)
      /\ \A u \in Threads : At(u)' # "notify" => At(u) # "notify"
  BY <1>1, <1>2, <1>8 DEF Notified, Accepts
<1>10. TypeOK'
  BY <1>1, <1>3, <1>4, <1>8 DEF TypeOK, Stage
<1>11. NotificationIsOne'
  BY <1>1, <1>9 DEF Tokens, NotificationIsOne
<1>12. NotificationFinds'
  BY <1>1, <1>9 DEF Tokens, NotificationFinds
<1>13. AcceptIsOne'
  BY <1>1, <1>3, <1>4, <1>9 DEF Tokens, AcceptIsOne
<1> QED
  BY <1>7, <1>10, <1>11, <1>12, <1>13 DEF Tokens

(* The accept leaves the thread: it is posted, or the server stops.        *)
LEMMA PostStep ==
  ASSUME Tokens, NEW t \in Threads, PostAccept(t)
  PROVE  Tokens'
<1>1. /\ At(t) = "post" /\ Done(t) /\ Posts
      /\ UNCHANGED <<busy, inflight, cq, armed, iocp, main, task, throws, lost>>
  BY DEF PostAccept, At
<1>2. /\ Head(Batch(t)) = "accept" /\ Accepts(t)
      /\ accepting = 0 /\ ~Has(iocp, "accept") /\ main = "idle" /\ server = "running"
  BY <1>1, HeadFacts DEF Tokens, Shape, Accepts, AcceptIsOne
<1>3. /\ Shape' /\ thread' \in [Threads -> Stage] /\ NotificationIsOne' /\ NotificationFinds'
      /\ \A u \in Threads : ~Accepts(u)'
      /\ \A u \in Threads : Once(Batch(u), "accept")'
  BY <1>1, <1>2, DoneTokens
<1>4. TypeOK'
  BY <1>1, <1>3 DEF Tokens, TypeOK, Stage, Posts
<1>5. AcceptIsOne'
  BY <1>1, <1>2, <1>3 DEF Tokens, AcceptIsOne, Posts
<1> QED
  BY <1>3, <1>4, <1>5 DEF Tokens

(* A handler throws: an accept is lost, the notification is not, because   *)
(* its handler has asked again before it runs the handlers that may throw. *)
LEMMA ThrowsStep ==
  ASSUME Tokens, NEW t \in Threads, Throws(t)
  PROVE  Tokens'
<1>1. /\ At(t) \in {"run", "results"} /\ (At(t) = "run" => Head(Batch(t)) # "rio") /\ Done(t)
      /\ throws' = throws + 1
      /\ UNCHANGED <<busy, inflight, cq, armed, iocp, server, accepting, main, task, refusals>>
  BY DEF Throws, Runs, At, Batch
<1>2. /\ Shape' /\ thread' \in [Threads -> Stage] /\ NotificationIsOne' /\ NotificationFinds'
      /\ Head(Batch(t)) # "accept" => \A u \in Threads : Accepts(u)' <=> Accepts(u)
      /\ Head(Batch(t)) = "accept" => \A u \in Threads : ~Accepts(u)'
      /\ \A u \in Threads : Once(Batch(u), "accept")'
  BY <1>1, DoneTokens
<1>3. lost' \in SUBSET (Requests \cup {"accept", "task"})
  <2>1. thread[t].results \in Seq(Requests)
    BY ThreadFacts DEF Tokens
  <2>2. Set(thread[t].results) \subseteq Requests
    BY <2>1, LenProperties DEF Set
  <2> QED
    BY <2>2 DEF Throws, Tokens, TypeOK
<1>4. TypeOK'
  BY <1>1, <1>2, <1>3 DEF Tokens, TypeOK, Stage
<1>5. AcceptIsOne'
  BY <1>1, <1>2 DEF Tokens, AcceptIsOne
<1> QED
  BY <1>2, <1>4, <1>5 DEF Tokens

(* Every step keeps the tokens.                                            *)
LEMMA NextTokens ==
  ASSUME EventLoopAssumption
  PROVE  Tokens /\ [Next]_vars => Tokens'
<1> SUFFICES ASSUME Tokens, [Next]_vars PROVE Tokens'
  OBVIOUS
<1>1. CASE UNCHANGED vars
  BY <1>1, ThreadsStay DEF vars, Tokens, TypeOK, NotificationIsOne, NotificationFinds, AcceptIsOne
<1>2. ASSUME NEW t \in Threads, ThreadStep(t) PROVE Tokens'
  BY <1>2, TakeStep, DequeueStep, NotifyStep, ResultStep, RunTaskStep, AcceptStep, PostStep
     DEF ThreadStep, EventLoopAssumption
<1> QED
  BY <1>1, <1>2, RequestStep, CompletesStep, ConnectsStep, TaskStep, MainStep, ThrowsStep DEF Next

----------------------------------------------------------------------------
(* What the tokens say of the properties.                                  *)
LEMMA HasFacts ==
  ASSUME NEW x, NEW p
  PROVE  /\ p \in Set(x) <=> Has(x, p)
         /\ ~Has(x, p) => Cardinality(Positions(x, p)) = 0
         /\ Has(x, p) /\ Once(x, p) => Cardinality(Positions(x, p)) = 1
<1>1. p \in Set(x) <=> Has(x, p)
  BY DEF Set, Has
<1>2. ASSUME ~Has(x, p) PROVE Cardinality(Positions(x, p)) = 0
  <2>1. Positions(x, p) = {}
    BY <1>2 DEF Positions, Has
  <2> QED
    BY <2>1, FS_EmptySet
<1>3. ASSUME Has(x, p), Once(x, p) PROVE Cardinality(Positions(x, p)) = 1
  <2>1. PICK i \in DOMAIN x : x[i] = p
    BY <1>3 DEF Has
  <2>2. Positions(x, p) = {i}
    BY <1>3, <2>1 DEF Positions, Once
  <2> QED
    BY <2>2, FS_Singleton
<1> QED
  BY <1>1, <1>2, <1>3

LEMMA TokensNotify == Tokens => OneNotification
<1> SUFFICES ASSUME Tokens PROVE OneNotification
  OBVIOUS
<1>1. \A t \in Threads : t \in NotifiedThreads <=> Notified(t)
  <2> SUFFICES ASSUME NEW t \in Threads PROVE t \in NotifiedThreads <=> Notified(t)
    OBVIOUS
  <2>1. CASE At(t) = "results"
    <3>1. Head(Batch(t)) = "rio" /\ Once(Batch(t), "rio")
      BY <2>1 DEF Tokens, Shape, NotificationIsOne
    <3>2. ~Has(Tail(Batch(t)), "rio")
      BY <2>1, <3>1, HeadFacts
    <3> QED
      BY <2>1, <3>2, HasFacts DEF NotifiedThreads, Notified, At, Batch
  <2>2. CASE At(t) # "results"
    BY <2>2, HasFacts DEF NotifiedThreads, Notified, At, Batch
  <2> QED
    BY <2>1, <2>2
<1>2. NotifiedThreads \subseteq Threads
  BY DEF NotifiedThreads
<1>3. ASSUME \A t \in Threads : ~Notified(t) PROVE Cardinality(NotifiedThreads) = 0
  <2>1. NotifiedThreads = {}
    BY <1>1, <1>2, <1>3
  <2> QED
    BY <2>1, FS_EmptySet
<1>4. ASSUME NEW t \in Threads, Notified(t) PROVE Cardinality(NotifiedThreads) = 1
  <2>1. NotifiedThreads = {t}
    BY <1>1, <1>2, <1>4 DEF Tokens, NotificationIsOne
  <2> QED
    BY <2>1, FS_Singleton
<1>5. (IF armed THEN 1 ELSE 0) + Cardinality(Positions(iocp, "rio")) + Cardinality(NotifiedThreads) = 1
  <2>1. CASE armed
    BY <1>3, <2>1, HasFacts DEF Tokens, NotificationIsOne
  <2>2. CASE Has(iocp, "rio")
    BY <1>3, <2>2, HasFacts DEF Tokens, NotificationIsOne
  <2>3. CASE \E t \in Threads : Notified(t)
    BY <1>4, <2>3, HasFacts DEF Tokens, NotificationIsOne
  <2> QED
    BY <2>1, <2>2, <2>3 DEF Tokens, NotificationIsOne
<1>6. ASSUME NEW t \in Threads, Runs(t, "rio") PROVE cq # <<>>
  <2>1. At(t) = "run" /\ Head(Batch(t)) = "rio"
    BY <1>6 DEF Runs, At, Batch
  <2>2. Notified(t)
    BY <2>1, HeadFacts DEF Notified
  <2> QED
    BY <2>1, <2>2 DEF Tokens, NotificationFinds
<1> QED
  BY <1>5, <1>6 DEF OneNotification, Tokens, NotificationFinds

LEMMA TokensAccept == Tokens => OneAccept
<1> SUFFICES ASSUME Tokens PROVE OneAccept
  OBVIOUS
<1>1. \A t \in Threads : t \in Accepters <=> Accepts(t)
  BY HasFacts DEF Accepters, Accepts, Batch
<1>2. Accepters \subseteq Threads
  BY DEF Accepters
<1>3. ASSUME \A t \in Threads : ~Accepts(t) PROVE Cardinality(Accepters) = 0
  <2>1. Accepters = {}
    BY <1>1, <1>2, <1>3
  <2> QED
    BY <2>1, FS_EmptySet
<1>4. ASSUME NEW t \in Threads, Accepts(t) PROVE Cardinality(Accepters) = 1
  <2>1. Accepters = {t}
    BY <1>1, <1>2, <1>4 DEF Tokens, AcceptIsOne
  <2> QED
    BY <2>1, FS_Singleton
<1>5. accepting + Cardinality(Positions(iocp, "accept")) + Cardinality(Accepters)
        + (IF main = "post" THEN 1 ELSE 0) <= 1
  <2>1. CASE \E t \in Threads : Accepts(t)
    BY <1>4, <2>1, HasFacts DEF Tokens, AcceptIsOne
  <2>2. CASE \A t \in Threads : ~Accepts(t)
    <3>1. CASE Has(iocp, "accept")
      BY <1>3, <2>2, <3>1, HasFacts DEF Tokens, AcceptIsOne
    <3>2. CASE ~Has(iocp, "accept")
      BY <1>3, <2>2, <3>2, HasFacts DEF Tokens, AcceptIsOne
    <3> QED
      BY <3>1, <3>2
  <2> QED
    BY <2>1, <2>2
<1>6. server = "stop" => accepting = 0 /\ main = "idle" /\ "accept" \notin Set(iocp)
  BY HasFacts DEF Tokens, AcceptIsOne, TypeOK
<1> QED
  BY <1>5, <1>6 DEF OneAccept

(* The state keeps its shape.                                              *)
THEOREM LoopTypes == ASSUME EventLoopAssumption PROVE Spec => []TypeOK
<1>1. Tokens => TypeOK
  BY DEF Tokens
<1>2. Tokens /\ [Next]_vars => Tokens'
  BY NextTokens
<1> QED
  BY InitTokens, <1>1, <1>2, PTL DEF Spec

(* The notification of the RIO queue is in one place, and the thread that  *)
(* has it finds results: no result waits for a notification that never     *)
(* comes, whatever the handlers throw.                                     *)
THEOREM NotificationIsNeverLost == ASSUME EventLoopAssumption PROVE Spec => []OneNotification
<1>1. Tokens /\ [Next]_vars => Tokens'
  BY NextTokens
<1> QED
  BY InitTokens, <1>1, TokensNotify, PTL DEF Spec

(* At most one accept is on its way, and none while the server is stopped. *)
THEOREM AcceptIsPostedOnce == ASSUME EventLoopAssumption PROVE Spec => []OneAccept
<1>1. Tokens /\ [Next]_vars => Tokens'
  BY NextTokens
<1> QED
  BY InitTokens, <1>1, TokensAccept, PTL DEF Spec

=============================================================================
