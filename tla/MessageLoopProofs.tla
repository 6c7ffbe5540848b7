------------------------- MODULE MessageLoopProofs -------------------------
(***************************************************************************)
(* Every handshake the login server has handled has one reply, to the      *)
(* client it is from, for any number of event threads and clients.         *)
(***************************************************************************)
EXTENDS MessageLoop, FiniteSetTheorems, TLAPS

Replies == [to : Clients, about : Clients]
Frames == [copy : Messages, thread : Threads, calls : 1 .. 3]

(* A datagram is in one place: unread, with a thread, or in a coroutine.   *)
Reading(t) == at[t] = "reading"

OnePlace ==
    /\ \A m, n \in sent : m.from = n.from => m = n
    /\ \A t \in Threads : ~Reading(t) => request[t] \in sent \ inbox
    /\ \A t, u \in Threads : ~Reading(t) /\ ~Reading(u) /\ request[t] = request[u] => t = u
    /\ \A f \in frames : f.copy \in sent \ inbox /\ f.copy.kind \in Coroutines
    /\ \A f \in frames : \A t \in Threads : ~Reading(t) => request[t] # f.copy
    /\ \A f, g \in frames : f.copy = g.copy => f = g

(* The login server has answered the handshakes that are in no place any   *)
(* more, and those once.                                                   *)
Answered(c) == \E i \in DOMAIN replies : replies[i].about = c

Answers ==
    /\ \A i \in DOMAIN replies : \E m \in sent : m.from = replies[i].about /\ Handled(m)
    /\ \A i, j \in DOMAIN replies : replies[i].about = replies[j].about => i = j
    /\ \A m \in sent : m.kind = "packet_handshake" /\ Handled(m) => Answered(m.from)

Conversation ==
    /\ TypeOK /\ OnePlace
    /\ \A i \in DOMAIN replies : replies[i].to = replies[i].about
    /\ role = "login" => Answers

(* The coroutines and what the login server is connected to.               *)
LEMMA CallFacts ==
  /\ Coroutines = {"handshake_response", "packet_handshake", "player_logout", "chat_message"}
  /\ \A k \in Coroutines : Len(Calls[k]) \in 1 .. 3
  /\ Calls["packet_handshake"][1] = "player_login" /\ Len(Calls["packet_handshake"]) = 3
  /\ "player_login" \in Connected("login")
  /\ "packet_handshake" \in Handles["login"] /\ "fetch_server_address" \notin Handles["login"]
  BY DEF Coroutines, Calls, Connected, Handles

(* A server starts with datagrams and nothing else.                        *)
LEMMA InitConversation == Init => Conversation
<1> SUFFICES ASSUME Init PROVE Conversation
  OBVIOUS
<1>1. PICK kinds \in [Clients -> Kinds] :
        sent = {[kind |-> kinds[c], from |-> c] : c \in Clients}
  BY DEF Init
<1>2. sent \in SUBSET Messages
  BY <1>1 DEF Messages
<1>3. \A m, n \in sent : m.from = n.from => m = n
  BY <1>1
<1>4. TypeOK
  BY <1>2 DEF Init, TypeOK
<1>5. OnePlace
  BY <1>3 DEF Init, OnePlace, Reading
<1>6. Answers
  BY DEF Init, Answers, Handled
<1> QED
  BY <1>4, <1>5, <1>6 DEF Init, Conversation

(* Reading a datagram.                                                     *)
LEMMA ReadStep ==
  ASSUME Conversation, NEW t \in Threads, ReadMessage(t)
  PROVE  Conversation'
<1> USE DEF Conversation
<1>1. PICK m \in inbox : /\ request' = [request EXCEPT ![t] = m]
                         /\ inbox' = inbox \ {m}
                         /\ at' = [at EXCEPT ![t] = "common"] /\ Reading(t)
                         /\ UNCHANGED <<role, sent, frames, replies, registered, logged, loggedOut>>
  BY DEF ReadMessage, Reading
<1>2. m \in sent /\ m \in Messages
  BY <1>1 DEF TypeOK
<1>3. \A u \in Threads : u # t => request'[u] = request[u] /\ at'[u] = at[u]
  BY <1>1 DEF TypeOK
<1>4. request'[t] = m /\ at'[t] = "common"
  BY <1>1 DEF TypeOK
<1>5. TypeOK'
  BY <1>1, <1>2 DEF TypeOK
<1>6. OnePlace'
  <2>1. \A u \in Threads : u # t => (Reading(u)' <=> Reading(u))
    BY <1>3 DEF Reading
  <2>2. \A u \in Threads : ~Reading(u) => request[u] # m
    BY <1>1 DEF OnePlace
  <2>3. \A f \in frames : f.copy # m
    BY <1>1 DEF OnePlace
  <2> QED
    BY <1>1, <1>2, <1>3, <1>4, <2>1, <2>2, <2>3 DEF OnePlace
<1>7. \A n \in sent : Handled(n) <=> Handled(n)'
  <2> SUFFICES ASSUME NEW n \in sent PROVE Handled(n) <=> Handled(n)'
    OBVIOUS
  <2>1. CASE n = m
    BY <1>1, <1>4, <2>1 DEF Handled
  <2>2. CASE n # m
    BY <1>1, <1>3, <1>4, <2>2 DEF Handled, Reading
  <2> QED
    BY <2>1, <2>2
<1>8. role = "login" => Answers'
  BY <1>1, <1>7 DEF Answers, Answered
<1> QED
  BY <1>1, <1>5, <1>6, <1>8

(* The common handlers.                                                    *)
LEMMA CommonStep ==
  ASSUME Conversation, NEW t \in Threads, HandleCommonMessage(t)
  PROVE  Conversation'
<1> USE DEF Conversation
<1>1. /\ at[t] = "common" /\ at' = [at EXCEPT ![t] = "app"]
      /\ UNCHANGED <<role, inbox, sent, request, frames, replies, logged, loggedOut>>
  BY DEF HandleCommonMessage
<1>2. request[t] \in sent /\ request[t].from \in Clients
  BY <1>1 DEF OnePlace, Reading, TypeOK, Messages
<1>3. registered' \in SUBSET Clients
  BY <1>2 DEF HandleCommonMessage, TypeOK
<1>4. TypeOK'
  BY <1>1, <1>3 DEF TypeOK
<1>5. \A u \in Threads : Reading(u)' <=> Reading(u)
  BY <1>1 DEF Reading, TypeOK
<1>6. OnePlace'
  BY <1>1, <1>5 DEF OnePlace
<1>7. \A n : Handled(n) <=> Handled(n)'
  BY <1>1, <1>5 DEF Handled, Reading
<1>8. role = "login" => Answers'
  BY <1>1, <1>7 DEF Answers, Answered
<1> QED
  BY <1>1, <1>4, <1>6, <1>8

(* A reply added at the end, to the client it is about.                    *)
LEMMA AppendFacts ==
  ASSUME NEW q \in Seq(Replies), NEW c \in Clients
  PROVE  LET p == Append(q, [to |-> c, about |-> c])
         IN  /\ p \in Seq(Replies) /\ Len(p) = Len(q) + 1
             /\ DOMAIN p = DOMAIN q \cup {Len(q) + 1} /\ Len(q) + 1 \notin DOMAIN q
             /\ \A i \in DOMAIN q : p[i] = q[i]
             /\ p[Len(q) + 1] = [to |-> c, about |-> c]
  BY DEF Replies

(* A server's own handlers.                                                *)
LEMMA HandleStep ==
  ASSUME Conversation, NEW t \in Threads, HandleMessage(t)
  PROVE  Conversation'
<1> USE DEF Conversation
<1>0. PICK m : m = request[t]
  OBVIOUS
<1>1. PICK f : f = [copy |-> m, thread |-> t, calls |-> 1]
  OBVIOUS
<1>2. /\ ~Reading(t) /\ at' = [at EXCEPT ![t] = "reading"]
      /\ UNCHANGED <<role, inbox, sent, request, registered, logged, loggedOut>>
  BY DEF HandleMessage, Reading
<1>3. m \in sent \ inbox /\ m \in Messages /\ m.from \in Clients /\ m.kind \in Kinds
  BY <1>0, <1>2 DEF OnePlace, TypeOK, Messages
<1>4. f \in Frames /\ f.copy = m
  BY <1>1, <1>3 DEF Frames
<1>5. /\ at' \in [Threads -> {"reading", "common", "app"}]
      /\ \A u \in Threads : ~Reading(u)' <=> u # t /\ ~Reading(u)
  BY <1>2 DEF Reading, TypeOK
<1>6. /\ \A u \in Threads : u # t /\ ~Reading(u) => request[u] # m
      /\ \A g \in frames : g.copy # m
  BY <1>0, <1>2 DEF OnePlace
<1>7. CASE frames' = frames \cup {f} /\ replies' = replies /\ m.kind \in Coroutines
  <2>1. TypeOK'
    BY <1>2, <1>4, <1>5, <1>7 DEF TypeOK, Frames
  <2>2. OnePlace'
    BY <1>2, <1>3, <1>4, <1>5, <1>6, <1>7 DEF OnePlace
  <2>3. \A n \in sent : Handled(n) <=> Handled(n)'
    BY <1>0, <1>2, <1>3, <1>4, <1>5, <1>7 DEF Handled, Reading
  <2>4. role = "login" => Answers'
    BY <1>2, <1>7, <2>3 DEF Answers, Answered
  <2> QED
    BY <1>2, <1>7, <2>1, <2>2, <2>4
<1>8. CASE frames' = frames /\ (role = "login" => replies' = replies /\ m.kind # "packet_handshake")
             /\ (replies' = replies \/ replies' = Append(replies, [to |-> m.from, about |-> m.from]))
  <2>1. /\ replies' \in Seq(Replies)
        /\ \A i \in DOMAIN replies' : replies'[i].to = replies'[i].about
    <3>1. replies \in Seq(Replies) /\ \A i \in DOMAIN replies : replies[i].to = replies[i].about
      BY DEF TypeOK, Replies
    <3>2. CASE replies' = replies
      BY <3>1, <3>2
    <3>3. CASE replies' = Append(replies, [to |-> m.from, about |-> m.from])
      BY <1>3, <3>1, <3>3, AppendFacts
    <3> QED
      BY <1>8, <3>2, <3>3
  <2>2. TypeOK'
    BY <1>2, <1>5, <1>8, <2>1 DEF TypeOK, Replies
  <2>3. OnePlace'
    BY <1>2, <1>5, <1>8 DEF OnePlace
  <2>4. \A n \in sent : n # m => (Handled(n) <=> Handled(n)')
    BY <1>0, <1>2, <1>5, <1>8 DEF Handled, Reading
  <2>5. ~Handled(m)
    BY <1>0, <1>2 DEF Handled, Reading
  <2>6. role = "login" => Answers'
    BY <1>2, <1>8, <2>4, <2>5 DEF Answers, Answered
  <2> QED
    BY <1>2, <2>1, <2>2, <2>3, <2>6
<1>9. /\ role = "login" /\ m.kind = "packet_handshake" => m.kind \in Coroutines /\ Suspends(f)
      /\ role = "login" => m.kind # "fetch_server_address" \/ m.kind \notin Handles[role]
  BY <1>1, CallFacts DEF Suspends
<1>10. IF m.kind \notin Handles[role] THEN UNCHANGED <<frames, replies>>
       ELSE IF m.kind \in Coroutines /\ Suspends(f)
            THEN frames' = frames \cup {f} /\ UNCHANGED replies
       ELSE /\ frames' = frames
            /\ replies' = IF m.kind = "fetch_server_address" /\ registered # {}
                          THEN Append(replies, [to |-> m.from, about |-> m.from])
                          ELSE replies
  BY <1>0, <1>1 DEF HandleMessage
<1> QED
  BY <1>7, <1>8, <1>9, <1>10, CallFacts

(* A coroutine goes on or ends.                                            *)
LEMMA ResumeStep ==
  ASSUME Conversation, NEW f \in frames, Resume(f)
  PROVE  Conversation'
<1> USE DEF Conversation
<1>1. PICK next : next = [f EXCEPT !.calls = @ + 1]
  OBVIOUS
<1>2. UNCHANGED <<role, inbox, sent, at, request, registered>>
  BY DEF Resume
<1>3. /\ f \in Frames /\ f.copy \in sent \ inbox /\ f.copy.kind \in Coroutines
      /\ f.copy \in Messages /\ f.copy.from \in Clients
      /\ \A t \in Threads : ~Reading(t) => request[t] # f.copy
      /\ \A g \in frames : g.copy = f.copy => g = f
  BY DEF TypeOK, OnePlace, Frames, Messages
<1>4. logged' \in SUBSET Clients /\ loggedOut' \in SUBSET Clients
  BY <1>3 DEF Resume, TypeOK
<1>5. \A t \in Threads : Reading(t)' <=> Reading(t)
  BY <1>2 DEF Reading
<1>6. CASE Suspends(next) /\ frames' = (frames \ {f}) \cup {next} /\ replies' = replies
  <2>1. next.copy = f.copy /\ next.thread = f.thread /\ next.calls = f.calls + 1
    BY <1>1, <1>3 DEF Frames
  <2>2. next \in Frames
    <3>1. next = [copy |-> f.copy, thread |-> f.thread, calls |-> f.calls + 1]
      BY <1>1, <1>3 DEF Frames
    <3>2. f.copy \in Messages /\ f.thread \in Threads /\ f.calls \in 1 .. 3
      BY <1>3 DEF Frames
    <3>3. next.calls <= Len(Calls[f.copy.kind])
      BY <1>6, <2>1 DEF Suspends
    <3>4. f.calls + 1 \in 1 .. 3
      <4>1. PICK n \in 1 .. 3 : n = Len(Calls[f.copy.kind])
        BY <1>3, CallFacts, Zenon
      <4>2. f.calls + 1 <= n
        BY <2>1, <3>3, <4>1
      <4> QED
        BY <3>2, <4>2
    <3> QED
      BY <3>1, <3>2, <3>4 DEF Frames
  <2>3. TypeOK'
    BY <1>2, <1>4, <1>6, <2>2 DEF TypeOK, Frames
  <2>4. OnePlace'
    BY <1>2, <1>3, <1>5, <1>6, <2>1 DEF OnePlace
  <2>5. \A n \in sent : Handled(n) <=> Handled(n)'
    BY <1>2, <1>6, <2>1 DEF Handled
  <2>6. role = "login" => Answers'
    BY <1>2, <1>6, <2>5 DEF Answers, Answered
  <2> QED
    BY <1>2, <1>6, <2>3, <2>4, <2>6
<1>7. CASE frames' = frames \ {f} /\ Reply(f)
  <2> DEFINE c == f.copy.from
             k == Len(replies) + 1
  <2>1. \/ /\ f.copy.kind = "packet_handshake"
           /\ replies' = Append(replies, [to |-> c, about |-> c])
        \/ f.copy.kind # "packet_handshake" /\ replies' = replies
    BY <1>7 DEF Reply, ReplyTo
  <2>2. /\ replies' \in Seq(Replies)
        /\ \A i \in DOMAIN replies' : replies'[i].to = replies'[i].about
    <3>1. replies \in Seq(Replies) /\ \A i \in DOMAIN replies : replies[i].to = replies[i].about
      BY DEF TypeOK, Replies
    <3>2. CASE replies' = replies
      BY <3>1, <3>2
    <3>3. CASE replies' = Append(replies, [to |-> c, about |-> c])
      BY <1>3, <3>1, <3>3, AppendFacts
    <3> QED
      BY <2>1, <3>2, <3>3
  <2>3. TypeOK'
    BY <1>2, <1>4, <1>7, <2>2 DEF TypeOK, Replies
  <2>4. OnePlace'
    BY <1>2, <1>5, <1>7 DEF OnePlace
  <2>5. /\ \A n \in sent : n # f.copy => (Handled(n) <=> Handled(n)')
        /\ ~Handled(f.copy) /\ Handled(f.copy)'
    BY <1>2, <1>3, <1>7 DEF Handled, Reading
  <2>6. ASSUME role = "login" PROVE Answers'
    <3>1. Answers
      BY <2>6
    <3>2. CASE f.copy.kind # "packet_handshake" /\ replies' = replies
      BY <1>2, <2>5, <3>1, <3>2 DEF Answers, Answered
    <3>3. CASE f.copy.kind = "packet_handshake" /\ replies' = Append(replies, [to |-> c, about |-> c])
      <4>1. /\ DOMAIN replies' = DOMAIN replies \cup {k} /\ k \notin DOMAIN replies
            /\ \A i \in DOMAIN replies : replies'[i] = replies[i]
            /\ replies'[k].about = c
        BY <1>3, <3>3, AppendFacts DEF TypeOK, Replies
      <4>2. \A i \in DOMAIN replies : replies[i].about # c
        BY <1>3, <2>5, <3>1 DEF Answers, OnePlace
      <4>3. \A i \in DOMAIN replies' : \E m \in sent' : m.from = replies'[i].about /\ Handled(m)'
        BY <1>2, <1>3, <2>5, <3>1, <4>1 DEF Answers
      <4>4. \A i, j \in DOMAIN replies' : replies'[i].about = replies'[j].about => i = j
        BY <3>1, <4>1, <4>2 DEF Answers
      <4>5. \A m \in sent' : m.kind = "packet_handshake" /\ Handled(m)' =>
              \E i \in DOMAIN replies' : replies'[i].about = m.from
        <5> SUFFICES ASSUME NEW m \in sent, m.kind = "packet_handshake", Handled(m)'
                     PROVE  \E i \in DOMAIN replies' : replies'[i].about = m.from
          BY <1>2
        <5>1. CASE m = f.copy
          BY <4>1, <5>1
        <5>2. CASE m # f.copy
          BY <2>5, <3>1, <4>1, <5>2 DEF Answers, Answered
        <5> QED
          BY <5>1, <5>2
      <4> QED
        BY <4>3, <4>4, <4>5 DEF Answers, Answered
    <3> QED
      BY <2>1, <3>2, <3>3
  <2> QED
    BY <1>2, <2>2, <2>3, <2>4, <2>6
<1> QED
  BY <1>1, <1>6, <1>7 DEF Resume

(* Every step keeps the conversation.                                      *)
LEMMA NextConversation == Conversation /\ [Next]_vars => Conversation'
<1> SUFFICES ASSUME Conversation, [Next]_vars PROVE Conversation'
  OBVIOUS
<1>1. CASE UNCHANGED vars
  BY <1>1 DEF vars, Conversation, TypeOK, OnePlace, Reading, Answers, Answered, Handled
<1> QED
  BY <1>1, ReadStep, CommonStep, HandleStep, ResumeStep DEF Next

(* The state keeps its shape.                                              *)
THEOREM MessageTypes == Spec => []TypeOK
<1>1. Conversation => TypeOK
  BY DEF Conversation
<1> QED
  BY InitConversation, NextConversation, <1>1, PTL DEF Spec

(* What was handled was answered once: the reply is the only one about it. *)
LEMMA ConversationAnswers == Conversation => AnsweredOnce
<1> SUFFICES ASSUME Conversation, NEW m \in sent, role = "login",
                    m.kind = "packet_handshake", Handled(m)
             PROVE  Cardinality({i \in DOMAIN replies : replies[i].about = m.from}) = 1
  BY DEF Conversation, AnsweredOnce
<1>1. PICK k \in DOMAIN replies : replies[k].about = m.from
  BY DEF Conversation, Answers, Answered
<1>2. {i \in DOMAIN replies : replies[i].about = m.from} = {k}
  BY <1>1 DEF Conversation, Answers
<1> QED
  BY <1>2, FS_Singleton

(* Replies go to the client whose message they answer, and every handshake *)
(* the login server has handled has exactly one.                           *)
THEOREM HandshakesAreAnsweredOnce == Spec => []AnsweredOnce
  BY InitConversation, NextConversation, ConversationAnswers, PTL DEF Spec

=============================================================================
