--------------------------- MODULE ServersProofs ---------------------------
(***************************************************************************)
(* What the game server learns from the router, for every list of servers, *)
(* and any number of lost, repeated and late datagrams and of restarts;    *)
(* the theorems about the parts that MCServers runs beside it, carried     *)
(* over to its specification; the load generator's bot, for any bytes and  *)
(* any cuts; the commands of the chat server, for texts of any length; and *)
(* the packets, in any base and for a level of any length.                 *)
(***************************************************************************)
EXTENDS MCServers, SequenceTheorems, WellFoundedInduction, TLAPS

Addresses == Servers \X (0 .. MaxChanges + 1)

(* How many fetches a server makes before it is up.                        *)
Count(s) == Len(Fetches(s))

(* The types, with the versions that exist.                                *)
Process == [done : Nat, life : Nat, asked : BOOLEAN, address : 0 .. MaxChanges + 1]

Types ==
    /\ changes \in 0 .. MaxChanges
    /\ file \in [Servers -> Nat]
    /\ \A s \in Servers : file[s] >= 1 /\ file[s] <= changes + 1
    /\ server \in [Servers -> Process]
    /\ \A s \in Servers : server[s].life <= changes
    /\ \A s \in Servers : server[s].done <= Count(s)
    /\ announced \subseteq Addresses
    /\ table \in [Servers -> Addresses]
    /\ known \in [OtherServers -> Addresses]

(* What the router says of a server.                                       *)
Trusted(s, address) == address[1] = s /\ address \in announced

(* A datagram for a socket that is open: a request says what its server    *)
(* wants, a reply is about that.                                           *)
Request(m, s) ==
    /\ s \in Servers /\ m.socket = Socket(s) /\ m.socket[1] = s /\ ~Up(s)
    /\ m.of = Wanted(s) /\ m.type = Kind(s)

Answer(m, s) ==
    /\ s \in Servers /\ m.type = "reply" /\ m.socket = Socket(s) /\ m.socket[1] = s
    /\ ~Up(s) /\ m.address \in Addresses
    /\ Kind(s) = "address" => Trusted(Wanted(s), m.address)

Datagram(m) ==
    \/ m.type = "announce" /\ m.address \in announced
    \/ \E s \in Servers : Request(m, s) \/ Answer(m, s)

(* The tables hold what was announced; the game server knows the servers   *)
(* whose addresses it has fetched.                                         *)
Learned ==
    /\ \A s \in Servers : table[s] = Unknown(s) \/ Trusted(s, table[s])
    /\ \A s \in OtherServers : known[s] = Unknown(s) \/ Trusted(s, known[s])
    /\ \A i \in 1 .. Len(Others) :
         i < server[Game].done => Trusted(Others[i], known[Others[i]])

Directory == Types /\ (\A m \in net : Datagram(m)) /\ Learned

(* What the servers fetch.                                                 *)
LEMMA FetchFacts ==
  ASSUME DirectoryAssumption
  PROVE  /\ Count(Game) = Len(Others) + 1
         /\ \A s \in Servers : s # Game => Count(s) = 1
         /\ \A s \in Servers : Fetches(s)[1] = s
         /\ \A i \in 1 .. Len(Others) : Fetches(Game)[i + 1] = Others[i]
         /\ Len(Others) \in Nat /\ DOMAIN Others = 1 .. Len(Others)
         /\ \A i \in 1 .. Len(Others) : Others[i] \in OtherServers
         /\ OtherServers \subseteq Servers /\ Game \in Servers /\ Game \notin OtherServers
         /\ \A s \in OtherServers : \E i \in 1 .. Len(Others) : s = Others[i]
         /\ MaxChanges \in Nat
<1>1. Others \in Seq(Servers)
  BY DEF DirectoryAssumption
<1>2. /\ Len(Others) \in Nat /\ DOMAIN Others = 1 .. Len(Others)
      /\ \A i \in 1 .. Len(Others) : Others[i] \in OtherServers
      /\ OtherServers \subseteq Servers /\ Game \in Servers
  BY <1>1 DEF OtherServers, Servers
<1>3. \A s \in OtherServers : \E i \in 1 .. Len(Others) : s = Others[i]
  BY <1>2 DEF OtherServers
<1>4. Game \notin OtherServers /\ MaxChanges \in Nat
  BY DEF DirectoryAssumption
<1>5. /\ Len(Fetches(Game)) = Len(Others) + 1 /\ Fetches(Game)[1] = Game
      /\ \A i \in 1 .. Len(Others) : Fetches(Game)[i + 1] = Others[i]
  BY <1>1, <1>2 DEF Fetches
<1>6. \A s \in Servers : s # Game => Len(Fetches(s)) = 1 /\ Fetches(s)[1] = s
  BY DEF Fetches
<1> QED
  BY <1>2, <1>3, <1>4, <1>5, <1>6 DEF Count

(* The states of a server that its fetches lead to.                        *)
LEMMA ProcessSteps ==
  ASSUME DirectoryAssumption
  PROVE  /\ \A p \in Process : /\ [p EXCEPT !.asked = TRUE] \in Process
                              /\ p.done \in Nat /\ p.life \in Nat
         /\ \A p \in Process, n \in Nat : [p EXCEPT !.done = n, !.asked = FALSE] \in Process
         /\ \A p \in Process, n \in Nat, a \in 0 .. MaxChanges + 1 :
              [p EXCEPT !.done = n, !.asked = FALSE, !.address = a] \in Process
         /\ \A n \in Nat : [Started EXCEPT !.life = n] \in Process
         /\ Started \in Process
<1>1. 0 \in Nat /\ 0 \in 0 .. MaxChanges + 1
  BY FetchFacts
<1>2. \A p \in Process : [p EXCEPT !.asked = TRUE] \in Process
  BY Zenon DEF Process
<1>3. \A p \in Process, n \in Nat : [p EXCEPT !.done = n, !.asked = FALSE] \in Process
  BY Zenon DEF Process
<1>4. \A p \in Process, n \in Nat, a \in 0 .. MaxChanges + 1 :
        [p EXCEPT !.done = n, !.asked = FALSE, !.address = a] \in Process
  BY Zenon DEF Process
<1>5. \A n \in Nat : [Started EXCEPT !.life = n] \in Process
  BY <1>1, Zenon DEF Process, Started
<1>6. \A p \in Process : p.done \in Nat /\ p.life \in Nat
  BY DEF Process
<1>7. Started \in Process
  BY <1>1, Zenon DEF Process, Started
<1> QED
  BY <1>2, <1>3, <1>4, <1>5, <1>6, <1>7

(* A server makes a number of fetches.                                     *)
LEMMA CountIsNatural ==
  ASSUME DirectoryAssumption, NEW s \in Servers PROVE Count(s) \in Nat
<1>1. CASE s = Game
  BY <1>1, FetchFacts
<1>2. CASE s # Game
  BY <1>2, FetchFacts
<1> QED
  BY <1>1, <1>2

(* The types after a step of one server.                                   *)
LEMMA StepTypes ==
  ASSUME Types, NEW s \in Servers, server' \in [Servers -> Process],
         \A t \in Servers : t # s => server'[t] = server[t],
         server'[s].done <= Count(s), server'[s].life <= changes',
         changes' \in 0 .. MaxChanges, changes <= changes',
         file' \in [Servers -> Nat],
         \A t \in Servers : file'[t] >= 1 /\ file'[t] <= changes' + 1,
         announced' \subseteq Addresses, table' \in [Servers -> Addresses],
         known' \in [OtherServers -> Addresses]
  PROVE  Types'
<1> SUFFICES ASSUME NEW t \in Servers
             PROVE  server'[t].done <= Count(t) /\ server'[t].life <= changes'
  BY DEF Types
<1>1. CASE t = s
  BY <1>1
<1>2. CASE t # s
  <2>1. server[t].life <= changes /\ server[t].life \in Nat /\ changes \in Nat /\ changes' \in Nat
    BY DEF Types, Process
  <2> QED
    BY <1>2, <2>1 DEF Types
<1> QED
  BY <1>1, <1>2

(* What a server that is not up wants.                                     *)
LEMMA WantedFacts ==
  ASSUME DirectoryAssumption, Types, NEW s \in Servers, ~Up(s)
  PROVE  /\ server[s].done \in Nat /\ server[s].done < Count(s)
         /\ Wanted(s) \in Servers
         /\ Kind(s) = "config" <=> server[s].done = 0
         /\ Kind(s) = "address" => /\ s = Game /\ server[s].done \in 1 .. Len(Others)
                                   /\ Wanted(s) = Others[server[s].done]
                                   /\ Wanted(s) \in OtherServers
         /\ Kind(s) \in {"config", "address"}
<1>1. server[s].done \in Nat /\ server[s].done < Count(s)
  BY FetchFacts DEF Types, Process, Up, Count
<1>2. CASE server[s].done = 0
  BY <1>1, <1>2, FetchFacts DEF Wanted, Kind
<1>3. CASE server[s].done # 0
  <2>1. s = Game
    <3>1. s # Game => Count(s) = 1
      BY FetchFacts
    <3> QED
      BY <1>1, <1>3, <3>1
  <2>2. server[s].done \in 1 .. Len(Others)
    BY <1>1, <1>3, <2>1, FetchFacts
  <2>3. Wanted(s) = Others[server[s].done]
    BY <2>1, <2>2, FetchFacts DEF Wanted
  <2> QED
    BY <1>1, <1>3, <2>1, <2>2, <2>3, FetchFacts DEF Kind
<1> QED
  BY <1>1, <1>2, <1>3

(* The servers start with nothing.                                         *)
LEMMA InitDirectory == DirectoryAssumption /\ Init => Directory
<1> SUFFICES ASSUME DirectoryAssumption, Init PROVE Directory
  OBVIOUS
<1>1. Types
  <2>1. /\ file \in [Servers -> Nat]
        /\ \A s \in Servers : file[s] >= 1 /\ file[s] <= changes + 1
        /\ changes \in 0 .. MaxChanges /\ announced \subseteq Addresses
    BY FetchFacts DEF Init
  <2>2. server \in [Servers -> Process]
    BY ProcessSteps DEF Init
  <2>3. \A s \in Servers : server[s].done = 0 /\ server[s].life = 0
    BY DEF Init, Started
  <2>4. \A s \in Servers : 0 <= Count(s)
    BY CountIsNatural
  <2>5. \A s \in Servers : Unknown(s) \in Addresses
    BY FetchFacts DEF Unknown, Addresses
  <2>6. table \in [Servers -> Addresses] /\ known \in [OtherServers -> Addresses]
    BY <2>5, FetchFacts DEF Init
  <2>7. changes = 0
    BY DEF Init
  <2> QED
    BY <2>1, <2>2, <2>3, <2>4, <2>6, <2>7 DEF Types
<1>2. Learned
  BY FetchFacts DEF Init, Learned, Started
<1> QED
  BY <1>1, <1>2 DEF Directory, Init

(* A step that leaves the servers alone and forgets no announcement keeps  *)
(* the meaning of a datagram.                                              *)
LEMMA DatagramStays ==
  ASSUME NEW m, Datagram(m), server' = server, announced \subseteq announced'
  PROVE  Datagram(m)'
  BY DEF Datagram, Request, Answer, Trusted, Socket, Up, Wanted, Kind

(* A datagram for a socket that stays open keeps its meaning when another  *)
(* server's state changes.                                                 *)
LEMMA ReachableStays ==
  ASSUME Types, Types', NEW t \in Servers, announced' = announced,
         \A s \in Servers : s # t => server'[s] = server[s],
         Socket(t)' # Socket(t),
         NEW m \in net, Datagram(m), m.type = "announce" \/ m.socket = Socket(m.socket[1])'
  PROVE  Datagram(m)'
<1>1. CASE m.type = "announce" /\ m.address \in announced
  BY <1>1 DEF Datagram
<1>2. ASSUME NEW s \in Servers, Request(m, s) \/ Answer(m, s)
      PROVE  Datagram(m)'
  <2>1. m.socket = Socket(s) /\ m.socket[1] = s
    BY <1>2 DEF Request, Answer
  <2>2. m.type # "announce"
    BY <1>2 DEF Request, Answer, Kind
  <2>3. s # t
    BY <2>1, <2>2
  <2>4. server'[s] = server[s]
    BY <2>3
  <2> QED
    BY <1>2, <2>4 DEF Datagram, Request, Answer, Trusted, Socket, Up, Wanted, Kind
<1> QED
  BY <1>1, <1>2 DEF Datagram

(* Every step keeps the directory trustworthy.                             *)
LEMMA NextDirectory ==
  ASSUME DirectoryAssumption, Directory, [Next]_directoryVars
  PROVE  Directory'
<1>0. Types /\ (\A m \in net : Datagram(m)) /\ Learned
  BY DEF Directory
<1>1. ASSUME NEW s \in Servers, Ask(s) PROVE Directory'
  <2>1. PICK r : r = [type |-> Kind(s), of |-> Wanted(s), socket |-> Socket(s)]
    OBVIOUS
  <2>2. /\ server' = [server EXCEPT ![s].asked = TRUE]
        /\ server[s] \in Process
        /\ UNCHANGED <<file, table, known, announced, changes>>
    BY <1>0, <1>1 DEF Ask, Types
  <2>3. /\ server' \in [Servers -> Process]
        /\ \A t \in Servers : /\ server'[t].done = server[t].done
                               /\ server'[t].life = server[t].life
    <3>1. server' = [server EXCEPT ![s] = [server[s] EXCEPT !.asked = TRUE]]
      BY <2>2
    <3>2. [server[s] EXCEPT !.asked = TRUE] \in Process
      BY <2>2, ProcessSteps, Zenon
    <3> QED
      BY <1>0, <2>2, <3>1, <3>2 DEF Types
  <2>4. Types' /\ Learned'
    BY <1>0, <2>2, <2>3 DEF Types, Learned, Trusted, Unknown
  <2>5. /\ Up(s)' = Up(s) /\ \A t \in Servers : Socket(t)' = Socket(t) /\ Up(t)' = Up(t)
                               /\ Wanted(t)' = Wanted(t) /\ Kind(t)' = Kind(t)
    BY <1>0, <1>1 DEF Ask, Up, Socket, Wanted, Kind, Types
  <2>6. \A m : Datagram(m) => Datagram(m)'
    BY <1>1, <2>5 DEF Ask, Datagram, Request, Answer, Trusted
  <2>7. Request(r, s)'
    BY <1>1, <2>1, <2>5 DEF Request, Ask, Socket
  <2>8. Datagram(r)'
    BY <2>7 DEF Datagram
  <2>9. net' = net \cup {r}
    BY <1>1, <2>1 DEF Ask
  <2> QED
    <3>1. \A m \in net' : Datagram(m)'
      BY <1>0, <2>6, <2>8, <2>9
    <3> QED
      BY <2>4, <3>1 DEF Directory
<1>2. ASSUME NEW s \in Servers, ReadReply(s) PROVE Directory'
  <2>1. PICK m \in net :
          /\ ~Up(s) /\ m.type = "reply" /\ m.socket = Socket(s)
          /\ IF Kind(s) = "config"
             THEN /\ server' = [server EXCEPT ![s].done = @ + 1, ![s].asked = FALSE,
                                              ![s].address = m.address[2]]
                  /\ known' = known
             ELSE /\ server' = [server EXCEPT ![s].done = @ + 1, ![s].asked = FALSE]
                  /\ known' = [known EXCEPT ![Wanted(s)] = m.address]
          /\ net' = Reachable(net \ {m})
          /\ UNCHANGED <<file, table, announced, changes>>
    BY <1>2 DEF ReadReply
  <2>2. PICK t \in Servers : Answer(m, t)
    BY <1>0, <2>1 DEF Datagram, Request, Kind
  <2>3. t = s
    BY <2>1, <2>2 DEF Answer, Socket
  <2>4. m.address \in Addresses /\ (Kind(s) = "address" => Trusted(Wanted(s), m.address))
    BY <2>2, <2>3 DEF Answer
  <2>5. /\ server[s].done \in Nat /\ server[s].done < Count(s)
        /\ Kind(s) = "config" <=> server[s].done = 0
        /\ Kind(s) # "config" => /\ s = Game /\ server[s].done \in 1 .. Len(Others)
                                 /\ Wanted(s) = Others[server[s].done]
                                 /\ Wanted(s) \in OtherServers
                                 /\ Trusted(Wanted(s), m.address)
    BY <1>0, <2>1, <2>4, WantedFacts
  <2>6. /\ server' \in [Servers -> Process]
        /\ server'[s].done = server[s].done + 1 /\ server'[s].life = server[s].life
        /\ \A u \in Servers : u # s => server'[u] = server[u]
    <3>1. server[s] \in Process /\ m.address[2] \in 0 .. MaxChanges + 1
      BY <1>0, <2>4 DEF Types, Addresses
    <3>2. CASE Kind(s) = "config"
      <4> DEFINE p == [server[s] EXCEPT !.done = server[s].done + 1, !.asked = FALSE,
                              !.address = m.address[2]]
      <4>1. server' = [server EXCEPT ![s] = p]
        BY <2>1, <3>2
      <4>2. server \in [Servers -> Process] /\ p \in Process
        <5>1. server[s].done + 1 \in Nat
          BY <2>5
        <5> QED
          BY <1>0, <3>1, <5>1, ProcessSteps, Zenon DEF Types
      <4>3. p.done = server[s].done + 1 /\ p.life = server[s].life
        BY <3>1 DEF Process
      <4> QED
        BY <4>1, <4>2, <4>3
    <3>3. CASE Kind(s) # "config"
      <4> DEFINE p == [server[s] EXCEPT !.done = server[s].done + 1, !.asked = FALSE]
      <4>1. server' = [server EXCEPT ![s] = p]
        BY <2>1, <3>3
      <4>2. server \in [Servers -> Process] /\ p \in Process
        <5>1. server[s].done + 1 \in Nat
          BY <2>5
        <5> QED
          BY <1>0, <3>1, <5>1, ProcessSteps, Zenon DEF Types
      <4>3. p.done = server[s].done + 1 /\ p.life = server[s].life
        BY <3>1 DEF Process
      <4> QED
        BY <4>1, <4>2, <4>3
    <3> QED
      BY <3>2, <3>3
  <2>7. Types'
    <3>1. known' \in [OtherServers -> Addresses]
      BY <1>0, <2>1, <2>4, <2>5 DEF Types
    <3> QED
      <4>1. server[s].life <= changes /\ changes <= changes
        BY <1>0 DEF Types
      <4>2. server[s].done + 1 <= Count(s)
        BY <2>5, CountIsNatural
      <4> QED
        BY <1>0, <2>1, <2>6, <3>1, <4>1, <4>2, StepTypes DEF Types
  <2>8. Learned'
    <3>1. CASE Kind(s) = "config"
      <4>1. known' = known /\ table' = table /\ announced' = announced
        BY <2>1, <3>1
      <4>2. \A i \in 1 .. Len(Others) : ~(i < server'[Game].done) \/ i < server[Game].done
        <5>1. CASE s = Game
          BY <2>5, <2>6, <3>1, <5>1
        <5>2. CASE s # Game
          BY <2>6, <5>2, FetchFacts
        <5> QED
          BY <5>1, <5>2
      <4> QED
        BY <1>0, <4>1, <4>2 DEF Learned, Trusted, Unknown
    <3>2. CASE Kind(s) # "config"
      <4>1. known' = [known EXCEPT ![Wanted(s)] = m.address] /\ Trusted(Wanted(s), m.address)
        BY <2>1, <2>5, <3>2
      <4>2. \A u \in OtherServers :
              known'[u] = IF u = Wanted(s) THEN m.address ELSE known[u]
        BY <1>0, <4>1 DEF Types
      <4>3. \A u \in OtherServers :
              \/ u = Wanted(s) /\ Trusted(u, known'[u])
              \/ u # Wanted(s) /\ known'[u] = known[u]
        BY <4>1, <4>2
      <4>4. \A u \in OtherServers : known'[u] = Unknown(u) \/ Trusted(u, known'[u])
        BY <1>0, <4>3 DEF Learned
      <4>5. \A i \in 1 .. Len(Others) :
              i < server'[Game].done => Trusted(Others[i], known'[Others[i]])
        <5> SUFFICES ASSUME NEW i \in 1 .. Len(Others), i < server[Game].done + 1
                     PROVE  Trusted(Others[i], known'[Others[i]])
          BY <2>5, <2>6, <3>2
        <5>1. CASE i = server[Game].done
          BY <2>5, <3>2, <4>3, <5>1
        <5>2. CASE i < server[Game].done
          BY <1>0, <4>3, <5>2, FetchFacts DEF Learned
        <5> QED
          BY <2>5, <3>2, <5>1, <5>2
      <4>6. announced' = announced /\ table' = table
        BY <2>1
      <4> QED
        BY <1>0, <4>4, <4>5, <4>6 DEF Learned, Trusted, Unknown
    <3> QED
      BY <3>1, <3>2
  <2>9. Socket(s)' # Socket(s)
    BY <2>5, <2>6 DEF Socket
  <2>10. \A d \in net' : Datagram(d)'
    BY <1>0, <2>1, <2>6, <2>7, <2>9, ReachableStays DEF Reachable
  <2> QED
    BY <2>7, <2>8, <2>10 DEF Directory
<1>3. ASSUME NEW s \in Servers, Announce(s) PROVE Directory'
  <2> DEFINE a == <<s, server[s].address>>
  <2>1. /\ announced' = announced \cup {a} /\ net' = net \cup {[type |-> "announce", address |-> a]}
        /\ UNCHANGED <<file, table, server, known, changes>>
    BY <1>3 DEF Announce
  <2>2. a \in Addresses
    BY <1>0 DEF Types, Addresses, Process
  <2>3. Types'
    BY <1>0, <2>1, <2>2 DEF Types
  <2>4. Learned'
    BY <1>0, <2>1 DEF Learned, Trusted, Unknown
  <2>5. \A m \in net' : Datagram(m)'
    <3>1. \A m \in net : Datagram(m)'
      BY <1>0, <2>1, DatagramStays
    <3>2. Datagram([type |-> "announce", address |-> a])'
      BY <2>1 DEF Datagram
    <3> QED
      BY <2>1, <3>1, <3>2
  <2> QED
    BY <2>3, <2>4, <2>5 DEF Directory
<1>4. ASSUME NEW s \in Servers, RouterRegisters(s) PROVE Directory'
  <2>1. PICK m \in net :
          /\ m.type = "announce" /\ m.address[1] = s /\ net' = net \ {m}
          /\ table' = [table EXCEPT ![s] = m.address]
          /\ UNCHANGED <<file, server, known, announced, changes>>
    BY <1>4 DEF RouterRegisters
  <2>2. m.address \in announced
    BY <1>0, <2>1 DEF Datagram, Request, Answer, Kind
  <2>3. Types'
    BY <1>0, <2>1, <2>2 DEF Types
  <2>4. Learned'
    BY <1>0, <2>1, <2>2 DEF Learned, Trusted, Types, Unknown
  <2>5. \A d \in net' : Datagram(d)'
    BY <1>0, <2>1, DatagramStays
  <2> QED
    BY <2>3, <2>4, <2>5 DEF Directory
<1>5. ASSUME NEW s \in Servers, RouterReplies(s) PROVE Directory'
  <2>1. PICK m \in net :
          /\ m.type \in {"config", "address"} /\ m.socket[1] = s
          /\ IF m.type = "config" THEN Reply(m, <<m.of, file[m.of]>>)
             ELSE IF Answers(m.of) THEN Reply(m, table[m.of]) ELSE net' = net \ {m}
          /\ UNCHANGED <<file, table, server, known, announced, changes>>
    BY <1>5 DEF RouterReplies
  <2>2. Request(m, s)
    BY <1>0, <2>1 DEF Datagram, Request, Answer
  <2>3. /\ Wanted(s) \in Servers /\ ~Up(s)
        /\ Kind(s) = "config" <=> m.type = "config"
    BY <1>0, <2>1, <2>2, WantedFacts DEF Request
  <2>4. Types' /\ Learned' /\ \A d \in net : Datagram(d)'
    BY <1>0, <2>1, DatagramStays DEF Types, Learned, Trusted, Unknown
  <2>5. ASSUME NEW a, Reply(m, a), a \in Addresses, m.type = "address" => Trusted(m.of, a)
        PROVE  Directory'
    <3> DEFINE r == [type |-> "reply", socket |-> m.socket, address |-> a]
    <3>1. net' = (net \ {m}) \cup {r}
      BY <2>5 DEF Reply
    <3>2. Answer(r, s)
      BY <2>2, <2>3, <2>5 DEF Answer, Request
    <3>3. Datagram(r)'
      BY <2>1, <3>2, DatagramStays DEF Datagram
    <3> QED
      BY <2>4, <3>1, <3>3 DEF Directory
  <2>6. CASE m.type = "config"
    <3>1. <<m.of, file[m.of]>> \in Addresses
      <4>1. m.of \in Servers /\ file[m.of] \in 0 .. MaxChanges + 1
        <5>1. m.of \in Servers
          BY <2>2, <2>3 DEF Request
        <5>2. file[m.of] \in Nat /\ file[m.of] <= changes + 1 /\ changes \in 0 .. MaxChanges
          BY <1>0, <5>1 DEF Types
        <5> QED
          BY <5>1, <5>2, FetchFacts
      <4> QED
        BY <4>1 DEF Addresses
    <3> QED
      BY <2>1, <2>5, <2>6, <3>1
  <2>7. CASE m.type # "config" /\ Answers(m.of)
    <3>1. table[m.of] \in Addresses /\ Trusted(m.of, table[m.of])
      BY <1>0, <2>2, <2>3, <2>7 DEF Types, Learned, Answers, Request
    <3> QED
      BY <2>1, <2>5, <2>7, <3>1
  <2>8. CASE m.type # "config" /\ ~Answers(m.of)
    BY <2>1, <2>4, <2>8 DEF Directory
  <2> QED
    BY <2>6, <2>7, <2>8
<1>6. CASE Lose
  <2>1. Types' /\ Learned'
    BY <1>0, <1>6 DEF Lose, Types, Learned, Trusted, Unknown
  <2>2. \A d \in net' : Datagram(d)'
    BY <1>0, <1>6, DatagramStays DEF Lose
  <2> QED
    BY <2>1, <2>2 DEF Directory
<1>7. CASE RouterRestarts
  <2>1. /\ changes' = changes + 1 /\ changes < MaxChanges
        /\ table' = [s \in Servers |-> Unknown(s)]
        /\ UNCHANGED <<file, server, known, announced>>
    BY <1>7 DEF RouterRestarts, Change
  <2>3. table' \in [Servers -> Addresses]
    BY <2>1, FetchFacts DEF Addresses, Unknown
  <2>4. Types'
    <3>1. \A s \in Servers : file'[s] >= 1 /\ file'[s] <= changes' + 1
      BY <1>0, <2>1 DEF Types
    <3>2. /\ server[Game].life <= changes' /\ changes' \in 0 .. MaxChanges
          /\ changes <= changes' /\ server[Game].done <= Count(Game)
      <4>1. Game \in Servers
        BY FetchFacts
      <4>2. server[Game].life \in Nat /\ MaxChanges \in Nat
        BY <1>0, <4>1, ProcessSteps, FetchFacts DEF Types
      <4>3. /\ server[Game].life <= changes /\ changes \in 0 .. MaxChanges
            /\ server[Game].done <= Count(Game)
        BY <1>0, <4>1 DEF Types
      <4> QED
        BY <2>1, <4>2, <4>3
    <3> QED
      BY <1>0, <2>1, <2>3, <3>1, <3>2, FetchFacts, StepTypes DEF Types
  <2>5. Learned'
    BY <1>0, <2>1 DEF Learned, Trusted, Unknown
  <2>2. \A d \in net' : Datagram(d)'
    BY <1>0, <1>7, DatagramStays DEF RouterRestarts
  <2> QED
    BY <2>2, <2>4, <2>5 DEF Directory
<1>8. ASSUME NEW s \in Servers, ServerMoves(s) PROVE Directory'
  <2>1. /\ changes' = changes + 1 /\ changes < MaxChanges
        /\ file' = [file EXCEPT ![s] = @ + 1]
        /\ server' = [server EXCEPT ![s] = [Started EXCEPT !.life = server[s].life + 1]]
        /\ net' = Reachable(net)
        /\ known' = IF s = Game THEN [o \in OtherServers |-> Unknown(o)] ELSE known
        /\ UNCHANGED <<table, announced>>
    BY <1>8 DEF ServerMoves, Change
  <2>2. /\ server'[s].done = 0 /\ server'[s].life = server[s].life + 1
        /\ server' \in [Servers -> Process]
        /\ \A u \in Servers : u # s => server'[u] = server[u]
    <3>1. server \in [Servers -> Process] /\ server[s] \in Process
      BY <1>0 DEF Types
    <3>2. [Started EXCEPT !.life = server[s].life + 1] \in Process
      <4>1. server[s].life + 1 \in Nat
        BY <3>1 DEF Process
      <4> QED
        BY <4>1, ProcessSteps, Zenon
    <3> QED
      BY <2>1, <3>1, <3>2 DEF Started
  <2>3. Types'
    <3>1. /\ file' \in [Servers -> Nat]
          /\ \A u \in Servers : file'[u] >= 1 /\ file'[u] <= changes' + 1
      BY <1>0, <2>1 DEF Types
    <3>2. known' \in [OtherServers -> Addresses]
      <4>1. \A o \in OtherServers : Unknown(o) \in Addresses
        BY FetchFacts DEF Addresses, Unknown
      <4> QED
        BY <1>0, <2>1, <4>1 DEF Types
    <3>3. /\ server'[s].life <= changes' /\ changes' \in 0 .. MaxChanges
          /\ changes <= changes' /\ server'[s].done <= Count(s)
      <4>1. server[s].life \in Nat
        BY <1>0, ProcessSteps DEF Types
      <4>2. server[s].life <= changes /\ changes \in 0 .. MaxChanges
        BY <1>0 DEF Types
      <4>3. 0 <= Count(s) /\ MaxChanges \in Nat
        BY CountIsNatural, FetchFacts
      <4> QED
        BY <2>1, <2>2, <4>1, <4>2, <4>3
    <3> QED
      BY <1>0, <2>1, <2>2, <3>1, <3>2, <3>3, StepTypes DEF Types
  <2>4. Learned'
    <3>1. CASE s = Game
      BY <1>0, <2>1, <2>2, <3>1 DEF Learned, Trusted, Unknown
    <3>2. CASE s # Game
      BY <1>0, <2>1, <2>2, <3>2 DEF Learned, Trusted, Unknown
    <3> QED
      BY <3>1, <3>2
  <2>5. Socket(s)' # Socket(s)
    BY <1>0, <2>2 DEF Socket, Types, Process
  <2>6. \A d \in net' : Datagram(d)'
    BY <1>0, <2>1, <2>2, <2>3, <2>5, ReachableStays DEF Reachable
  <2> QED
    BY <2>3, <2>4, <2>6 DEF Directory
<1>9. CASE UNCHANGED directoryVars
  <2>1. Types' /\ Learned' /\ net' = net
    BY <1>0, <1>9 DEF directoryVars, Types, Learned, Trusted, Unknown
  <2>2. \A d \in net' : Datagram(d)'
    BY <1>0, <1>9, <2>1, DatagramStays DEF directoryVars
  <2> QED
    BY <2>1, <2>2 DEF Directory
<1> QED
  BY <1>1, <1>2, <1>3, <1>4, <1>5, <1>6, <1>7, <1>8, <1>9 DEF Next, Operate

(* The tables and the servers keep their shape.                            *)
THEOREM DirectoryTypes ==
  ASSUME DirectoryAssumption PROVE Spec => []TypeOK
<1>1. Directory => TypeOK
  <2> SUFFICES ASSUME Directory PROVE TypeOK
    OBVIOUS
  <2>1. Types /\ Learned /\ MaxChanges \in Nat
    BY FetchFacts DEF Directory
  <2>2. \A s \in Servers : table[s] \in {s} \X (0 .. MaxChanges + 1)
    BY <2>1 DEF Types, Addresses, Learned, Trusted, Unknown
  <2>3. \A s \in Servers : server[s].done \in 0 .. Len(Others) + 1
    <3> SUFFICES ASSUME NEW s \in Servers PROVE server[s].done \in 0 .. Len(Others) + 1
      OBVIOUS
    <3>1. server[s].done \in Nat /\ server[s].done <= Count(s)
      BY <2>1 DEF Types, Process
    <3>2. Count(s) <= Len(Others) + 1 /\ Count(s) \in Nat /\ Len(Others) \in Nat
      <4>1. CASE s = Game
        BY <4>1, FetchFacts
      <4>2. CASE s # Game
        BY <4>2, FetchFacts
      <4> QED
        BY <4>1, <4>2
    <3> QED
      BY <3>1, <3>2
  <2> QED
    BY <2>1, <2>2, <2>3 DEF Types, Process, TypeOK, Versions
<1> QED
  BY InitDirectory, NextDirectory, <1>1, PTL DEF Spec

(* The game server starts with addresses that the servers they are of have *)
(* announced, whatever the network does to the datagrams.                  *)
THEOREM AddressesWereAnnounced ==
  ASSUME DirectoryAssumption PROVE Spec => []LearnedWasAnnounced
<1>1. Directory => LearnedWasAnnounced
  <2> SUFFICES ASSUME Directory, NEW s \in OtherServers,
                      known[s] # Unknown(s) \/ Up(Game)
               PROVE  known[s][1] = s /\ known[s] \in announced
    BY DEF LearnedWasAnnounced
  <2>1. CASE known[s] # Unknown(s)
    BY <2>1 DEF Directory, Learned, Trusted
  <2>2. CASE Up(Game)
    <3>1. PICK i \in 1 .. Len(Others) : s = Others[i]
      BY FetchFacts
    <3>2. i < server[Game].done
      BY <2>2, FetchFacts DEF Up, Count
    <3> QED
      BY <3>1, <3>2 DEF Directory, Learned, Trusted
  <2> QED
    BY <2>1, <2>2
<1> QED
  BY InitDirectory, NextDirectory, <1>1, PTL DEF Spec

----------------------------------------------------------------------------
(* The handlers of datagrams and the event threads, as MCServers runs      *)
(* them: the same definitions over its variables.                          *)
Talk == INSTANCE MessageLoopProofs WITH sent <- datagrams
Events == INSTANCE EventLoopProofs WITH server <- tcp

(* The parts' definitions mean the same here as where they are proved about. *)
LEMMA SameTalk ==
  /\ Messages!Init <=> Talk!Init
  /\ Messages!Next <=> Talk!Next
  /\ Messages!AnsweredOnce <=> Talk!AnsweredOnce
<1>1. Messages!Next <=> Talk!Next
  BY Zenon DEF Messages!Next, Talk!Next, Messages!ReadMessage, Talk!ReadMessage,
     Messages!HandleCommonMessage, Talk!HandleCommonMessage, Messages!HandleMessage,
     Talk!HandleMessage, Messages!Suspends, Talk!Suspends, Messages!ReplyTo, Talk!ReplyTo,
     Messages!Reply, Talk!Reply, Messages!Resume, Talk!Resume, Messages!Handles, Talk!Handles,
     Messages!Connected, Talk!Connected, Messages!Calls, Talk!Calls, Messages!Coroutines,
     Talk!Coroutines
<1>2. Messages!Init <=> Talk!Init
  BY Zenon DEF Messages!Init, Talk!Init, Messages!Handles, Talk!Handles, Messages!Roles,
     Talk!Roles, Messages!Kinds, Talk!Kinds, Messages!Messages, Talk!Messages
<1>3. Messages!AnsweredOnce <=> Talk!AnsweredOnce
  BY Zenon DEF Messages!AnsweredOnce, Talk!AnsweredOnce, Messages!Handled, Talk!Handled,
     Messages!Cardinality, Talk!Cardinality
<1> QED
  BY <1>1, <1>2, <1>3

(* So do those of the event loop. *)
LEMMA SameThreads ==
  /\ Loop!EventLoopAssumption <=> Events!EventLoopAssumption
  /\ Loop!Init <=> Events!Init
  /\ Loop!Next <=> Events!Next
  /\ Loop!OneNotification <=> Events!OneNotification
  /\ Loop!OneAccept <=> Events!OneAccept
<1>1. Loop!EventLoopAssumption <=> Events!EventLoopAssumption
  BY Zenon DEF Loop!EventLoopAssumption, Events!EventLoopAssumption, Loop!IsFiniteSet,
     Events!IsFiniteSet
<1>2. Loop!Init <=> Events!Init
  BY Zenon DEF Loop!Init, Events!Init, Loop!Waiting, Events!Waiting
<1>3. \A t : Loop!ThreadStep(t) <=> Events!ThreadStep(t)
  BY Zenon DEF Loop!ThreadStep, Events!ThreadStep, Loop!Take, Events!Take, Loop!Dequeue,
     Events!Dequeue, Loop!Notify, Events!Notify, Loop!HandleResult, Events!HandleResult,
     Loop!RunTask, Events!RunTask, Loop!HandleAccept, Events!HandleAccept, Loop!StartAccept,
     Events!StartAccept, Loop!PostAccept, Events!PostAccept, Loop!Done, Events!Done,
     Loop!Runs, Events!Runs, Loop!NotifyCompletion, Events!NotifyCompletion, Loop!Posts,
     Events!Posts, Loop!Waiting, Events!Waiting, Loop!threadsOnly, Events!threadsOnly
<1>4. \A t : Loop!Throws(t) <=> Events!Throws(t)
  BY Zenon DEF Loop!Throws, Events!Throws, Loop!Runs, Events!Runs, Loop!Done, Events!Done,
     Loop!Set, Events!Set, Loop!Waiting, Events!Waiting
<1>5. /\ \A r : Loop!PostRequest(r) <=> Events!PostRequest(r)
      /\ \A r : Loop!Completes(r) <=> Events!Completes(r)
      /\ Loop!Connects <=> Events!Connects
      /\ Loop!ScheduleTask <=> Events!ScheduleTask
      /\ Loop!MainRestarts <=> Events!MainRestarts
      /\ Loop!MainPosts <=> Events!MainPosts
  BY Zenon DEF Loop!PostRequest, Events!PostRequest, Loop!Completes, Events!Completes,
     Loop!Connects, Events!Connects, Loop!ScheduleTask, Events!ScheduleTask,
     Loop!MainRestarts, Events!MainRestarts, Loop!MainPosts, Events!MainPosts,
     Loop!Posts, Events!Posts
<1>6. Loop!Next <=> Events!Next
  BY <1>3, <1>4, <1>5 DEF Loop!Next, Events!Next
<1>7. Loop!OneNotification <=> Events!OneNotification
  BY Zenon DEF Loop!OneNotification, Events!OneNotification, Loop!Positions, Events!Positions,
     Loop!NotifiedThreads, Events!NotifiedThreads, Loop!Set, Events!Set, Loop!Runs, Events!Runs,
     Loop!Cardinality, Events!Cardinality
<1>8. Loop!OneAccept <=> Events!OneAccept
  BY Zenon DEF Loop!OneAccept, Events!OneAccept, Loop!Positions, Events!Positions,
     Loop!Accepters, Events!Accepters, Loop!Set, Events!Set, Loop!Cardinality,
     Events!Cardinality
<1> QED
  BY <1>1, <1>2, <1>6, <1>7, <1>8

(* A part keeps its invariant: its own steps do, and the others leave its  *)
(* variables alone.                                                        *)
Answering == part = "messages" => Talk!Conversation
Notifying == part = "loop" => Events!Tokens

(* The threads that handle messages keep theirs. *)
LEMMA NextAnswering == Answering /\ [ServersNext]_allVars => Answering'
<1> SUFFICES ASSUME Answering, [ServersNext]_allVars, part' = "messages"
             PROVE  Talk!Conversation'
  BY DEF Answering
<1>1. CASE OnMessages(Messages!Next)
  BY <1>1, SameTalk, Talk!NextConversation DEF Answering, OnMessages
<1>2. CASE UNCHANGED <<part, messageVars>>
  <2>1. UNCHANGED Talk!vars
    BY <1>2 DEF messageVars, Talk!vars
  <2>2. Talk!Conversation
    BY <1>2 DEF Answering
  <2> QED
    BY <2>1, <2>2, Talk!NextConversation
<1> QED
  BY <1>1, <1>2 DEF ServersNext, allVars, OnDirectory, OnCodec, OnCommand, OnBot, OnLoop

(* The threads of the event loop keep theirs. *)
LEMMA NextNotifying == Notifying /\ [ServersNext]_allVars => Notifying'
<1> SUFFICES ASSUME Notifying, [ServersNext]_allVars, part' = "loop"
             PROVE  Events!Tokens'
  BY DEF Notifying
<1>0. Events!EventLoopAssumption
  BY ServersAssumption, SameThreads DEF ServersAssumption
<1>1. CASE OnLoop(Loop!Next)
  BY <1>0, <1>1, SameThreads, Events!NextTokens DEF Notifying, OnLoop
<1>2. CASE UNCHANGED <<part, loopVars>>
  <2>1. UNCHANGED Events!vars
    BY <1>2 DEF loopVars, Events!vars
  <2>2. Events!Tokens
    BY <1>2 DEF Notifying
  <2> QED
    BY <1>0, <2>1, <2>2, Events!NextTokens
<1> QED
  BY <1>1, <1>2 DEF ServersNext, allVars, OnDirectory, OnCodec, OnCommand, OnBot, OnMessages

(* Replies go to the client whose message they answer, and every handshake *)
(* the login server has handled has exactly one, for any number of event   *)
(* threads and clients.                                                    *)
THEOREM HandshakesAreAnswered == ServersSpec => []AnsweredOnce
<1>1. ServersInit => Answering
  BY SameTalk, Talk!InitConversation DEF ServersInit, Answering
<1>2. Answering => AnsweredOnce
  BY SameTalk, Talk!ConversationAnswers DEF Answering, AnsweredOnce
<1> QED
  BY <1>1, <1>2, NextAnswering, PTL DEF ServersSpec

(* The notification of the RIO queue is neither lost nor doubled, and who  *)
(* has it finds results, for any number of event threads and requests.     *)
THEOREM NotificationStays == ServersSpec => []OneNotification
<1>1. ServersInit => Notifying
  BY SameThreads, Events!InitTokens DEF ServersInit, Notifying
<1>2. Notifying => OneNotification
  BY SameThreads, Events!TokensNotify DEF Notifying, OneNotification
<1> QED
  BY <1>1, <1>2, NextNotifying, PTL DEF ServersSpec

(* At most one accept is on its way, and none while the server is stopped. *)
THEOREM AcceptStays == ServersSpec => []OneAccept
<1>1. ServersInit => Notifying
  BY SameThreads, Events!InitTokens DEF ServersInit, Notifying
<1>2. Notifying => OneAccept
  BY SameThreads, Events!TokensAccept DEF Notifying, OneAccept
<1> QED
  BY <1>1, <1>2, NextNotifying, PTL DEF ServersSpec

----------------------------------------------------------------------------
(* The load generator's bot.  The bytes the server has sent and the bot    *)
(* has not gone through, in the bot's buffer and under way.                *)
Places == Nat \X Nat
Ahead == Len(rest) + Len(wire)
Byte(i) == IF i <= Len(rest) THEN rest[i] ELSE wire[i - Len(rest)]
SizeAt(k) == PacketSize[sent[k]]

(* From each byte on its packet is whole, and the next one follows.        *)
Whole(i, k, j) ==
    /\ i + SizeAt(k) - j <= Ahead
    /\ \A d \in 0 .. SizeAt(k) - j : Byte(i + d) = <<k, j + d>>
    /\ i + SizeAt(k) - j < Ahead => Byte(i + SizeAt(k) - j + 1) = <<k + 1, 1>>
    /\ i + SizeAt(k) - j = Ahead => k = Len(sent)
InOrder ==
    \A i \in 1 .. Ahead : \E k \in DOMAIN sent : \E j \in 1 .. SizeAt(k) : Whole(i, k, j)

(* The first byte is where the bot has come to.                            *)
AtFront ==
    /\ remain > 0 => /\ Len(parsed) \in DOMAIN sent /\ remain < SizeAt(Len(parsed))
                     /\ Ahead > 0 /\ rest = <<>>
                     /\ Byte(1) = <<Len(parsed), SizeAt(Len(parsed)) - remain + 1>>
    /\ remain = 0 /\ Ahead > 0 => Byte(1) = <<Len(parsed) + 1, 1>>
    /\ Ahead = 0 => Len(parsed) = Len(sent)

BotShape ==
    /\ sent \in Seq(DOMAIN PacketSize) /\ parsed \in Seq(Places)
    /\ rest \in Seq(Places) /\ wire \in Seq(Places) /\ remain \in Nat
    /\ Len(parsed) <= Len(sent)
    /\ receive \in {"none", "posted", "parsing"}
    /\ receive # "parsing" => rest = <<>>
    /\ state = Bot!Initialized => receive = "none"

(* The state is what the last packet says that says something.             *)
StateFollows ==
    ~late => IF Bot!Deciding = {} THEN state \in {Bot!Initialized, Bot!Connected, Bot!Requested}
             ELSE \E k \in Bot!Deciding : /\ \A j \in Bot!Deciding : j <= k
                                          /\ state = Bot!Means[sent[k]]

BotFollows == BotShape /\ InOrder /\ AtFront /\ StateFollows

(* A packet has bytes. *)
LEMMA SizesPositive ==
  ASSUME Bot!BotAssumption, BotShape
  PROVE  /\ Len(sent) \in Nat /\ DOMAIN sent = 1 .. Len(sent)
         /\ \A k \in DOMAIN sent : sent[k] \in DOMAIN PacketSize /\ SizeAt(k) \in Nat \ {0}
         /\ Len(parsed) \in Nat /\ Ahead \in Nat
  BY DEF Bot!BotAssumption, BotShape, SizeAt, Ahead

(* The first n bytes are gone through. *)
Drops(n) ==
    /\ n \in 0 .. Ahead /\ Ahead' = Ahead - n
    /\ \A i \in 1 .. Ahead' : Byte(i)' = Byte(i + n)
    /\ sent' = sent

(* What is behind them keeps its order. *)
LEMMA OrderStays ==
  ASSUME Bot!BotAssumption, BotShape, InOrder, NEW n, Drops(n) PROVE InOrder'
<1>1. /\ n \in Nat /\ n <= Ahead /\ Ahead \in Nat /\ Ahead' = Ahead - n
      /\ \A i \in 1 .. Ahead' : Byte(i)' = Byte(i + n)
      /\ sent' = sent
  BY SizesPositive DEF Drops
<1>2. \A k : SizeAt(k)' = SizeAt(k)
  BY <1>1 DEF SizeAt
<1> SUFFICES ASSUME NEW i \in 1 .. Ahead'
             PROVE  \E k \in DOMAIN sent : \E j \in 1 .. SizeAt(k) : Whole(i, k, j)'
  BY <1>1, <1>2 DEF InOrder
<1>3. i + n \in 1 .. Ahead
  BY <1>1
<1>4. PICK k \in DOMAIN sent : \E j \in 1 .. SizeAt(k) : Whole(i + n, k, j)
  BY <1>3 DEF InOrder
<1>5. PICK j \in 1 .. SizeAt(k) : Whole(i + n, k, j)
  BY <1>4
<1>6. SizeAt(k) \in Nat \ {0}
  BY SizesPositive
<1>7. PICK e \in Nat : e = SizeAt(k) - j
  BY <1>6
<1>8. /\ i + n + e <= Ahead
      /\ \A d \in 0 .. e : Byte(i + n + d) = <<k, j + d>>
      /\ i + n + e < Ahead => Byte(i + n + e + 1) = <<k + 1, 1>>
      /\ i + n + e = Ahead => k = Len(sent)
  <2>1. /\ i + n + SizeAt(k) - j = i + n + e
        /\ i + n + SizeAt(k) - j + 1 = i + n + e + 1
    BY <1>1, <1>6, <1>7
  <2> QED
    BY <1>5, <1>7, <2>1 DEF Whole
<1>9. i + e <= Ahead'
  BY <1>1, <1>7, <1>8
<1>10. ASSUME NEW d \in 0 .. e PROVE Byte(i + d)' = <<k, j + d>>
  <2>1. i + d \in 1 .. Ahead' /\ i + d + n = i + n + d
    BY <1>1, <1>7, <1>9
  <2> QED
    BY <1>1, <1>8, <2>1
<1>11. i + e < Ahead' => Byte(i + e + 1)' = <<k + 1, 1>>
  <2>1. i + e < Ahead' => i + e + 1 \in 1 .. Ahead' /\ i + n + e < Ahead
    BY <1>1, <1>7
  <2>2. i + e + 1 + n = i + n + e + 1
    BY <1>1, <1>7
  <2> QED
    BY <1>1, <1>8, <2>1, <2>2
<1>12. i + e = Ahead' => k = Len(sent)
  <2>1. i + e = Ahead' => i + n + e = Ahead
    BY <1>1, <1>7
  <2> QED
    BY <1>8, <2>1
<1>13. i + SizeAt(k) - j = i + e /\ i + SizeAt(k) - j + 1 = i + e + 1
  BY <1>1, <1>6, <1>7
<1>14. Whole(i, k, j)'
  BY <1>1, <1>2, <1>7, <1>9, <1>10, <1>11, <1>12, <1>13 DEF Whole
<1> QED
  BY <1>14

(* Going through bytes of the packet in front. *)
LEMMA FrontMoves ==
  ASSUME Bot!BotAssumption, BotShape, InOrder, Ahead > 0, NEW k \in Nat, NEW j \in Nat,
         Byte(1) = <<k, j>>
  PROVE  /\ k \in DOMAIN sent /\ j \in 1 .. SizeAt(k) /\ SizeAt(k) - j + 1 <= Ahead
         /\ \A n \in 0 .. SizeAt(k) - j + 1 : Drops(n) =>
              IF n <= SizeAt(k) - j THEN Ahead' > 0 /\ Byte(1)' = <<k, j + n>>
              ELSE /\ Ahead' > 0 => Byte(1)' = <<k + 1, 1>>
                   /\ Ahead' = 0 => k = Len(sent)
<1>0. Ahead \in Nat
  BY SizesPositive
<1>1. PICK m \in DOMAIN sent : \E q \in 1 .. SizeAt(m) : Whole(1, m, q)
  BY <1>0 DEF InOrder
<1>2. PICK q \in 1 .. SizeAt(m) : Whole(1, m, q)
  BY <1>1
<1>3. SizeAt(m) \in Nat \ {0}
  BY SizesPositive
<1>4. Byte(1) = <<m, q>>
  <2>1. 0 \in 0 .. SizeAt(m) - q /\ 1 + 0 = 1 /\ q + 0 = q
    BY <1>3
  <2> QED
    BY <1>2, <2>1 DEF Whole
<1>5. m = k /\ q = j
  BY <1>4
<1>6. PICK e \in Nat : e = SizeAt(k) - j
  BY <1>3, <1>5
<1>7. /\ 1 + e <= Ahead
      /\ \A d \in 0 .. e : Byte(1 + d) = <<k, j + d>>
      /\ 1 + e < Ahead => Byte(1 + e + 1) = <<k + 1, 1>>
      /\ 1 + e = Ahead => k = Len(sent)
  <2>1. 1 + SizeAt(k) - j = 1 + e /\ 1 + SizeAt(k) - j + 1 = 1 + e + 1
    BY <1>3, <1>5, <1>6
  <2> QED
    BY <1>2, <1>5, <1>6, <2>1 DEF Whole
<1>8. ASSUME NEW n \in 0 .. e + 1, Drops(n)
      PROVE  IF n <= e THEN Ahead' > 0 /\ Byte(1)' = <<k, j + n>>
             ELSE /\ Ahead' > 0 => Byte(1)' = <<k + 1, 1>>
                  /\ Ahead' = 0 => k = Len(sent)
  <2>1. Ahead' = Ahead - n /\ \A i \in 1 .. Ahead' : Byte(i)' = Byte(i + n)
    BY <1>8 DEF Drops
  <2>2. Ahead' > 0 => Byte(1)' = Byte(1 + n)
    BY <1>0, <2>1
  <2>3. CASE n <= e
    BY <1>0, <1>6, <1>7, <2>1, <2>2, <2>3
  <2>4. CASE n = e + 1
    <3>1. 1 + e + 1 = 1 + n /\ ~(n <= e)
      BY <1>6, <2>4
    <3>2. /\ Ahead' > 0 => 1 + e < Ahead
          /\ Ahead' = 0 => 1 + e = Ahead
      BY <1>0, <1>6, <2>1, <2>4
    <3> QED
      BY <1>7, <2>2, <3>1, <3>2
  <2> QED
    BY <1>6, <2>3, <2>4
<1> QED
  BY <1>2, <1>3, <1>5, <1>6, <1>7, <1>8

(* Parts of a sequence. *)
LEMMA Pieces ==
  ASSUME NEW S, NEW s \in Seq(S), NEW a \in Nat, NEW b \in Nat, a <= b, b <= Len(s),
         NEW r, r = SubSeq(s, a + 1, b)
  PROVE  /\ r \in Seq(S) /\ Len(r) = b - a
         /\ \A i \in 1 .. b - a : r[i] = s[a + i]
         /\ a = b => r = <<>>
<1>1. r \in Seq(S)
  OBVIOUS
<1>2. Len(r) = b - a
  OBVIOUS
<1>3. \A i \in 1 .. b - a : r[i] = s[a + i]
  OBVIOUS
<1> QED
  BY <1>1, <1>2, <1>3

(* Where a bot has come to, before its next packet. *)
LEMMA FrontByte ==
  ASSUME Bot!BotAssumption, BotShape, InOrder, AtFront, Ahead > 0
  PROVE  \E k, j \in Nat : /\ Byte(1) = <<k, j>>
                           /\ IF remain > 0 THEN /\ k = Len(parsed) /\ j = SizeAt(k) - remain + 1
                              ELSE k = Len(parsed) + 1 /\ j = 1
<1>1. Len(parsed) \in Nat /\ remain \in Nat
  BY DEF BotShape
<1>2. CASE remain > 0
  <2>1. /\ Len(parsed) \in DOMAIN sent /\ remain < SizeAt(Len(parsed))
        /\ Byte(1) = <<Len(parsed), SizeAt(Len(parsed)) - remain + 1>>
    BY <1>2 DEF AtFront
  <2>2. SizeAt(Len(parsed)) \in Nat
    BY <2>1, SizesPositive
  <2>3. SizeAt(Len(parsed)) - remain + 1 \in Nat
    BY <1>1, <2>1, <2>2
  <2> QED
    BY <1>1, <1>2, <2>1, <2>3
<1>3. CASE remain = 0
  BY <1>1, <1>3 DEF AtFront
<1> QED
  BY <1>1, <1>2, <1>3

(* The bytes of a receive: what is left of a cut packet is skipped. *)
LEMMA ReceiveDrops ==
  ASSUME Bot!BotAssumption, BotShape, NEW n \in Nat, Bot!Receive(n)
  PROVE  /\ Drops(Bot!Skip(remain, n)) /\ rest = <<>> /\ n <= Ahead /\ n > 0
         /\ rest' \in Seq(Places) /\ wire' \in Seq(Places)
         /\ Bot!Skip(remain, n) = n => rest' = <<>>
<1>0. PICK s : s = Bot!Skip(remain, n)
  OBVIOUS
<1>1. /\ n \in 1 .. Len(wire) /\ rest' = SubSeq(wire, s + 1, n)
      /\ wire' = SubSeq(wire, n + 1, Len(wire)) /\ sent' = sent
      /\ receive = "posted"
  BY <1>0 DEF Bot!Receive
<1>2. rest = <<>> /\ Len(rest) = 0 /\ remain \in Nat /\ wire \in Seq(Places)
      /\ Len(wire) \in Nat
  BY <1>1 DEF BotShape
<1>3. s \in 0 .. n /\ (s = remain \/ s = n)
  BY <1>0, <1>1, <1>2 DEF Bot!Skip
<1>4. /\ rest' \in Seq(Places) /\ Len(rest') = n - s
      /\ \A i \in 1 .. n - s : rest'[i] = wire[s + i]
      /\ s = n => rest' = <<>>
  <2>1. s \in Nat /\ n \in Nat /\ s <= n /\ n <= Len(wire)
    BY <1>1, <1>2, <1>3
  <2>2. wire \in Seq(Places) /\ rest' = SubSeq(wire, s + 1, n)
    BY <1>1, <1>2
  <2> QED
    BY <2>1, <2>2, Pieces
<1>5. /\ wire' \in Seq(Places) /\ Len(wire') = Len(wire) - n
      /\ \A i \in 1 .. Len(wire) - n : wire'[i] = wire[n + i]
  <2>1. n \in Nat /\ Len(wire) \in Nat /\ n <= Len(wire) /\ Len(wire) <= Len(wire)
    BY <1>1, <1>2
  <2>2. wire \in Seq(Places) /\ wire' = SubSeq(wire, n + 1, Len(wire))
    BY <1>1, <1>2
  <2> QED
    BY <2>1, <2>2, Pieces
<1>6. Ahead = Len(wire) /\ Ahead' = Len(wire) - s
  <2>1. Ahead = Len(wire)
    BY <1>2 DEF Ahead
  <2>2. Ahead' = Len(rest') + Len(wire')
    BY DEF Ahead
  <2>3. Len(rest') + Len(wire') = Len(wire) - s
    <3>1. PICK a, b : a = Len(rest') /\ b = Len(wire')
      OBVIOUS
    <3>2. a = n - s /\ b = Len(wire) - n
      BY <1>4, <1>5, <3>1
    <3>3. n \in Int /\ s \in Int /\ Len(wire) \in Int
      BY <1>2, <1>3
    <3> QED
      BY <3>1, <3>2, <3>3
  <2> QED
    BY <2>1, <2>2, <2>3
<1>7. ASSUME NEW i \in 1 .. Ahead' PROVE Byte(i)' = Byte(i + s)
  <2>1. Byte(i + s) = wire[i + s]
    <3>1. PICK m \in Nat : m = i + s /\ m > 0
      BY <1>2, <1>3, <1>6, <1>7
    <3>2. Len(rest) = 0
      BY <1>2
    <3>3. Byte(m) = wire[m]
      BY <3>1, <3>2 DEF Byte
    <3> QED
      BY <3>1, <3>3
  <2>2. CASE i <= n - s
    <3>1. i \in 1 .. n - s /\ s + i = i + s
      BY <1>2, <1>3, <2>2, <1>6
    <3> QED
      BY <1>4, <2>1, <2>2, <3>1 DEF Byte
  <2>3. CASE ~(i <= n - s)
    <3>1. PICK a \in 1 .. Len(wire) - n : a = i - (n - s)
      BY <1>1, <1>2, <1>3, <1>6, <2>3
    <3>2. n + a = i + s
      BY <1>1, <1>3, <1>6, <3>1
    <3>3. Byte(i)' = wire'[a]
      BY <1>4, <2>3, <3>1 DEF Byte
    <3> QED
      BY <1>5, <2>1, <3>2, <3>3
  <2> QED
    BY <2>2, <2>3
<1>9. s \in 0 .. Ahead /\ Ahead' = Ahead - s
  BY <1>1, <1>2, <1>3, <1>6
<1>10. Drops(s)
  BY <1>1, <1>7, <1>9 DEF Drops
<1>11. n <= Ahead /\ n > 0
  BY <1>1, <1>2, <1>6
<1> QED
  BY <1>0, <1>2, <1>4, <1>5, <1>10, <1>11

(* The bytes of a packet that is looked at. *)
LEMMA ParseDrops ==
  ASSUME Bot!BotAssumption, BotShape, NEW h \in 0 .. Len(rest),
         rest' = SubSeq(rest, h + 1, Len(rest)), wire' = wire, sent' = sent
  PROVE  /\ Drops(h) /\ rest' \in Seq(Places)
         /\ h = Len(rest) => rest' = <<>>
<1>1. /\ rest \in Seq(Places) /\ Len(rest) \in Nat
      /\ wire \in Seq(Places) /\ Len(wire) \in Nat
  BY DEF BotShape
<1>2. /\ rest' \in Seq(Places) /\ Len(rest') = Len(rest) - h
      /\ \A i \in 1 .. Len(rest) - h : rest'[i] = rest[h + i]
      /\ h = Len(rest) => rest' = <<>>
  BY <1>1, Pieces
<1>3. h \in 0 .. Ahead /\ Ahead' = Ahead - h
  <2>1. Ahead' = Len(rest') + Len(wire)
    BY DEF Ahead
  <2>2. PICK a : a = Len(rest')
    OBVIOUS
  <2>3. a = Len(rest) - h
    BY <1>2, <2>2
  <2> QED
    BY <1>1, <2>1, <2>2, <2>3 DEF Ahead
<1>4. ASSUME NEW i \in 1 .. Ahead' PROVE Byte(i)' = Byte(i + h)
  <2>0. i \in Nat /\ i > 0
    BY <1>1, <1>3, SizesPositive
  <2>1. CASE i <= Len(rest) - h
    <3>1. i + h <= Len(rest) /\ h + i = i + h /\ i \in 1 .. Len(rest) - h
      BY <1>1, <2>0, <2>1
    <3> QED
      BY <1>2, <2>1, <3>1 DEF Byte
  <2>2. CASE ~(i <= Len(rest) - h)
    <3>1. ~(i + h <= Len(rest)) /\ i + h - Len(rest) = i - (Len(rest) - h)
      BY <1>1, <2>0, <2>2
    <3> QED
      BY <1>2, <2>2, <3>1 DEF Byte
  <2> QED
    BY <2>1, <2>2
<1> QED
  BY <1>2, <1>3, <1>4 DEF Drops

(* What a packet can say of the state, a bot sets nowhere else. *)
LEMMA MeansFacts ==
  /\ \A kind \in DOMAIN Bot!Means :
       Bot!Means[kind] \notin {Bot!Initialized, Bot!Connected, Bot!Requested}
  /\ \A kind : Bot!StateAfter(kind) = IF kind \in DOMAIN Bot!Means THEN Bot!Means[kind] ELSE state
  /\ Bot!Initialized # Bot!Connected /\ Bot!Initialized # Bot!Requested
<1>1. DOMAIN Bot!Means = {"handshake", "finalize", "disconnect"}
      /\ Bot!Means["handshake"] = 4 /\ Bot!Means["finalize"] = 5 /\ Bot!Means["disconnect"] = 0
  BY DEF Bot!Means, Bot!Completed, Bot!LevelInitialized, Bot!Error
<1>2. \A kind : Bot!StateAfter(kind) = IF kind \in DOMAIN Bot!Means THEN Bot!Means[kind] ELSE state
  BY <1>1 DEF Bot!StateAfter, Bot!Completed, Bot!LevelInitialized, Bot!Error
<1> QED
  BY <1>1, <1>2 DEF Bot!Initialized, Bot!Connected, Bot!Requested

(* Nothing is sent yet. *)
LEMMA InitBot == Bot!Init => BotFollows
<1> SUFFICES ASSUME Bot!Init PROVE BotFollows
  OBVIOUS
<1>1. /\ sent = <<>> /\ parsed = <<>> /\ rest = <<>> /\ wire = <<>> /\ remain = 0
      /\ state = Bot!Initialized /\ receive = "none"
  BY DEF Bot!Init
<1>2. Ahead = 0 /\ Bot!Deciding = {}
  BY <1>1 DEF Ahead, Bot!Deciding
<1>3. BotShape
  BY <1>1 DEF BotShape
<1>4. InOrder
  BY <1>2 DEF InOrder
<1>5. AtFront
  BY <1>1, <1>2 DEF AtFront
<1> QED
  BY <1>1, <1>2, <1>3, <1>4, <1>5 DEF BotFollows, StateFollows

(* The bytes stay as they are. *)
StreamStands ==
    UNCHANGED <<rest, remain, sent, wire, parsed>>

(* What the invariant says of the bytes stays. *)
LEMMA StreamKept ==
  ASSUME StreamStands, BotFollows
  PROVE  InOrder' /\ AtFront' /\ Bot!Deciding' = Bot!Deciding
<1>1. /\ rest' = rest /\ remain' = remain /\ sent' = sent /\ wire' = wire /\ parsed' = parsed
      /\ Ahead' = Ahead
  BY DEF StreamStands, Ahead
<1>2. \A k : SizeAt(k)' = SizeAt(k) /\ Byte(k)' = Byte(k)
  BY <1>1 DEF SizeAt, Byte
<1>3. \A i, k, j : Whole(i, k, j)' <=> Whole(i, k, j)
  BY <1>1, <1>2 DEF Whole
<1>4. InOrder'
  BY <1>1, <1>2, <1>3 DEF InOrder, BotFollows
<1>5. AtFront'
  BY <1>1, <1>2 DEF AtFront, BotFollows
<1> QED
  BY <1>1, <1>4, <1>5 DEF Bot!Deciding

(* The steps that leave the bytes alone. *)
LEMMA OtherSteps ==
  ASSUME BotFollows,
         \/ Bot!Connect \/ Bot!SendHandshake \/ Bot!SetRequested \/ Bot!SendBlock
         \/ Bot!ReceiveEnds \/ UNCHANGED botVars
  PROVE  BotFollows'
<1>1. StreamStands
  BY DEF Bot!Connect, Bot!SendHandshake, Bot!SetRequested, Bot!SendBlock, Bot!ReceiveEnds,
         botVars, StreamStands
<1>2. /\ receive' \in {"none", "posted", "parsing"} /\ (receive' # "parsing" => rest = <<>>)
      /\ state' = Bot!Initialized => receive' = "none"
  <2>0. BotShape
    BY DEF BotFollows
  <2>1. CASE Bot!Connect
    <3>1. receive' = "posted" /\ state = Bot!Initialized /\ state' = Bot!Connected
      BY <2>1 DEF Bot!Connect
    <3> QED
      BY <2>0, <3>1, MeansFacts DEF BotShape
  <2>2. CASE Bot!ReceiveEnds
    <3>1. /\ receive = "parsing" /\ (remain > 0 \/ rest = <<>>) /\ state' = state
          /\ receive' \in {"posted", "none"}
      BY <2>2 DEF Bot!ReceiveEnds
    <3> QED
      BY <2>0, <3>1 DEF BotFollows, BotShape, AtFront
  <2>3. CASE receive' = receive /\ (state' = state \/ state' = Bot!Requested)
    BY <2>0, <2>3, MeansFacts DEF BotShape
  <2> QED
    BY <2>1, <2>2, <2>3 DEF Bot!SendHandshake, Bot!SetRequested, Bot!SendBlock, botVars
<1>3. BotShape'
  BY <1>1, <1>2 DEF StreamStands, BotFollows, BotShape
<1>4. StateFollows'
  <2>0. /\ Bot!Deciding' = Bot!Deciding /\ sent' = sent
        /\ \A k \in Bot!Deciding : sent[k] \in DOMAIN Bot!Means
    BY <1>1, StreamKept DEF StreamStands, Bot!Deciding
  <2>1. CASE Bot!Connect \/ Bot!SetRequested
    <3>1. late' \/ /\ ~late /\ state \in {Bot!Initialized, Bot!Connected}
                   /\ state' \in {Bot!Connected, Bot!Requested}
      BY <2>1 DEF Bot!Connect, Bot!SetRequested
    <3>2. ~late' => Bot!Deciding = {}
      BY <2>0, <3>1, MeansFacts DEF BotFollows, StateFollows
    <3> QED
      BY <2>0, <3>1, <3>2 DEF StateFollows
  <2>2. CASE state' = state /\ late' = late
    BY <2>0, <2>2 DEF BotFollows, StateFollows
  <2> QED
    BY <2>1, <2>2 DEF Bot!SendHandshake, Bot!SendBlock, Bot!ReceiveEnds, botVars
<1> QED
  BY <1>1, <1>3, <1>4, StreamKept DEF BotFollows

(* A receive. *)
LEMMA ReceiveFollows ==
  ASSUME Bot!BotAssumption, BotFollows, NEW n \in Nat, Bot!Receive(n) PROVE BotFollows'
<1>2. BotShape /\ InOrder /\ AtFront /\ remain \in Nat /\ Len(parsed) \in Nat
  BY DEF BotFollows, BotShape
<1>1. PICK s \in Nat : s = Bot!Skip(remain, n)
  BY <1>2 DEF Bot!Skip
<1>3. /\ Drops(s) /\ rest = <<>> /\ n <= Ahead /\ n > 0
      /\ rest' \in Seq(Places) /\ wire' \in Seq(Places) /\ (s = n => rest' = <<>>)
  BY <1>1, <1>2, ReceiveDrops
<1>4. /\ receive = "posted" /\ receive' = "parsing" /\ remain' = remain - s
      /\ sent' = sent /\ state' = state /\ parsed' = parsed /\ late' = late
  BY <1>1 DEF Bot!Receive
<1>5. s = IF remain < n THEN remain ELSE n
  BY <1>1 DEF Bot!Skip
<1>6. s \in Nat /\ s <= remain /\ remain' \in Nat /\ Ahead \in Nat /\ Ahead' = Ahead - s
      /\ remain' + s = remain
  BY <1>2, <1>3, <1>4, <1>5, SizesPositive DEF Drops
<1>61. PICK r \in Nat, q \in Nat, a \in Nat, b \in Int :
          r = remain /\ q = remain' /\ a = Ahead /\ b = Ahead'
  BY <1>2, <1>6
<1>62. /\ s = IF r < n THEN r ELSE n
       /\ s \in Nat /\ s <= r /\ q + s = r /\ b = a - s /\ n <= a /\ n > 0
  BY <1>3, <1>5, <1>6, <1>61
<1>7. BotShape'
  <2>1. state # Bot!Initialized
    BY <1>2, <1>4 DEF BotShape
  <2> QED
    BY <1>2, <1>3, <1>4, <1>6, <2>1 DEF BotShape
<1>8. InOrder'
  BY <1>2, <1>3, OrderStays
<1>9. \A k : SizeAt(k)' = SizeAt(k)
  BY <1>4 DEF SizeAt
<1>10. AtFront'
  <2>1. CASE remain = 0
    <3>1. s = 0 /\ remain' = 0 /\ Ahead > 0 /\ Ahead' = Ahead
      <4>0. r = 0
        BY <1>61, <2>1
      <4>1. s = 0 /\ q = 0 /\ a > 0 /\ b = a
        BY <1>62, <4>0
      <4> QED
        BY <1>61, <4>1
    <3>2. Byte(1)' = Byte(1)
      <4>1. 1 \in 1 .. Ahead' /\ 1 + 0 = 1
        BY <1>6, <3>1
      <4> QED
        BY <1>3, <3>1, <4>1 DEF Drops
    <3>3. Byte(1) = <<Len(parsed) + 1, 1>>
      BY <1>2, <2>1, <3>1 DEF AtFront
    <3> QED
      BY <1>4, <3>1, <3>2, <3>3 DEF AtFront
  <2>2. CASE remain > 0
    <3>1. PICK k \in Nat : k = Len(parsed)
      BY <1>2
    <3>2. k \in DOMAIN sent /\ remain < SizeAt(k) /\ Ahead > 0
          /\ Byte(1) = <<k, SizeAt(k) - remain + 1>>
      BY <1>2, <2>2, <3>1 DEF AtFront
    <3>3. SizeAt(k) \in Nat
      BY <1>2, <3>2, SizesPositive
    <3>4. PICK j \in Nat : j = SizeAt(k) - remain + 1
      BY <1>2, <3>2, <3>3
    <3>5. SizeAt(k) - j = remain - 1 /\ SizeAt(k) - j + 1 = remain /\ s \in 0 .. remain
      BY <1>2, <1>6, <3>3, <3>4
    <3>6. IF s <= remain - 1 THEN Ahead' > 0 /\ Byte(1)' = <<k, j + s>>
          ELSE /\ Ahead' > 0 => Byte(1)' = <<k + 1, 1>>
               /\ Ahead' = 0 => k = Len(sent)
      BY <1>2, <1>3, <3>2, <3>4, <3>5, FrontMoves
    <3>7. CASE s <= remain - 1
      <4>1. s = n /\ remain' > 0 /\ remain' < SizeAt(k)
        <5>0. s <= r - 1 /\ r < SizeAt(k)
          BY <1>61, <3>2, <3>7
        <5>1. s = n /\ q > 0
          BY <1>62, <5>0
        <5>2. q < SizeAt(k)
          BY <1>62, <5>0, <3>3
        <5> QED
          BY <1>61, <5>1, <5>2
      <4>2. j + s = SizeAt(k) - remain' + 1
        <5>1. j = SizeAt(k) - r + 1
          BY <1>61, <3>4
        <5>2. j + s = SizeAt(k) - q + 1
          BY <1>62, <3>3, <5>1
        <5> QED
          BY <1>61, <5>2
      <4>3. Ahead' > 0 /\ Byte(1)' = <<k, SizeAt(k) - remain' + 1>> /\ rest' = <<>>
        BY <1>3, <3>6, <3>7, <4>1, <4>2
      <4>4. Ahead' # 0 /\ remain' # 0
        BY <1>6, <4>1, <4>3
      <4> QED
        BY <1>4, <1>9, <3>1, <3>2, <4>1, <4>3, <4>4 DEF AtFront
    <3>8. CASE ~(s <= remain - 1)
      <4>0. ~(s <= r - 1)
        BY <1>61, <3>8
      <4>1. q = 0
        BY <1>62, <4>0
      <4>2. remain' = 0
        BY <1>61, <4>1
      <4> QED
        BY <1>4, <3>1, <3>6, <3>8, <4>2 DEF AtFront
    <3> QED
      BY <3>7, <3>8
  <2> QED
    BY <1>2, <2>1, <2>2
<1>11. StateFollows'
  <2>1. Bot!Deciding' = Bot!Deciding
    BY <1>4 DEF Bot!Deciding
  <2> QED
    BY <1>4, <2>1 DEF BotFollows, StateFollows
<1> QED
  BY <1>7, <1>8, <1>10, <1>11 DEF BotFollows

(* A packet is looked at. *)
LEMMA ParseFollows ==
  ASSUME Bot!BotAssumption, BotFollows, Bot!ParsePacket PROVE BotFollows'
<1>2. BotShape /\ InOrder /\ AtFront /\ Len(parsed) \in Nat
      /\ rest \in Seq(Places) /\ Len(rest) \in Nat /\ parsed \in Seq(Places)
  BY DEF BotFollows, BotShape
<1>3. receive = "parsing" /\ remain = 0 /\ rest # <<>>
  BY DEF Bot!ParsePacket
<1>4. Len(rest) > 0 /\ Ahead \in Nat /\ Ahead > 0 /\ Byte(1) = rest[1]
  <2>1. Len(rest) > 0
    BY <1>2, <1>3
  <2>2. Byte(1) = rest[1]
    BY <1>2, <2>1 DEF Byte
  <2>3. Ahead > 0
    BY <2>1, <1>2 DEF Ahead, BotShape
  <2> QED
    BY <1>2, <2>1, <2>2, <2>3, SizesPositive
<1>5. PICK k \in Nat : k = Len(parsed) + 1
  BY <1>2
<1>6. Byte(1) = <<k, 1>>
  BY <1>2, <1>3, <1>4, <1>5 DEF AtFront
<1>7. /\ k \in DOMAIN sent /\ 1 \in 1 .. SizeAt(k)
      /\ \A n \in 0 .. SizeAt(k) - 1 + 1 : Drops(n) =>
              IF n <= SizeAt(k) - 1 THEN Ahead' > 0 /\ Byte(1)' = <<k, 1 + n>>
              ELSE /\ Ahead' > 0 => Byte(1)' = <<k + 1, 1>>
                   /\ Ahead' = 0 => k = Len(sent)
  BY <1>2, <1>4, <1>6, FrontMoves
<1>8. PICK z \in Nat : z = SizeAt(k) /\ z > 0
  <2>1. SizeAt(k) \in Nat \ {0}
    BY <1>2, <1>7, SizesPositive
  <2> QED
    BY <2>1
<1>9. PICK h \in Nat : h = Bot!Skip(z, Len(rest))
  BY <1>2 DEF Bot!Skip
<1>10. h \in 0 .. Len(rest) /\ h \in 0 .. z /\ h > 0 /\ (h = z \/ h = Len(rest))
  BY <1>2, <1>4, <1>8, <1>9 DEF Bot!Skip
<1>11. rest[1] = <<k, 1>> /\ rest[1][1] = k
  BY <1>4, <1>6
<1>12. /\ parsed' = Append(parsed, <<k, 1>>) /\ remain' = z - h
       /\ rest' = SubSeq(rest, h + 1, Len(rest)) /\ state' = Bot!StateAfter(sent[k])
       /\ wire' = wire /\ sent' = sent /\ receive' = receive /\ late' = late
  BY <1>8, <1>9, <1>11 DEF Bot!ParsePacket, SizeAt
<1>13. Drops(h) /\ rest' \in Seq(Places) /\ (h = Len(rest) => rest' = <<>>)
  BY <1>2, <1>10, <1>12, ParseDrops
<1>14. /\ parsed' \in Seq(Places) /\ Len(parsed') = k /\ DOMAIN parsed' = DOMAIN parsed \cup {k}
       /\ DOMAIN parsed = 1 .. k - 1
  <2>1. <<k, 1>> \in Places
    BY DEF Places
  <2>2. parsed' \in Seq(Places) /\ Len(parsed') = Len(parsed) + 1
    BY <1>2, <1>12, <2>1
  <2>3. DOMAIN parsed = 1 .. Len(parsed) /\ DOMAIN parsed' = 1 .. Len(parsed')
    BY <1>2, <2>2
  <2> QED
    BY <1>2, <1>5, <2>2, <2>3
<1>15. BotShape'
  <2>1. remain' \in Nat
    BY <1>8, <1>10, <1>12
  <2>2. k <= Len(sent)
    BY <1>2, <1>7, SizesPositive
  <2>3. state' # Bot!Initialized
    <3>1. state # Bot!Initialized
      BY <1>2, <1>3 DEF BotShape
    <3> QED
      BY <1>12, <3>1, MeansFacts
  <2> QED
    BY <1>2, <1>3, <1>12, <1>13, <1>14, <2>1, <2>2, <2>3 DEF BotShape
<1>16. InOrder'
  BY <1>2, <1>13, OrderStays
<1>17. SizeAt(k)' = z
  BY <1>8, <1>12 DEF SizeAt
<1>18. IF h <= z - 1 THEN Ahead' > 0 /\ Byte(1)' = <<k, 1 + h>>
       ELSE /\ Ahead' > 0 => Byte(1)' = <<k + 1, 1>>
            /\ Ahead' = 0 => k = Len(sent)
  <2>1. h \in 0 .. SizeAt(k) - 1 + 1
    BY <1>8, <1>10
  <2> QED
    BY <1>7, <1>8, <1>13, <2>1
<1>19. AtFront'
  <2>1. CASE h <= z - 1
    <3>1. remain' > 0 /\ remain' < z /\ 1 + h = z - remain' + 1 /\ rest' = <<>> /\ remain' # 0
      BY <1>8, <1>10, <1>12, <1>13, <2>1
    <3>2. Ahead' # 0 /\ Ahead' > 0 /\ Byte(1)' = <<k, z - remain' + 1>>
      BY <1>15, <1>18, <2>1, <3>1
    <3> QED
      BY <1>7, <1>12, <1>14, <1>17, <3>1, <3>2 DEF AtFront
  <2>2. CASE ~(h <= z - 1)
    <3>1. remain' = 0
      BY <1>8, <1>10, <1>12, <2>2
    <3> QED
      BY <1>12, <1>14, <1>18, <2>2, <3>1 DEF AtFront
  <2> QED
    BY <2>1, <2>2
<1>20. Bot!Deciding' = IF sent[k] \in DOMAIN Bot!Means THEN Bot!Deciding \cup {k} ELSE Bot!Deciding
  BY <1>12, <1>14 DEF Bot!Deciding
<1>21. \A j \in Bot!Deciding : j \in Nat /\ j <= k
  BY <1>14 DEF Bot!Deciding
<1>22. StateFollows'
  <2>1. CASE sent[k] \in DOMAIN Bot!Means
    <3>1. state' = Bot!Means[sent[k]] /\ k \in Bot!Deciding'
          /\ \A j \in Bot!Deciding' : j <= k
      BY <1>12, <1>20, <1>21, <2>1, MeansFacts
    <3> QED
      BY <1>12, <3>1 DEF StateFollows
  <2>2. CASE sent[k] \notin DOMAIN Bot!Means
    <3>1. state' = state /\ Bot!Deciding' = Bot!Deciding
      BY <1>12, <1>20, <2>2, MeansFacts
    <3> QED
      BY <1>12, <3>1 DEF StateFollows, BotFollows
  <2> QED
    BY <2>1, <2>2
<1> QED
  BY <1>15, <1>16, <1>19, <1>22 DEF BotFollows

(* A function on the first numbers is a sequence. *)
LEMMA Tabulated ==
  ASSUME NEW S, NEW z \in Nat, NEW f \in [1 .. z -> S]
  PROVE  f \in Seq(S) /\ Len(f) = z
  OBVIOUS

(* Sequences that are joined. *)
LEMMA Joined ==
  ASSUME NEW S, NEW s \in Seq(S), NEW t \in Seq(S), NEW r, r = s \o t
  PROVE  /\ r \in Seq(S) /\ Len(r) = Len(s) + Len(t)
         /\ \A i \in 1 .. Len(s) : r[i] = s[i]
         /\ \A j \in 1 .. Len(t) : r[Len(s) + j] = t[j]
<1>1. r \in Seq(S) /\ Len(r) = Len(s) + Len(t)
  OBVIOUS
<1>2. \A i \in 1 .. Len(s) : r[i] = s[i]
  OBVIOUS
<1>3. \A j \in 1 .. Len(t) : r[Len(s) + j] = t[j]
  OBVIOUS
<1> QED
  BY <1>1, <1>2, <1>3

(* A packet joins the bytes. *)
LEMMA SendAdds ==
  ASSUME Bot!BotAssumption, BotShape, NEW kind \in DOMAIN PacketSize, Bot!ServerSends(kind),
         NEW m \in Nat, m = Len(sent) + 1, NEW z \in Nat, z = PacketSize[kind]
  PROVE  /\ z > 0 /\ Ahead' = Ahead + z
         /\ sent' \in Seq(DOMAIN PacketSize) /\ wire' \in Seq(Places)
         /\ Len(sent') = m /\ sent'[m] = kind /\ \A k \in 1 .. m - 1 : sent'[k] = sent[k]
         /\ \A i \in 1 .. Ahead : Byte(i)' = Byte(i)
         /\ \A x \in Nat : Ahead < x /\ x <= Ahead + z => Byte(x)' = <<m, x - Ahead>>
<1>1. /\ sent \in Seq(DOMAIN PacketSize) /\ wire \in Seq(Places) /\ rest \in Seq(Places)
      /\ Len(wire) \in Nat /\ Len(rest) \in Nat /\ Len(sent) \in Nat
  BY DEF BotShape
<1>2. z > 0
  BY DEF Bot!BotAssumption
<1>3. PICK f : f = [j \in 1 .. z |-> <<m, j>>]
  OBVIOUS
<1>4. /\ sent' = Append(sent, kind) /\ wire' = wire \o f /\ rest' = rest
  BY <1>3 DEF Bot!ServerSends
<1>5. f \in Seq(Places) /\ Len(f) = z /\ \A j \in 1 .. z : f[j] = <<m, j>>
  <2>1. \A j \in 1 .. z : <<m, j>> \in Places
    BY DEF Places
  <2>2. f \in [1 .. z -> Places] /\ \A j \in 1 .. z : f[j] = <<m, j>>
    BY <1>3, <2>1
  <2> QED
    BY <2>2, Tabulated
<1>6. /\ wire' \in Seq(Places) /\ Len(wire') = Len(wire) + z
      /\ \A i \in 1 .. Len(wire) : wire'[i] = wire[i]
      /\ \A j \in 1 .. z : wire'[Len(wire) + j] = <<m, j>>
  <2>1. PICK w : w = wire'
    OBVIOUS
  <2>2. /\ w \in Seq(Places) /\ Len(w) = Len(wire) + Len(f)
        /\ \A i \in 1 .. Len(wire) : w[i] = wire[i]
        /\ \A j \in 1 .. Len(f) : w[Len(wire) + j] = f[j]
    <3>1. wire \in Seq(Places) /\ f \in Seq(Places) /\ w = wire \o f
      BY <1>1, <1>4, <1>5, <2>1
    <3> QED
      BY <3>1, Joined
  <2> QED
    BY <1>5, <2>1, <2>2
<1>7. /\ sent' \in Seq(DOMAIN PacketSize) /\ Len(sent') = m /\ sent'[m] = kind
      /\ \A k \in 1 .. m - 1 : sent'[k] = sent[k]
  BY <1>1, <1>4
<1>8. Ahead' = Ahead + z
  <2>1. Ahead' = Len(rest) + Len(wire')
    BY <1>4 DEF Ahead
  <2>2. PICK w : w = Len(wire')
    OBVIOUS
  <2>3. w = Len(wire) + z
    BY <1>6, <2>2
  <2> QED
    BY <1>1, <2>1, <2>2, <2>3 DEF Ahead
<1>9. ASSUME NEW i \in 1 .. Ahead PROVE Byte(i)' = Byte(i)
  <2>1. CASE i <= Len(rest)
    BY <1>4, <2>1 DEF Byte
  <2>2. CASE ~(i <= Len(rest))
    <3>1. i - Len(rest) \in 1 .. Len(wire)
      BY <1>1, <2>2 DEF Ahead
    <3> QED
      BY <1>4, <1>6, <2>2, <3>1 DEF Byte
  <2> QED
    BY <2>1, <2>2
<1>10. ASSUME NEW x \in Nat, Ahead < x, x <= Ahead + z PROVE Byte(x)' = <<m, x - Ahead>>
  <2>0. PICK r \in Nat, w \in Nat : r = Len(rest) /\ w = Len(wire)
    BY <1>1
  <2>1. PICK j \in Int : j = x - (r + w)
    OBVIOUS
  <2>2. /\ j \in 1 .. z /\ x = Ahead + j /\ x - Ahead = j
        /\ ~(x <= Len(rest)) /\ x - Len(rest) = Len(wire) + j
    <3>1. Ahead = r + w
      BY <2>0 DEF Ahead
    <3>2. j \in 1 .. z /\ x = r + w + j /\ ~(x <= r) /\ x - r = w + j
      BY <1>10, <2>1, <3>1
    <3> QED
      BY <2>0, <2>1, <3>1, <3>2
  <2>3. wire'[x - Len(rest)] = <<m, j>>
    BY <1>6, <2>2
  <2> QED
    BY <1>4, <2>2, <2>3 DEF Byte
<1> QED
  BY <1>2, <1>6, <1>7, <1>8, <1>9, <1>10

(* The server sends a packet. *)
LEMMA SendFollows ==
  ASSUME Bot!BotAssumption, BotFollows, NEW kind \in DOMAIN PacketSize, Bot!ServerSends(kind)
  PROVE  BotFollows'
<1>1. /\ BotShape /\ InOrder /\ AtFront /\ remain \in Nat /\ Len(parsed) \in Nat
      /\ Len(sent) \in Nat /\ Ahead \in Nat /\ DOMAIN sent = 1 .. Len(sent)
      /\ Len(parsed) <= Len(sent) /\ DOMAIN parsed = 1 .. Len(parsed)
  <2>1. BotShape /\ InOrder /\ AtFront
    BY DEF BotFollows
  <2>2. remain \in Nat /\ Len(parsed) <= Len(sent) /\ DOMAIN parsed = 1 .. Len(parsed)
    BY <2>1 DEF BotShape
  <2> QED
    BY <2>1, <2>2, SizesPositive
<1>2. PICK m \in Nat, z \in Nat : m = Len(sent) + 1 /\ z = PacketSize[kind]
  BY <1>1 DEF Bot!BotAssumption
<1>3. /\ z > 0 /\ Ahead' = Ahead + z
      /\ sent' \in Seq(DOMAIN PacketSize) /\ wire' \in Seq(Places)
      /\ Len(sent') = m /\ sent'[m] = kind /\ \A k \in 1 .. m - 1 : sent'[k] = sent[k]
      /\ \A i \in 1 .. Ahead : Byte(i)' = Byte(i)
      /\ \A x \in Nat : Ahead < x /\ x <= Ahead + z => Byte(x)' = <<m, x - Ahead>>
  BY <1>1, <1>2, SendAdds
<1>4. /\ rest' = rest /\ remain' = remain /\ parsed' = parsed /\ state' = state /\ late' = late
      /\ receive' = receive
  BY DEF Bot!ServerSends
<1>5. /\ DOMAIN sent' = 1 .. m /\ DOMAIN sent \subseteq DOMAIN sent' /\ m \in DOMAIN sent'
      /\ SizeAt(m)' = z /\ \A k \in DOMAIN sent : SizeAt(k)' = SizeAt(k)
  <2>1. DOMAIN sent' = 1 .. m
    BY <1>3
  <2>2. \A k \in DOMAIN sent : sent'[k] = sent[k] /\ k \in 1 .. m
    BY <1>1, <1>2, <1>3
  <2> QED
    BY <1>2, <1>3, <2>1, <2>2 DEF SizeAt
<1>6. BotShape'
  BY <1>1, <1>2, <1>3, <1>4 DEF BotShape
<1>7. InOrder'
  <2> SUFFICES ASSUME NEW i \in 1 .. Ahead'
               PROVE  \E k \in DOMAIN sent' : \E j \in 1 .. SizeAt(k)' : Whole(i, k, j)'
    BY DEF InOrder
  <2>0. i \in Nat /\ i > 0 /\ i <= Ahead + z
    BY <1>1, <1>3
  <2>1. CASE i <= Ahead
    <3>1. PICK k \in DOMAIN sent : \E j \in 1 .. SizeAt(k) : Whole(i, k, j)
      BY <1>1, <2>0, <2>1 DEF InOrder
    <3>2. PICK j \in 1 .. SizeAt(k) : Whole(i, k, j)
      BY <3>1
    <3>3. SizeAt(k) \in Nat
      BY <1>1, SizesPositive
    <3>4. PICK e \in Nat : e = SizeAt(k) - j
      BY <3>3
    <3>5. /\ i + e <= Ahead
          /\ \A d \in 0 .. e : Byte(i + d) = <<k, j + d>>
          /\ i + e < Ahead => Byte(i + e + 1) = <<k + 1, 1>>
          /\ i + e = Ahead => k = Len(sent)
      <4>1. i + SizeAt(k) - j = i + e /\ i + SizeAt(k) - j + 1 = i + e + 1
        BY <2>0, <3>3, <3>4
      <4> QED
        BY <3>2, <3>4, <4>1 DEF Whole
    <3>6. i + e < Ahead' /\ i + e <= Ahead' /\ ~(i + e = Ahead')
      BY <1>1, <1>3, <2>0, <3>5
    <3>7. ASSUME NEW d \in 0 .. e PROVE Byte(i + d)' = <<k, j + d>>
      <4>1. i + d \in 1 .. Ahead
        BY <1>1, <2>0, <3>5
      <4> QED
        BY <1>3, <3>5, <4>1
    <3>8. Byte(i + e + 1)' = <<k + 1, 1>>
      <4>1. CASE i + e < Ahead
        <5>1. i + e + 1 \in 1 .. Ahead
          BY <1>1, <2>0, <4>1
        <5> QED
          BY <1>3, <3>5, <4>1, <5>1
      <4>2. CASE i + e = Ahead
        <5>1. PICK x \in Nat : x = i + e + 1
          BY <2>0
        <5>2. Ahead < x /\ x <= Ahead + z /\ x - Ahead = 1
          <6>1. PICK a \in Nat : a = Ahead
            BY <1>1
          <6>2. x = a + 1
            BY <4>2, <5>1, <6>1
          <6>3. a < x /\ x <= a + z /\ x - a = 1
            BY <1>3, <6>2
          <6> QED
            BY <6>1, <6>3
        <5>3. Byte(x)' = <<m, 1>>
          BY <1>3, <5>2
        <5> QED
          BY <1>2, <3>5, <4>2, <5>1, <5>3
      <4> QED
        BY <1>1, <2>0, <3>5, <4>1, <4>2
    <3>9. i + SizeAt(k)' - j = i + e /\ i + SizeAt(k)' - j + 1 = i + e + 1
          /\ SizeAt(k)' - j = e
      BY <1>5, <2>0, <3>3, <3>4
    <3>10. Whole(i, k, j)'
      BY <3>6, <3>7, <3>8, <3>9 DEF Whole
    <3> QED
      BY <1>5, <3>10
  <2>2. CASE ~(i <= Ahead)
    <3>1. PICK j \in Nat : j = i - Ahead
      BY <1>1, <2>0, <2>2
    <3>2. j \in 1 .. z
      BY <1>1, <2>0, <2>2, <3>1
    <3>3. PICK e \in Nat : e = z - j
      BY <3>2
    <3>4. i + e = Ahead' /\ i + e <= Ahead' /\ ~(i + e < Ahead')
      BY <1>1, <1>3, <2>0, <3>1, <3>3
    <3>5. ASSUME NEW d \in 0 .. e PROVE Byte(i + d)' = <<m, j + d>>
      <4>1. PICK x \in Nat : x = i + d
        BY <2>0
      <4>2. Ahead < x /\ x <= Ahead + z /\ x - Ahead = j + d
        BY <1>1, <2>0, <2>2, <3>1, <3>3, <4>1
      <4> QED
        BY <1>3, <4>1, <4>2
    <3>6. i + z - j = i + e
      BY <2>0, <3>2, <3>3
    <3>7. Whole(i, m, j)'
      BY <1>3, <1>5, <3>3, <3>4, <3>5, <3>6 DEF Whole
    <3> QED
      BY <1>5, <3>2, <3>7
  <2> QED
    BY <2>1, <2>2
<1>8. AtFront'
  <2>1. Ahead' # 0 /\ Ahead' > 0
    BY <1>1, <1>3
  <2>2. CASE Ahead > 0
    <3>1. Byte(1)' = Byte(1)
      <4>1. 1 \in 1 .. Ahead
        BY <1>1, <2>2
      <4> QED
        BY <1>3, <4>1
    <3> QED
      BY <1>1, <1>4, <1>5, <2>1, <2>2, <3>1 DEF AtFront
  <2>3. CASE Ahead = 0
    <3>1. ~(remain > 0) /\ Len(parsed) = Len(sent)
      BY <1>1, <2>3 DEF AtFront
    <3>2. Byte(1)' = <<m, 1>>
      <4>1. Ahead < 1 /\ 1 <= Ahead + z /\ 1 - Ahead = 1
        BY <1>3, <2>3
      <4> QED
        BY <1>3, <4>1
    <3> QED
      BY <1>2, <1>4, <2>1, <3>1, <3>2 DEF AtFront
  <2> QED
    BY <1>1, <2>2, <2>3
<1>9. StateFollows'
  <2>1. Bot!Deciding' = Bot!Deciding /\ \A k \in Bot!Deciding : sent'[k] = sent[k]
    <3>1. \A k \in DOMAIN parsed : sent'[k] = sent[k]
      BY <1>1, <1>2, <1>3
    <3> QED
      BY <1>4, <3>1 DEF Bot!Deciding
  <2> QED
    BY <1>4, <2>1 DEF BotFollows, StateFollows
<1> QED
  BY <1>6, <1>7, <1>8, <1>9 DEF BotFollows

(* Every step of the bot keeps the invariant. *)
LEMMA NextBot ==
  ASSUME Bot!BotAssumption, BotFollows, [Bot!Next]_botVars PROVE BotFollows'
<1>1. CASE \/ Bot!Connect \/ Bot!SendHandshake \/ Bot!SetRequested \/ Bot!SendBlock
           \/ Bot!ReceiveEnds \/ UNCHANGED botVars
  BY <1>1, OtherSteps
<1>2. ASSUME NEW kind \in DOMAIN PacketSize, Bot!ServerSends(kind) PROVE BotFollows'
  BY <1>2, SendFollows
<1>3. ASSUME NEW n \in 1 .. Cut, Bot!Receive(n) PROVE BotFollows'
  <2>1. n \in Nat
    BY DEF Bot!BotAssumption
  <2> QED
    BY <1>3, <2>1, ReceiveFollows
<1>4. CASE Bot!ParsePacket
  BY <1>4, ParseFollows
<1> QED
  BY <1>1, <1>2, <1>3, <1>4 DEF Bot!Next

Following == part = "bot" => BotFollows

(* The bot keeps its invariant among the other parts. *)
LEMMA NextFollowing == Following /\ [ServersNext]_allVars => Following'
<1> SUFFICES ASSUME Following, [ServersNext]_allVars, part' = "bot"
             PROVE  BotFollows'
  BY DEF Following
<1>0. Bot!BotAssumption
  BY ServersAssumption DEF ServersAssumption
<1>1. CASE OnBot(Bot!Next)
  BY <1>0, <1>1, NextBot DEF Following, OnBot
<1>2. CASE UNCHANGED <<part, botVars>>
  <2>1. UNCHANGED botVars
    BY <1>2
  <2>2. BotFollows
    BY <1>2 DEF Following
  <2> QED
    BY <1>0, <2>1, <2>2, NextBot
<1> QED
  BY <1>1, <1>2 DEF ServersNext, allVars, OnDirectory, OnCodec, OnCommand, OnMessages, OnLoop

(* The state of a bot is what the last packet with something to say of it  *)
(* says, for packets of any sizes and receives cut anywhere, unless the    *)
(* worker's set_state came after that packet.                              *)
THEOREM BotIsInStep == ServersSpec => []StateFollowsServer
<1>1. ServersInit => Following
  BY InitBot DEF ServersInit, Following
<1>2. Following => StateFollowsServer
  BY DEF Following, BotFollows, StateFollows, StateFollowsServer, Bot!StateFollowsServer
<1> QED
  BY <1>1, <1>2, NextFollowing, PTL DEF ServersSpec

----------------------------------------------------------------------------
(* The commands.  Each set of natural numbers has a least one.             *)
Below == {ss \in Nat \X Nat : ss[1] < ss[2]}

(* A set of natural numbers has a least one, by the library's induction. *)
LEMMA Least ==
  ASSUME NEW S \in SUBSET Nat, S # {}
  PROVE  \E m \in S : \A k \in S : m <= k
<1>1. Below = OpToRel(<, Nat)
  BY DEF Below, OpToRel
<1>2. IsWellFoundedOn(Below, Nat)
  BY <1>1, NatLessThanWellFounded
<1>3. PICK m \in S : \A k \in S : ~ (<<k, m>> \in Below)
  BY <1>2, WFMin
<1>4. ASSUME NEW k \in S PROVE m <= k
  <2>1. k \in Nat /\ m \in Nat
    OBVIOUS
  <2>2. k < m => <<k, m>> \in Below
    BY <2>1 DEF Below
  <2> QED
    BY <1>3, <2>1, <2>2
<1> QED
  BY <1>4

(* What the copy of a command looks like when the scan has come to p.      *)
Scanned(p) ==
    [i \in 1 .. CommandSize |->
       IF i > Len(command) \/ (i < p /\ command[i] \in Command!Blank) THEN Command!Zero
       ELSE command[i]]

(* A command ends in a letter or in a tab.                                 *)
Ending(x) == x \in Command!Blank => x = "tab"

CommandShape ==
    /\ command \in Seq(Command!Characters) /\ Len(command) \in 1 .. CommandSize
    /\ command[1] \notin Command!Blank /\ Ending(command[Len(command)])
    /\ scan.at \in 1 .. CommandSize + 1 /\ buffer = Scanned(scan.at)
    /\ scan.split <=> \/ scan.at = 1
                      \/ scan.at <= Len(command) + 1 /\ command[scan.at - 1] \in Command!Blank

(* f lists the elements of S below p in their order.                       *)
Lists(f, S, p) ==
    /\ \A x \in DOMAIN f : f[x] \in S /\ f[x] < p
    /\ \A x, y \in DOMAIN f : x < y => f[x] < f[y]
    /\ \A i \in S : i < p => \E x \in DOMAIN f : f[x] = i

(* The tokens are the words that begin before the scan, in their order.    *)
TokensBegin ==
    /\ tokens \in Seq(1 .. Len(command))
    /\ Lists(tokens, Command!Starts(command), scan.at)

Decision ==
    IF Len(tokens) = 3 /\ Command!Token(tokens[1]) = <<Command!Program>>
    THEN [kind |-> "message", to |-> Command!Copied(Command!Token(tokens[2])),
          text |-> Command!Token(tokens[3])]
    ELSE [kind |-> "error", to |-> <<>>, text |-> <<>>]

CommandKept ==
    /\ CommandShape
    /\ command[Len(command)] # "tab" => TokensBegin
    /\ answer.kind # "none" => scan.at = CommandSize + 1 /\ answer = Decision

(* The list goes on when p is in S, and else stays.                        *)
LEMMA ListStays ==
  ASSUME NEW n \in Nat, NEW S \in SUBSET (1 .. n), NEW p \in Nat, p \notin S,
         NEW f \in Seq(1 .. n), Lists(f, S, p)
  PROVE  Lists(f, S, p + 1)
<1>1. \A i \in S : i \in Nat /\ (i < p + 1 => i < p) /\ (i < p => i < p + 1)
  OBVIOUS
<1> QED
  BY <1>1 DEF Lists

(* The list of the elements below p, with p, is the one below p + 1. *)
LEMMA ListGrows ==
  ASSUME NEW n \in Nat, NEW S \in SUBSET (1 .. n), NEW p \in S,
         NEW f \in Seq(1 .. n), Lists(f, S, p)
  PROVE  Append(f, p) \in Seq(1 .. n) /\ Lists(Append(f, p), S, p + 1)
<1>1. PICK m \in Nat : m = Len(f) /\ DOMAIN f = 1 .. m
  OBVIOUS
<1>2. PICK g : g = Append(f, p)
  OBVIOUS
<1>3. /\ g \in Seq(1 .. n) /\ DOMAIN g = 1 .. m + 1
      /\ g[m + 1] = p /\ \A x \in 1 .. m : g[x] = f[x]
  BY <1>1, <1>2
<1>4. p \in Nat /\ \A x \in 1 .. m : f[x] \in S /\ f[x] \in Nat /\ f[x] < p
  BY <1>1 DEF Lists
<1>5. \A x \in 1 .. m + 1 : x = m + 1 \/ x \in 1 .. m
  OBVIOUS
<1>6. ASSUME NEW x \in 1 .. m + 1 PROVE g[x] \in S /\ g[x] < p + 1
  <2>1. CASE x = m + 1
    BY <1>3, <1>4, <2>1
  <2>2. CASE x \in 1 .. m
    <3>1. g[x] = f[x]
      BY <1>3, <2>2
    <3> QED
      BY <1>4, <2>2, <3>1
  <2> QED
    BY <1>5, <2>1, <2>2
<1>7. ASSUME NEW x \in 1 .. m + 1, NEW y \in 1 .. m + 1, x < y
      PROVE  g[x] < g[y]
  <2>1. x \in 1 .. m
    BY <1>7
  <2>2. CASE y = m + 1
    BY <1>3, <1>4, <2>1, <2>2
  <2>3. CASE y \in 1 .. m
    BY <1>1, <1>3, <1>7, <2>1, <2>3 DEF Lists
  <2> QED
    BY <1>5, <2>2, <2>3
<1>8. ASSUME NEW i \in S, i < p + 1
      PROVE  \E x \in 1 .. m + 1 : g[x] = i
  <2>1. CASE i = p
    BY <1>3, <2>1
  <2>2. CASE i # p
    <3>1. i < p
      BY <1>8, <2>2
    <3>2. PICK x \in 1 .. m : f[x] = i
      BY <1>1, <3>1 DEF Lists
    <3> QED
      BY <1>3, <3>2
  <2> QED
    BY <2>1, <2>2
<1> QED
  BY <1>2, <1>3, <1>6, <1>7, <1>8 DEF Lists

(* The final zero is no character of a command. *)
LEMMA CharacterFacts ==
  ASSUME Command!CommandAssumption
  PROVE  /\ Command!Zero \notin Command!Blank /\ Command!Zero \notin Command!Characters
         /\ CommandSize \in Nat
<1>1. Command!Zero \notin Command!Blank
  BY Zenon DEF Command!Zero, Command!Blank
<1> QED
  BY <1>1 DEF Command!CommandAssumption, Command!Characters

(* Where the copy has a zero, and what it has elsewhere. *)
LEMMA ScannedFacts ==
  ASSUME Command!CommandAssumption, command \in Seq(Command!Characters), NEW p, NEW s,
         s = Scanned(p), NEW i \in 1 .. CommandSize
  PROVE  /\ s[i] = Command!Zero <=> i > Len(command) \/ (i < p /\ command[i] \in Command!Blank)
         /\ s[i] # Command!Zero => s[i] = command[i]
<1>1. s[i] = IF i > Len(command) \/ (i < p /\ command[i] \in Command!Blank)
             THEN Command!Zero ELSE command[i]
  BY DEF Scanned
<1>2. i <= Len(command) => command[i] \in Command!Characters
  OBVIOUS
<1> QED
  BY <1>1, <1>2, CharacterFacts

(* What a command looks like when it arrives. *)
LEMMA TypedFacts ==
  ASSUME Command!CommandAssumption, NEW text \in Command!Typed
  PROVE  /\ text \in Seq(Command!Characters) /\ Len(text) \in 1 .. CommandSize
         /\ text[1] \notin Command!Blank /\ Ending(text[Len(text)])
<1>1. PICK n \in 1 .. CommandSize : text \in [1 .. n -> Command!Characters]
  BY Zenon DEF Command!Typed
<1>2. text[1] \notin Command!Blank /\ Ending(text[Len(text)])
  BY Zenon DEF Command!Typed, Command!Blank, Ending
<1>3. n \in Nat
  BY <1>1, CharacterFacts
<1>4. text \in Seq(Command!Characters) /\ Len(text) = n
  BY <1>1, <1>3
<1> QED
  BY <1>1, <1>2, <1>4

(* The copy of a new command is not scanned yet. *)
LEMMA InitCommand ==
  ASSUME Command!CommandAssumption, Command!Init
  PROVE  CommandKept
<1>1. /\ command \in Seq(Command!Characters) /\ Len(command) \in 1 .. CommandSize
      /\ command[1] \notin Command!Blank /\ Ending(command[Len(command)])
  BY TypedFacts DEF Command!Init
<1>2. /\ scan = [at |-> 1, split |-> TRUE] /\ tokens = <<>>
      /\ answer = [kind |-> "none", to |-> <<>>, text |-> <<>>]
      /\ buffer = [i \in 1 .. CommandSize |-> IF i <= Len(command) THEN command[i]
                                              ELSE Command!Zero]
  BY DEF Command!Init
<1>3. scan.at = 1 /\ scan.split
  BY <1>2
<1>4. buffer = Scanned(scan.at)
  BY <1>1, <1>2, <1>3, CharacterFacts DEF Scanned
<1>5. CommandShape
  BY <1>1, <1>3, <1>4, CharacterFacts DEF CommandShape
<1>6. TokensBegin
  <2>1. tokens \in Seq(1 .. Len(command)) /\ DOMAIN tokens = {}
    BY <1>2
  <2>2. \A i \in Command!Starts(command) : ~(i < 1)
    BY <1>1 DEF Command!Starts
  <2> QED
    BY <1>3, <2>1, <2>2 DEF TokensBegin, Lists
<1> QED
  BY <1>2, <1>5, <1>6 DEF CommandKept

(* A blank becomes a zero; the word before it is over. *)
LEMMA SplitStep ==
  ASSUME Command!CommandAssumption, CommandKept, Command!Split
  PROVE  CommandKept'
<1>1. PICK p \in Nat : p = scan.at
  BY DEF CommandKept, CommandShape
<1>2. /\ p <= CommandSize /\ buffer[p] \in Command!Blank
      /\ buffer' = [buffer EXCEPT ![p] = Command!Zero]
      /\ scan'.at = p + 1 /\ scan'.split
      /\ UNCHANGED <<command, tokens, answer>>
  BY <1>1 DEF Command!Split
<1>3. CommandShape /\ buffer = Scanned(p) /\ p >= 1 /\ CommandSize \in Nat
  BY <1>1, CharacterFacts DEF CommandKept, CommandShape
<1>4. PICK n \in Nat : n = Len(command)
  BY <1>3 DEF CommandShape
<1>5. p <= n /\ command[p] \in Command!Blank
  <2>1. p \in 1 .. CommandSize
    BY <1>2, <1>3
  <2>2. buffer[p] # Command!Zero
    BY <1>2, CharacterFacts
  <2> QED
    BY <1>2, <1>3, <1>4, <2>1, <2>2, ScannedFacts DEF CommandShape
<1>6. buffer' = Scanned(p + 1)'
  <2>1. buffer' = [i \in 1 .. CommandSize |-> IF i = p THEN Command!Zero ELSE buffer[i]]
    BY <1>2, <1>3 DEF Scanned
  <2>2. \A i \in 1 .. CommandSize :
          (IF i = p THEN Command!Zero ELSE buffer[i]) =
          (IF i > n \/ (i < p + 1 /\ command[i] \in Command!Blank) THEN Command!Zero
           ELSE command[i])
    BY <1>3, <1>4, <1>5 DEF Scanned
  <2> QED
    BY <1>2, <1>4, <2>1, <2>2 DEF Scanned
<1>7. CommandShape'
  <2>1. scan'.at \in 1 .. CommandSize + 1
    BY <1>2, <1>3
  <2>2. scan'.at <= Len(command) + 1 /\ command[scan'.at - 1] \in Command!Blank
    BY <1>2, <1>4, <1>5
  <2>3. buffer' = Scanned(scan.at)'
    BY <1>2, <1>6 DEF Scanned
  <2> QED
    BY <1>2, <1>3, <2>1, <2>2, <2>3 DEF CommandShape
<1>8. p \notin Command!Starts(command)
  BY <1>5 DEF Command!Starts
<1>9. TokensBegin => TokensBegin'
  <2>1. DOMAIN command = 1 .. n
    BY <1>3, <1>4 DEF CommandShape
  <2>2. PICK S \in SUBSET (1 .. n) :
          S = Command!Starts(command) /\ S = Command!Starts(command)'
    BY <1>2, <2>1 DEF Command!Starts
  <2> QED
    BY <1>1, <1>2, <1>4, <1>8, <2>2, ListStays DEF TokensBegin
<1>10. answer'.kind = "none"
  BY <1>1, <1>2, <1>3 DEF CommandKept
<1> QED
  BY <1>2, <1>7, <1>9, <1>10 DEF CommandKept

(* A character that begins a word is listed, unless the text ended in a tab. *)
LEMMA AdvanceStep ==
  ASSUME Command!CommandAssumption, CommandKept, Command!Advance
  PROVE  CommandKept'
<1>1. PICK p \in Nat : p = scan.at
  BY DEF CommandKept, CommandShape
<1>2. /\ p <= CommandSize /\ buffer[p] \notin Command!Blank
      /\ tokens' = IF scan.split THEN Append(tokens, p) ELSE tokens
      /\ scan'.at = p + 1 /\ ~scan'.split
      /\ UNCHANGED <<command, buffer, answer>>
  BY <1>1 DEF Command!Advance
<1>3. CommandShape /\ buffer = Scanned(p) /\ p >= 1 /\ CommandSize \in Nat
  BY <1>1, CharacterFacts DEF CommandKept, CommandShape
<1>4. PICK n \in Nat : n = Len(command) /\ n >= 1 /\ DOMAIN command = 1 .. n
  BY <1>3 DEF CommandShape
<1>5. p <= n => command[p] \notin Command!Blank
  BY <1>2, <1>3, <1>4 DEF Scanned
<1>6. CommandShape'
  <2>1. scan'.at \in 1 .. CommandSize + 1
    BY <1>2, <1>3
  <2>2. ~(scan'.at <= Len(command) + 1 /\ command[scan'.at - 1] \in Command!Blank)
    BY <1>2, <1>4, <1>5
  <2>3. buffer' = Scanned(scan.at)'
    <3>1. \A i \in 1 .. CommandSize :
            (IF i > n \/ (i < p /\ command[i] \in Command!Blank) THEN Command!Zero
             ELSE command[i]) =
            (IF i > n \/ (i < p + 1 /\ command[i] \in Command!Blank) THEN Command!Zero
             ELSE command[i])
      BY <1>5
    <3> QED
      BY <1>2, <1>3, <1>4, <3>1 DEF Scanned
  <2>4. scan'.at # 1
    BY <1>2, <1>3
  <2> QED
    BY <1>2, <1>3, <2>1, <2>2, <2>3, <2>4 DEF CommandShape
<1>7. ASSUME command[Len(command)] # "tab" PROVE TokensBegin'
  <2>0. TokensBegin
    BY <1>7 DEF CommandKept
  <2>1. PICK S \in SUBSET (1 .. n) :
          S = Command!Starts(command) /\ S = Command!Starts(command)'
    BY <1>2, <1>4 DEF Command!Starts
  <2>2. scan.at = p /\ scan'.at = p + 1
    BY <1>1, <1>2
  <2>3. command[n] \notin Command!Blank
    BY <1>3, <1>4, <1>7 DEF CommandShape, Ending
  <2>4. p \in S <=> scan.split
    <3>1. p \in S <=> p <= n /\ (p = 1 \/ command[p - 1] \in Command!Blank)
      BY <1>3, <1>4, <1>5, <2>1 DEF Command!Starts
    <3>2. scan.split <=> p = 1 \/ (p <= n + 1 /\ command[p - 1] \in Command!Blank)
      BY <1>1, <1>3, <1>4 DEF CommandShape
    <3>3. p = n + 1 => command[p - 1] \notin Command!Blank
      BY <2>3
    <3> QED
      BY <1>4, <3>1, <3>2, <3>3
  <2>5. tokens \in Seq(1 .. n) /\ Lists(tokens, S, p)
    BY <1>4, <2>0, <2>1, <2>2 DEF TokensBegin
  <2>6. CASE p \notin S
    <3>1. tokens' = tokens
      BY <1>2, <2>4, <2>6
    <3> QED
      BY <1>2, <1>4, <2>1, <2>2, <2>5, <2>6, <3>1, ListStays DEF TokensBegin
  <2>7. CASE p \in S
    <3>1. tokens' = Append(tokens, p)
      BY <1>2, <2>4, <2>7
    <3> QED
      BY <1>2, <1>4, <2>1, <2>2, <2>5, <2>7, <3>1, ListGrows DEF TokensBegin
  <2> QED
    BY <2>6, <2>7
<1>8. answer'.kind = "none"
  BY <1>1, <1>2, <1>3 DEF CommandKept
<1> QED
  BY <1>2, <1>6, <1>7, <1>8 DEF CommandKept

(* The answer is decided when the scan is over. *)
LEMMA ExecuteStep ==
  ASSUME Command!CommandAssumption, CommandKept, Command!Execute
  PROVE  CommandKept'
<1>1. CommandShape /\ scan.at = CommandSize + 1
  BY CharacterFacts DEF CommandKept, CommandShape, Command!Execute
<1>2. answer' = Decision /\ UNCHANGED <<command, buffer, scan, tokens>>
  BY DEF Command!Execute, Decision
<1>3. CommandShape' /\ (TokensBegin => TokensBegin')
  BY <1>1, <1>2 DEF CommandShape, Scanned, TokensBegin, Command!Starts
<1>4. answer' = Decision'
  BY <1>2 DEF Decision, Command!Token
<1> QED
  BY <1>1, <1>2, <1>3, <1>4 DEF CommandKept

(* Nothing else is read. *)
LEMMA StutterCommand == CommandKept /\ UNCHANGED commandVars => CommandKept'
BY DEF CommandKept, CommandShape, Scanned, TokensBegin, Command!Starts, Decision,
       Command!Token, commandVars

(* Behind the scan a token is the word that begins there.                  *)
LEMMA TokenIsWord ==
  ASSUME Command!CommandAssumption, CommandShape, scan.at = CommandSize + 1,
         NEW i \in Command!Starts(command)
  PROVE  Command!Token(i) = Command!Word(command, i)
<1>1. PICK n \in Nat : n = Len(command) /\ n >= 1 /\ n <= CommandSize /\ DOMAIN command = 1 .. n
  BY DEF CommandShape
<1>2. CommandSize \in Nat /\ i \in 1 .. n /\ command[i] \notin Command!Blank
  BY <1>1, CharacterFacts DEF Command!Starts
<1>3. /\ \A j \in 1 .. CommandSize :
           /\ buffer[j] = Command!Zero <=> j > n \/ command[j] \in Command!Blank
           /\ buffer[j] # Command!Zero => buffer[j] = command[j]
  BY <1>1, <1>2, ScannedFacts DEF CommandShape
<1>4. PICK Zeros : Zeros = {j \in i .. CommandSize : buffer[j] = Command!Zero}
                             \cup {CommandSize + 1}
  OBVIOUS
<1>5. Zeros \in SUBSET Nat /\ Zeros # {}
  BY <1>2, <1>4
<1>6. PICK m \in Zeros : \A k \in Zeros : m <= k
  BY <1>5, Least
<1>7. m \in Nat /\ i < m /\ m <= CommandSize + 1
  <2>1. m \in i .. CommandSize + 1 /\ CommandSize + 1 \in Zeros
    BY <1>1, <1>2, <1>4
  <2>2. buffer[i] # Command!Zero
    BY <1>1, <1>2, <1>3
  <2>3. m # i
    BY <1>1, <1>2, <1>4, <2>2
  <2> QED
    BY <1>2, <2>1, <2>3
<1>8. Command!Min(Zeros) = m
  <2>1. \A k \in Zeros : k \in Nat
    BY <1>5
  <2> QED
    BY <1>6, <2>1 DEF Command!Min
<1>9. \A k \in i .. m - 1 : /\ k <= n /\ command[k] \notin Command!Blank
                            /\ buffer[k] = command[k]
  <2>1. ASSUME NEW k \in i .. m - 1
        PROVE  k <= n /\ command[k] \notin Command!Blank /\ buffer[k] = command[k]
    <3>1. k \in i .. CommandSize /\ k \in 1 .. CommandSize /\ k < m
      BY <1>2, <1>7
    <3>2. k \notin Zeros
      BY <1>6, <3>1, <1>7
    <3>3. buffer[k] # Command!Zero
      BY <1>4, <3>1, <3>2
    <3> QED
      BY <1>1, <1>3, <3>1, <3>3
  <2> QED
    BY <2>1
<1>10. PICK E : E = {j \in i .. n : \A k \in i .. j : command[k] \notin Command!Blank}
  OBVIOUS
<1>11. m - 1 \in E
  BY <1>1, <1>2, <1>7, <1>9, <1>10
<1>12. \A j \in E : j <= m - 1
  <2>1. ASSUME NEW j \in E, j > m - 1 PROVE FALSE
    <3>1. j \in i .. n /\ m \in i .. j /\ m \in 1 .. CommandSize /\ m <= n
      BY <1>1, <1>2, <1>7, <1>10, <2>1
    <3>2. buffer[m] = Command!Zero
      BY <1>2, <1>4, <1>6, <3>1
    <3>3. command[m] \in Command!Blank
      BY <1>1, <1>3, <3>1, <3>2
    <3> QED
      BY <1>10, <2>1, <3>1, <3>3
  <2>2. \A j \in E : j \in Int
    BY <1>10
  <2> QED
    BY <1>7, <2>1, <2>2
<1>13. Command!Max(E) = m - 1
  <2>1. \A j \in E : j \in Int
    BY <1>10
  <2> QED
    BY <1>7, <1>11, <1>12, <2>1 DEF Command!Max
<1>14. /\ Command!Token(i) = SubSeq(buffer, i, m - 1)
       /\ Command!Word(command, i) = SubSeq(command, i, m - 1)
  BY <1>1, <1>4, <1>8, <1>10, <1>13 DEF Command!Token, Command!Word, Command!End
<1>15. SubSeq(buffer, i, m - 1) = SubSeq(command, i, m - 1)
  <2>1. SubSeq(buffer, i, m - 1) = [k \in 1 .. m - i |-> buffer[k + i - 1]]
    BY <1>2, <1>7
  <2>2. SubSeq(command, i, m - 1) = [k \in 1 .. m - i |-> command[k + i - 1]]
    BY <1>2, <1>7
  <2>3. \A k \in 1 .. m - i : buffer[k + i - 1] = command[k + i - 1]
    BY <1>2, <1>7, <1>9
  <2> QED
    BY <2>1, <2>2, <2>3
<1> QED
  BY <1>14, <1>15

(* Three positions in order are listed by a list of three.                 *)
LEMMA ListOfThree ==
  ASSUME NEW n \in Nat, NEW f \in Seq(1 .. n), NEW p \in Nat, n < p,
         NEW i \in 1 .. n, NEW j \in 1 .. n, NEW k \in 1 .. n, i < j, j < k,
         Lists(f, {i, j, k}, p)
  PROVE  Len(f) = 3 /\ f[1] = i /\ f[2] = j /\ f[3] = k
<1>1. PICK m \in Nat : m = Len(f) /\ DOMAIN f = 1 .. m
  OBVIOUS
<1>0. \A x, y \in 1 .. m : x < y => f[x] < f[y]
  BY <1>1 DEF Lists
<1>2. \A x \in 1 .. m : f[x] \in {i, j, k} /\ f[x] \in Nat
  <2>1. \A x \in 1 .. m : f[x] \in {i, j, k}
    BY <1>1 DEF Lists
  <2> QED
    BY <1>1, <2>1
<1>3. PICK a \in 1 .. m, b \in 1 .. m, c \in 1 .. m : f[a] = i /\ f[b] = j /\ f[c] = k
  <2>1. i < p /\ j < p /\ k < p
    OBVIOUS
  <2> QED
    BY <1>1, <2>1 DEF Lists
<1>4. a < b /\ b < c
  <2>1. ~(b < a) /\ ~(c < b) /\ a # b /\ b # c
    <3>1. /\ b < a => f[b] < f[a]
          /\ c < b => f[c] < f[b]
      BY <1>0
    <3> QED
      BY <1>3, <3>1
  <2> QED
    BY <1>1, <2>1
<1>5. ASSUME NEW x \in 1 .. m PROVE x = a \/ x = b \/ x = c
  <2>1. ASSUME NEW y \in 1 .. m, f[x] = f[y] PROVE x = y
    <3>1. /\ x < y => f[x] < f[y]
          /\ y < x => f[y] < f[x]
      BY <1>0
    <3> QED
      BY <1>1, <1>2, <2>1, <3>1
  <2> QED
    BY <1>2, <1>3, <2>1
<1>6. m >= 3 /\ a \in Nat /\ b \in Nat /\ c \in Nat
  BY <1>1, <1>4
<1>7. 1 \in {a, b, c} /\ 2 \in {a, b, c} /\ m \in {a, b, c} /\ m - 1 \in {a, b, c}
  <2>1. 1 \in 1 .. m /\ 2 \in 1 .. m /\ m \in 1 .. m /\ m - 1 \in 1 .. m
    BY <1>6
  <2> QED
    BY <1>5, <2>1
<1>8. a = 1 /\ b = 2 /\ c = m /\ b = m - 1
  <2>1. c = m
    BY <1>1, <1>4, <1>6, <1>7
  <2>2. a = 1
    BY <1>1, <1>4, <1>6, <1>7
  <2>3. b = 2 /\ b = m - 1
    BY <1>1, <1>4, <1>6, <1>7, <2>1, <2>2
  <2> QED
    BY <2>1, <2>2, <2>3
<1>9. m = 3
  BY <1>8
<1> QED
  BY <1>1, <1>3, <1>8, <1>9

(* A list of three orders the positions it lists.                          *)
LEMMA ThreeListed ==
  ASSUME NEW n \in Nat, NEW S \in SUBSET (1 .. n), NEW f \in Seq(S), NEW p \in Nat, n < p,
         Lists(f, S, p), Len(f) = 3
  PROVE  /\ f[1] \in S /\ f[2] \in S /\ f[3] \in S /\ f[1] < f[2] /\ f[2] < f[3]
         /\ S = {f[1], f[2], f[3]}
<1>1. DOMAIN f = 1 .. 3 /\ f[1] \in S /\ f[2] \in S /\ f[3] \in S
  OBVIOUS
<1>2. f[1] < f[2] /\ f[2] < f[3]
  BY <1>1 DEF Lists
<1>3. ASSUME NEW i \in S PROVE i \in {f[1], f[2], f[3]}
  <2>1. i < p
    OBVIOUS
  <2>2. PICK x \in 1 .. 3 : f[x] = i
    BY <1>1, <2>1 DEF Lists
  <2>3. x = 1 \/ x = 2 \/ x = 3
    OBVIOUS
  <2> QED
    BY <2>2, <2>3
<1> QED
  BY <1>1, <1>2, <1>3

(* The answer of a command that is kept is the direct message it says.     *)
LEMMA CommandAnswer ==
  ASSUME Command!CommandAssumption, CommandKept
  PROVE  Command!MessageIsThirdWord
<1> SUFFICES ASSUME command[Len(command)] # "tab", answer.kind # "none"
             PROVE  IF \E i, j, k \in Command!Starts(command) :
                          Command!IsDirect(command, i, j, k)
                    THEN \E i, j, k \in Command!Starts(command) :
                            /\ Command!IsDirect(command, i, j, k)
                            /\ answer = [kind |-> "message",
                                         to |-> Command!Copied(Command!Word(command, j)),
                                         text |-> Command!Word(command, k)]
                    ELSE answer.kind = "error"
  BY DEF Command!MessageIsThirdWord
<1>1. CommandShape /\ TokensBegin /\ scan.at = CommandSize + 1 /\ answer = Decision
  BY DEF CommandKept
<1>2. PICK n \in Nat : n = Len(command) /\ n <= CommandSize /\ DOMAIN command = 1 .. n
  BY <1>1 DEF CommandShape
<1>3. PICK p \in Nat : p = scan.at /\ n < p
  BY <1>1, <1>2, CharacterFacts
<1>4. PICK S \in SUBSET (1 .. n) : S = Command!Starts(command)
  BY <1>2 DEF Command!Starts
<1>5. PICK f \in Seq(1 .. n) : f = tokens /\ Lists(f, S, p)
  BY <1>1, <1>2, <1>3, <1>4 DEF TokensBegin
<1>6. \A i \in S : Command!Token(i) = Command!Word(command, i)
  BY <1>1, <1>4, TokenIsWord
<1>7. ASSUME NEW i \in S, NEW j \in S, NEW k \in S, Command!IsDirect(command, i, j, k)
      PROVE  answer = [kind |-> "message", to |-> Command!Copied(Command!Word(command, j)),
                       text |-> Command!Word(command, k)]
  <2>1. i < j /\ j < k /\ S = {i, j, k} /\ Command!Word(command, i) = <<Command!Program>>
    BY <1>4, <1>7 DEF Command!IsDirect
  <2>2. Len(f) = 3 /\ f[1] = i /\ f[2] = j /\ f[3] = k
    <3>1. i \in 1 .. n /\ j \in 1 .. n /\ k \in 1 .. n
      OBVIOUS
    <3>2. Lists(f, {i, j, k}, p)
      BY <1>5, <2>1
    <3>3. n < p /\ i < j /\ j < k
      BY <1>3, <2>1
    <3> QED
      BY ONLY <3>1, <3>2, <3>3, n \in Nat, p \in Nat, f \in Seq(1 .. n), ListOfThree
  <2>3. Len(tokens) = 3 /\ tokens[1] = i /\ tokens[2] = j /\ tokens[3] = k
    BY <1>5, <2>2
  <2>4. /\ Command!Token(tokens[1]) = <<Command!Program>>
        /\ Command!Token(tokens[2]) = Command!Word(command, j)
        /\ Command!Token(tokens[3]) = Command!Word(command, k)
    <3>1. i \in S /\ j \in S /\ k \in S
      OBVIOUS
    <3> QED
      BY <1>6, <2>1, <2>3, <3>1
  <2>5. Decision = [kind |-> "message", to |-> Command!Copied(Command!Token(tokens[2])),
                    text |-> Command!Token(tokens[3])]
    BY <2>3, <2>4 DEF Decision
  <2> QED
    BY <1>1, <2>4, <2>5
<1>8. ASSUME Len(tokens) = 3, Command!Token(tokens[1]) = <<Command!Program>>
      PROVE  Command!IsDirect(command, f[1], f[2], f[3]) /\ f[1] \in S /\ f[2] \in S /\ f[3] \in S
  <2>1. f \in Seq(S)
    <3>1. \A x \in DOMAIN f : f[x] \in S
      BY <1>5 DEF Lists
    <3>2. \A x \in 1 .. Len(f) : f[x] \in S
      BY <3>1
    <3> QED
      BY <3>2
  <2>2. /\ f[1] \in S /\ f[2] \in S /\ f[3] \in S /\ f[1] < f[2] /\ f[2] < f[3]
        /\ S = {f[1], f[2], f[3]}
    BY <1>3, <1>5, <1>8, <2>1, ThreeListed
  <2>3. Command!Word(command, f[1]) = <<Command!Program>>
    BY <1>5, <1>6, <1>8, <2>2
  <2> QED
    BY <1>4, <2>2, <2>3 DEF Command!IsDirect
<1>9. CASE \E i, j, k \in S : Command!IsDirect(command, i, j, k)
  BY <1>4, <1>7, <1>9
<1>10. CASE ~ \E i, j, k \in S : Command!IsDirect(command, i, j, k)
  <2>1. ~(Len(tokens) = 3 /\ Command!Token(tokens[1]) = <<Command!Program>>)
    BY <1>8, <1>10
  <2>2. answer.kind = "error"
    BY <1>1, <2>1 DEF Decision
  <2> QED
    BY <1>4, <1>10, <2>2
<1> QED
  BY <1>9, <1>10

SplitCommand == part = "command" => CommandKept

(* The command keeps its invariant among the other parts. *)
LEMMA NextCommand == SplitCommand /\ [ServersNext]_allVars => SplitCommand'
<1> SUFFICES ASSUME SplitCommand, [ServersNext]_allVars, part' = "command"
             PROVE  CommandKept'
  BY DEF SplitCommand
<1>0. Command!CommandAssumption
  BY ServersAssumption DEF ServersAssumption
<1>1. CASE OnCommand(Command!Next)
  BY <1>0, <1>1, SplitStep, AdvanceStep, ExecuteStep
     DEF SplitCommand, OnCommand, Command!Next
<1>2. CASE UNCHANGED <<part, commandVars>>
  BY <1>2, StutterCommand DEF SplitCommand
<1> QED
  BY <1>1, <1>2 DEF ServersNext, allVars, OnDirectory, OnCodec, OnBot, OnMessages, OnLoop

(* A direct message goes to the second word and carries the third, for     *)
(* every text that does not end in a tab, and for buffers of any size.     *)
THEOREM CommandsAreSplit == ServersSpec => []MessageIsThirdWord
<1>0. Command!CommandAssumption
  BY ServersAssumption DEF ServersAssumption
<1>1. ServersInit => SplitCommand
  BY <1>0, InitCommand DEF ServersInit, SplitCommand
<1>2. SplitCommand => MessageIsThirdWord
  BY <1>0, CommandAnswer DEF SplitCommand, MessageIsThirdWord
<1> QED
  BY <1>1, <1>2, NextCommand, PTL DEF ServersSpec

----------------------------------------------------------------------------
(* The packets.  Induction up to n: a set that has 0 and goes on has all.  *)
LEMMA UpTo ==
  ASSUME NEW n \in Nat, NEW S, 0 \in S, \A i \in 0 .. n : i < n /\ i \in S => i + 1 \in S
  PROVE  \A i \in 0 .. n : i \in S
<1> SUFFICES ASSUME NEW j \in 0 .. n, j \notin S PROVE FALSE
  OBVIOUS
<1>1. PICK Bad : Bad = (0 .. n) \ S
  OBVIOUS
<1>2. Bad \in SUBSET Nat /\ Bad # {}
  BY <1>1
<1>3. PICK m \in Bad : \A k \in Bad : m <= k
  BY <1>2, Least
<1>4. m \in 0 .. n /\ m \notin S /\ m # 0
  BY <1>1
<1>5. m - 1 \in 0 .. n /\ m - 1 < m /\ m - 1 < n
  BY <1>4
<1>6. m - 1 \notin Bad
  BY <1>3, <1>4, <1>5
<1>7. PICK p \in 0 .. n : p = m - 1 /\ p < n /\ p + 1 = m /\ p \in S
  BY <1>1, <1>4, <1>5, <1>6
<1> QED
  BY <1>4, <1>7

(* g[i] is the first i sequences of s, one behind another.                 *)
Chained(g, s, n) == g[0] = <<>> /\ \A i \in 1 .. n : g[i] = g[i - 1] \o s[i]

(* There is such a g. *)
LEMMA ChainExists ==
  ASSUME NEW T, NEW n \in Nat, NEW s \in [1 .. n -> Seq(T)]
  PROVE  \E g \in [0 .. n -> Seq(T)] : Chained(g, s, n)
<1>1. PICK S : S = {m \in 0 .. n : \E g \in [0 .. m -> Seq(T)] : Chained(g, s, m)}
  OBVIOUS
<1>2. 0 \in S
  <2>1. PICK g : g = [i \in 0 .. 0 |-> <<>>]
    OBVIOUS
  <2>2. g \in [0 .. 0 -> Seq(T)] /\ Chained(g, s, 0)
    BY <2>1 DEF Chained
  <2> QED
    BY <1>1, <2>2
<1>3. ASSUME NEW m \in 0 .. n, m < n, m \in S PROVE m + 1 \in S
  <2>1. PICK g \in [0 .. m -> Seq(T)] : Chained(g, s, m)
    BY <1>1, <1>3
  <2>2. PICK h : h = [i \in 0 .. m + 1 |-> IF i = m + 1 THEN g[m] \o s[m + 1] ELSE g[i]]
    OBVIOUS
  <2>3. g[m] \o s[m + 1] \in Seq(T)
    <3>1. g[m] \in Seq(T) /\ s[m + 1] \in Seq(T)
      BY <1>3
    <3> QED
      BY <3>1
  <2>4. \A i \in 0 .. m + 1 : i = m + 1 \/ i \in 0 .. m
    OBVIOUS
  <2>5. h \in [0 .. m + 1 -> Seq(T)]
    BY <2>2, <2>3, <2>4
  <2>6. h[0] = <<>>
    BY <2>1, <2>2 DEF Chained
  <2>7. ASSUME NEW i \in 1 .. m + 1 PROVE h[i] = h[i - 1] \o s[i]
    <3>1. CASE i = m + 1
      <4>1. m + 1 \in 0 .. m + 1 /\ m \in 0 .. m + 1 /\ m # m + 1
        OBVIOUS
      <4>2. i - 1 = m
        BY <3>1
      <4> QED
        BY <2>2, <3>1, <4>1, <4>2
    <3>2. CASE i # m + 1
      <4>1. i \in 1 .. m /\ i \in 0 .. m + 1 /\ i - 1 \in 0 .. m + 1 /\ i - 1 # m + 1
        BY <3>2
      <4>2. g[i] = g[i - 1] \o s[i]
        BY <2>1, <4>1 DEF Chained
      <4> QED
        BY <2>2, <3>2, <4>1, <4>2
    <3> QED
      BY <3>1, <3>2
  <2>8. Chained(h, s, m + 1)
    BY <2>6, <2>7 DEF Chained
  <2>9. m + 1 \in 0 .. n
    BY <1>3
  <2> QED
    BY <1>1, <2>5, <2>8, <2>9
<1>4. \A m \in 0 .. n : m < n /\ m \in S => m + 1 \in S
  BY <1>3
<1>5. n \in S
  <2>1. \A i \in 0 .. n : i \in S
    BY <1>2, <1>4, UpTo
  <2> QED
    BY <2>1
<1> QED
  BY <1>1, <1>5

(* The library's FlattenSeq is the whole chain. *)
LEMMA FlattenIsChain ==
  ASSUME NEW T, NEW n \in Nat, NEW s \in [1 .. n -> Seq(T)],
         NEW g \in [0 .. n -> Seq(T)], Chained(g, s, n)
  PROVE  Codec!FlattenSeq(s) = g[n]
<1>1. Len(s) = n
  OBVIOUS
<1>2. CASE n = 0
  BY <1>1, <1>2 DEF Chained, Codec!FlattenSeq
<1>3. CASE n # 0
  <2> DEFINE Is(f) == f = [i \in 1 .. Len(s) |-> IF i = 1 THEN s[i] ELSE f[i - 1] \o s[i]]
  <2>1. g[0] = <<>> /\ \A i \in 1 .. n : g[i] = g[i - 1] \o s[i]
    BY DEF Chained
  <2>2. g[1] = s[1]
    <3>1. 1 \in 1 .. n /\ s[1] \in Seq(T)
      BY <1>3
    <3>2. 1 - 1 = 0
      OBVIOUS
    <3>3. g[1] = <<>> \o s[1]
      BY <2>1, <3>1, <3>2
    <3> QED
      BY <3>1, <3>3
  <2>3. Is([i \in 1 .. n |-> g[i]])
    <3>1. \A i \in 1 .. n : g[i] = IF i = 1 THEN s[i]
                                   ELSE [j \in 1 .. n |-> g[j]][i - 1] \o s[i]
      <4>1. \A i \in 1 .. n : i # 1 => i - 1 \in 1 .. n
        OBVIOUS
      <4> QED
        BY <2>1, <2>2, <4>1
    <3> QED
      BY <1>1, <3>1
  <2>4. PICK F : F = CHOOSE f : Is(f)
    OBVIOUS
  <2>5. Is(F)
    BY <2>3, <2>4
  <2>6. Codec!FlattenSeq(s) = F[n]
    BY <1>1, <1>3, <2>4 DEF Codec!FlattenSeq
  <2>7. \A i \in 1 .. n : F[i] = IF i = 1 THEN s[i] ELSE F[i - 1] \o s[i]
    BY <1>1, <2>5
  <2>8. PICK S : S = {i \in 0 .. n : i # 0 => F[i] = g[i]}
    OBVIOUS
  <2>9. \A m \in 0 .. n : m < n /\ m \in S => m + 1 \in S
    <3> SUFFICES ASSUME NEW m \in 0 .. n, m < n, m \in S PROVE F[m + 1] = g[m + 1]
      BY <2>8
    <3>1. PICK k \in 1 .. n : k = m + 1 /\ k - 1 = m
      OBVIOUS
    <3>2. CASE m = 0
      <4>1. k = 1
        BY <3>1, <3>2
      <4> QED
        BY <2>2, <2>7, <3>1, <4>1
    <3>3. CASE m # 0
      <4>1. k # 1
        BY <3>1, <3>3
      <4>2. F[k] = F[k - 1] \o s[k] /\ g[k] = g[k - 1] \o s[k]
        BY <2>1, <2>7, <4>1
      <4>3. F[k - 1] = g[k - 1]
        BY <2>8, <3>1, <3>3
      <4> QED
        BY <3>1, <4>2, <4>3
    <3> QED
      BY <3>2, <3>3
  <2>10. n \in S
    <3>1. 0 \in S
      BY <2>8
    <3>2. \A i \in 0 .. n : i \in S
      BY <2>9, <3>1, UpTo
    <3> QED
      BY <3>2
  <2> QED
    BY <1>3, <2>6, <2>8, <2>10
<1> QED
  BY <1>2, <1>3

(* What comes first in a chain stays where it is. *)
LEMMA ChainPrefix ==
  ASSUME NEW T, NEW n \in Nat, NEW s \in [1 .. n -> Seq(T)],
         NEW g \in [0 .. n -> Seq(T)], Chained(g, s, n), NEW i \in 0 .. n
  PROVE  Len(g[i]) <= Len(g[n]) /\ \A x \in 1 .. Len(g[i]) : g[n][x] = g[i][x]
<1>1. PICK a \in Seq(T) : a = g[i]
  OBVIOUS
<1>2. PICK S : S = {j \in 0 .. n : i <= j => /\ Len(a) <= Len(g[j])
                                            /\ \A x \in 1 .. Len(a) : g[j][x] = a[x]}
  OBVIOUS
<1>3. ASSUME NEW m \in 0 .. n, m < n, m \in S PROVE m + 1 \in S
  <2>1. PICK k \in 1 .. n : k = m + 1 /\ k - 1 = m
    BY <1>3
  <2>2. PICK b \in Seq(T), c \in Seq(T), d \in Seq(T) : b = g[m] /\ c = s[k] /\ d = g[k]
    OBVIOUS
  <2>3. d = b \o c
    BY <2>1, <2>2 DEF Chained
  <2>4. CASE i = k
    BY <1>1, <1>2, <2>1, <2>4
  <2>5. CASE i < k
    <3>1. Len(a) <= Len(b) /\ \A x \in 1 .. Len(a) : b[x] = a[x]
      BY <1>2, <1>3, <2>1, <2>2, <2>5
    <3>2. Len(a) \in Nat /\ Len(b) \in Nat /\ Len(d) = Len(b) + Len(c) /\ Len(c) \in Nat
      BY <2>3
    <3>3. \A x \in 1 .. Len(b) : d[x] = b[x]
      BY <2>3
    <3>4. Len(a) <= Len(d) /\ \A x \in 1 .. Len(a) : d[x] = a[x]
      BY <3>1, <3>2, <3>3
    <3> QED
      BY <1>2, <2>1, <2>2, <3>4
  <2>6. CASE k < i
    <3>1. k \in 0 .. n /\ ~(i <= k)
      BY <2>6
    <3> QED
      BY <1>2, <2>1, <3>1
  <2> QED
    BY <2>1, <2>4, <2>5, <2>6
<1>4. \A m \in 0 .. n : m < n /\ m \in S => m + 1 \in S
  BY <1>3
<1>5. 0 \in S
  BY <1>1, <1>2
<1>6. n \in S
  <2>1. \A j \in 0 .. n : j \in S
    BY <1>4, <1>5, UpTo
  <2> QED
    BY <2>1
<1> QED
  BY <1>1, <1>2, <1>6

(* s[i] lies behind the sequences before it, and the chain goes on.         *)
Piece(g, s, n, i) ==
    /\ Len(g[i]) = Len(g[i - 1]) + Len(s[i]) /\ Len(g[i]) <= Len(g[n])
    /\ \A x \in 1 .. Len(s[i]) : g[n][Len(g[i - 1]) + x] = s[i][x]

(* So it is with every one. *)
LEMMA ChainPieces ==
  ASSUME NEW T, NEW n \in Nat, NEW s \in [1 .. n -> Seq(T)],
         NEW g \in [0 .. n -> Seq(T)], Chained(g, s, n), NEW i \in 1 .. n
  PROVE  Piece(g, s, n, i)
<1>1. PICK b \in Seq(T), c \in Seq(T), d \in Seq(T) : b = g[i - 1] /\ c = s[i] /\ d = g[i]
  <2>1. i - 1 \in 0 .. n /\ i \in 0 .. n
    OBVIOUS
  <2> QED
    BY <2>1
<1>2. d = b \o c
  BY <1>1 DEF Chained
<1>3. /\ Len(d) = Len(b) + Len(c) /\ Len(b) \in Nat /\ Len(c) \in Nat
      /\ \A x \in 1 .. Len(c) : d[Len(b) + x] = c[x]
  BY <1>2
<1>4. Len(d) <= Len(g[n]) /\ \A x \in 1 .. Len(d) : g[n][x] = d[x]
  <2>1. i \in 0 .. n
    OBVIOUS
  <2> QED
    BY <1>1, <2>1, ChainPrefix
<1>5. \A x \in 1 .. Len(c) : g[n][Len(b) + x] = c[x]
  <2>1. \A x \in 1 .. Len(c) : Len(b) + x \in 1 .. Len(d)
    BY <1>3
  <2> QED
    BY <1>3, <1>4, <2>1
<1> QED
  BY <1>1, <1>3, <1>4, <1>5 DEF Piece

----------------------------------------------------------------------------
(* Numbers.                                                                *)
LEMMA Products ==
  ASSUME NEW a \in Nat \ {0}, NEW b \in Nat \ {0} PROVE a * b \in Nat \ {0}
OBVIOUS

(* The powers of the base. *)
LEMMA PowerFacts ==
  ASSUME Codec!CodecAssumption
  PROVE  /\ Codec!Power[0] = 1 /\ \A k \in 0 .. 8 : Codec!Power[k] \in Nat \ {0}
         /\ \A k \in 1 .. 8 : Codec!Power[k] = Base * Codec!Power[k - 1]
<1> DEFINE Is(f) == f = [n \in 0 .. 8 |-> IF n = 0 THEN 1 ELSE Base * f[n - 1]]
<1>0. Base \in Nat /\ Base > 0
  BY DEF Codec!CodecAssumption
<1>p1. PICK p1 \in Nat \ {0} : p1 = Base * 1
  BY <1>0
<1>p2. PICK p2 \in Nat \ {0} : p2 = Base * p1
  BY <1>0, Products
<1>p3. PICK p3 \in Nat \ {0} : p3 = Base * p2
  BY <1>0, Products
<1>p4. PICK p4 \in Nat \ {0} : p4 = Base * p3
  BY <1>0, Products
<1>p5. PICK p5 \in Nat \ {0} : p5 = Base * p4
  BY <1>0, Products
<1>p6. PICK p6 \in Nat \ {0} : p6 = Base * p5
  BY <1>0, Products
<1>p7. PICK p7 \in Nat \ {0} : p7 = Base * p6
  BY <1>0, Products
<1>p8. PICK p8 \in Nat \ {0} : p8 = Base * p7
  BY <1>0, Products
<1>1. PICK p : p = [n \in 0 .. 8 |->
         IF n = 0 THEN 1 ELSE IF n = 1 THEN p1 ELSE IF n = 2 THEN p2 ELSE IF n = 3 THEN p3
         ELSE IF n = 4 THEN p4 ELSE IF n = 5 THEN p5 ELSE IF n = 6 THEN p6
         ELSE IF n = 7 THEN p7 ELSE p8]
  OBVIOUS
<1>2. Is(p)
  <2>1. \A n \in 0 .. 8 : n = 0 \/ n = 1 \/ n = 2 \/ n = 3 \/ n = 4 \/ n = 5 \/ n = 6
                          \/ n = 7 \/ n = 8
    OBVIOUS
  <2>2. /\ p[0] = 1 /\ p[1] = Base * p[0] /\ p[2] = Base * p[1] /\ p[3] = Base * p[2]
        /\ p[4] = Base * p[3] /\ p[5] = Base * p[4] /\ p[6] = Base * p[5]
        /\ p[7] = Base * p[6] /\ p[8] = Base * p[7]
    BY <1>1, <1>p1, <1>p2, <1>p3, <1>p4, <1>p5, <1>p6, <1>p7, <1>p8
  <2>3. \A n \in 0 .. 8 : p[n] = IF n = 0 THEN 1 ELSE Base * p[n - 1]
    BY <2>1, <2>2
  <2> QED
    BY <1>1, <2>3
<1>3. Is(Codec!Power)
  BY <1>2 DEF Codec!Power
<1>4. \A k \in 0 .. 8 : Codec!Power[k] = IF k = 0 THEN 1 ELSE Base * Codec!Power[k - 1]
  BY <1>3
<1>5. PICK S : S = {k \in 0 .. 8 : Codec!Power[k] \in Nat \ {0}}
  OBVIOUS
<1>6. ASSUME NEW k \in 0 .. 8, k < 8, k \in S PROVE k + 1 \in S
  <2>1. PICK l \in 0 .. 8 : l = k + 1 /\ l - 1 = k /\ l # 0
    BY <1>6
  <2>2. PICK q \in Nat \ {0} : q = Codec!Power[k]
    BY <1>5, <1>6
  <2>3. Codec!Power[l] = Base * q /\ Base * q \in Nat \ {0}
    BY <1>0, <1>4, <2>1, <2>2, Products
  <2> QED
    BY <1>5, <2>1, <2>3
<1>7. 0 \in S
  BY <1>4, <1>5
<1>8. \A k \in 0 .. 8 : k \in S
  BY <1>6, <1>7, UpTo
<1> QED
  BY <1>4, <1>5, <1>8

(* Quotient and remainder are what the division says they are. *)
LEMMA Division ==
  ASSUME NEW d \in Nat \ {0}, NEW x \in Int
  PROVE  /\ x = d * (x \div d) + (x % d) /\ x \div d \in Int /\ x % d \in Nat /\ x % d < d
         /\ \A q \in Int, r \in Int : x = d * q + r /\ 0 <= r /\ r < d
                                        => x \div d = q /\ x % d = r
<1>1. x = d * (x \div d) + (x % d) /\ x \div d \in Int /\ x % d \in 0 .. d - 1
  OBVIOUS
<1>2. ASSUME NEW q \in Int, NEW r \in Int, x = d * q + r, 0 <= r, r < d
      PROVE  x \div d = q /\ x % d = r
  <2>1. PICK p \in Int, s \in Int : p = x \div d /\ s = x % d /\ 0 <= s /\ s < d
    BY <1>1
  <2>2. d * (p - q) = r - s
    BY <1>1, <1>2, <2>1
  <2>3. p - q < 1
    <3>1. p - q >= 1 => d * (p - q) >= d
      OBVIOUS
    <3> QED
      BY <1>2, <2>1, <2>2, <3>1
  <2>4. p - q > -1
    <3>1. p - q <= -1 => d * (p - q) <= -d
      OBVIOUS
    <3> QED
      BY <1>2, <2>1, <2>2, <3>1
  <2>5. p = q
    BY <2>3, <2>4
  <2> QED
    BY <1>1, <1>2, <2>1, <2>5
<1> QED
  BY <1>1, <1>2

(* A number of one digit more. *)
LEMMA OneDigitMore ==
  ASSUME NEW b \in Nat \ {0}, NEW p \in Nat \ {0}, NEW x \in Int
  PROVE  /\ (x \div p) \div b = x \div (b * p)
         /\ ((x \div b) % p) * b + (x % b) = x % (b * p)
<1>1. PICK d \in Nat \ {0} : d = b * p
  BY Products
<1>2. (x \div p) \div b = x \div d
  <2>1. PICK y \in Int, r \in Nat : y = x \div p /\ x = p * y + r /\ r < p
    BY Division
  <2>2. PICK q \in Int, t \in Nat : q = y \div b /\ y = b * q + t /\ t < b
    BY Division
  <2>3. PICK w \in Int : w = p * t + r
    OBVIOUS
  <2>4. x = d * q + w
    <3>1. p * (b * q + t) = (b * p) * q + p * t
      OBVIOUS
    <3>2. p * y = p * (b * q + t) /\ d * q = (b * p) * q
      BY <1>1, <2>2
    <3> QED
      BY <2>1, <2>3, <3>1, <3>2
  <2>5. 0 <= w /\ w < d
    <3>1. p * t >= 0 /\ p * t <= p * (b - 1)
      BY <2>2
    <3>2. p * (b - 1) = d - p
      BY <1>1
    <3> QED
      BY <2>1, <2>3, <3>1, <3>2
  <2>6. x \div d = q
    BY <2>4, <2>5, Division
  <2> QED
    BY <2>1, <2>2, <2>6
<1>3. ((x \div b) % p) * b + (x % b) = x % d
  <2>1. PICK y \in Int, r \in Nat : y = x \div b /\ r = x % b /\ x = b * y + r /\ r < b
    BY Division
  <2>2. PICK q \in Int, t \in Nat : t = y % p /\ y = p * q + t /\ t < p
    BY Division
  <2>3. PICK w \in Int : w = t * b + r
    OBVIOUS
  <2>4. x = d * q + w
    <3>1. b * (p * q + t) = (b * p) * q + t * b
      OBVIOUS
    <3>2. b * y = b * (p * q + t) /\ d * q = (b * p) * q
      BY <1>1, <2>2
    <3> QED
      BY <2>1, <2>3, <3>1, <3>2
  <2>5. 0 <= w /\ w < d
    <3>1. t * b >= 0 /\ t * b <= (p - 1) * b
      BY <2>2
    <3>2. (p - 1) * b = d - b
      BY <1>1
    <3> QED
      BY <2>1, <2>3, <3>1, <3>2
  <2>6. x % d = w
    BY <2>4, <2>5, Division
  <2> QED
    BY <2>1, <2>2, <2>3, <2>6
<1> QED
  BY <1>1, <1>2, <1>3

(* The bytes of a number read as an unsigned one: what fits into them.     *)
LEMMA UnsignedBack ==
  ASSUME Codec!CodecAssumption, NEW n \in 0 .. 8, NEW x \in Int
  PROVE  Codec!ReadUnsigned(Codec!WriteNumber(x, n)) = x % Codec!Power[n]
<1> DEFINE P == Codec!Power
<1>0. Base \in Nat \ {0} /\ n \in Nat
  BY DEF Codec!CodecAssumption
<1>1. PICK u : u = Codec!WriteNumber(x, n)
  OBVIOUS
<1>2. /\ u \in Seq(Int) /\ Len(u) = n
      /\ \A i \in 1 .. n : u[i] = (x \div P[n - i]) % Base
  <2>1. u = [i \in 1 .. n |-> (x \div P[n - i]) % Base]
    BY <1>1 DEF Codec!WriteNumber
  <2>2. ASSUME NEW i \in 1 .. n PROVE (x \div P[n - i]) % Base \in Int
    <3>1. n - i \in 0 .. 8
      OBVIOUS
    <3>2. P[n - i] \in Nat \ {0}
      BY <3>1, PowerFacts
    <3> QED
      BY <1>0, <3>2, Division
  <2> QED
    BY <2>1, <2>2
<1> DEFINE Is(f) == f = [i \in 0 .. Len(u) |-> IF i = 0 THEN 0 ELSE f[i - 1] * Base + u[i]]
<1>3. PICK v : v = [i \in 0 .. n |-> (x \div P[n - i]) % P[i]]
  OBVIOUS
<1>4. v[0] = 0
  <2>1. PICK p \in Nat \ {0} : p = P[n]
    BY PowerFacts
  <2>2. P[0] = 1 /\ n - 0 = n /\ 0 \in 0 .. n
    BY PowerFacts
  <2>3. v[0] = (x \div p) % 1
    BY <1>3, <2>1, <2>2
  <2>4. PICK y \in Int : y = x \div p
    BY <2>1, Division
  <2>5. y % 1 \in Nat /\ y % 1 < 1
    BY Division
  <2> QED
    BY <2>3, <2>4, <2>5
<1>5. ASSUME NEW i \in 1 .. n PROVE v[i] = v[i - 1] * Base + u[i]
  <2>1. PICK k \in 0 .. 8, j \in 0 .. 8 : k = n - i /\ k + 1 = n - (i - 1) /\ j = i - 1
                                          /\ j + 1 = i /\ k + 1 \in 1 .. 8 /\ i \in 1 .. 8
    OBVIOUS
  <2>2. PICK p \in Nat \ {0}, q \in Nat \ {0} : p = P[k] /\ q = P[j]
    BY PowerFacts
  <2>3. P[k + 1] = Base * p /\ P[i] = Base * q
    <3>1. k + 1 - 1 = k /\ i - 1 = j
      BY <2>1
    <3>2. P[k + 1] = Base * P[k + 1 - 1] /\ P[i] = Base * P[i - 1]
      BY <2>1, PowerFacts
    <3> QED
      BY <2>2, <3>1, <3>2
  <2>4. PICK y \in Int : y = x \div p
    BY <2>2, Division
  <2>5. x \div (Base * p) = y \div Base /\ ((y \div Base) % q) * Base + (y % Base) = y % (Base * q)
    BY <1>0, <2>4, OneDigitMore
  <2>6. i \in 0 .. n /\ i - 1 \in 0 .. n
    OBVIOUS
  <2>7. v[i] = y % (Base * q)
    BY <1>3, <2>1, <2>2, <2>3, <2>4, <2>6
  <2>8. v[i - 1] = (y \div Base) % q
    BY <1>3, <2>1, <2>2, <2>3, <2>5, <2>6
  <2>9. u[i] = y % Base
    BY <1>2, <2>1, <2>2, <2>4
  <2> QED
    BY <2>5, <2>7, <2>8, <2>9
<1>6. Is(v)
  <2>1. \A i \in 0 .. n : v[i] = IF i = 0 THEN 0 ELSE v[i - 1] * Base + u[i]
    BY <1>4, <1>5
  <2> QED
    BY <1>2, <1>3, <2>1
<1>7. PICK f : f = CHOOSE h : Is(h)
  OBVIOUS
<1>8. Is(f)
  BY <1>6, <1>7
<1>9. Codec!ReadUnsigned(u) = f[n]
  BY <1>2, <1>7 DEF Codec!ReadUnsigned
<1>10. f[0] = 0 /\ \A i \in 1 .. n : f[i] = f[i - 1] * Base + u[i]
  BY <1>2, <1>8
<1>11. PICK S : S = {i \in 0 .. n : f[i] = v[i]}
  OBVIOUS
<1>12. ASSUME NEW m \in 0 .. n, m < n, m \in S PROVE m + 1 \in S
  <2>1. PICK k \in 1 .. n : k = m + 1 /\ k - 1 = m
    BY <1>12
  <2>2. f[k] = f[k - 1] * Base + u[k] /\ v[k] = v[k - 1] * Base + u[k] /\ f[k - 1] = v[k - 1]
    BY <1>5, <1>10, <1>11, <1>12, <2>1
  <2> QED
    BY <1>11, <2>1, <2>2
<1>13. \A m \in 0 .. n : m < n /\ m \in S => m + 1 \in S
  BY <1>12
<1>14. 0 \in S
  BY <1>4, <1>10, <1>11
<1>15. n \in S
  <2>1. \A i \in 0 .. n : i \in S
    BY <1>13, <1>14, UpTo
  <2> QED
    BY <2>1
<1>16. v[n] = x % P[n]
  <2>1. n \in 0 .. n /\ n - n = 0 /\ P[0] = 1
    BY PowerFacts
  <2>2. v[n] = (x \div 1) % P[n]
    BY <1>3, <2>1
  <2>3. x \div 1 = x
    OBVIOUS
  <2> QED
    BY <2>2, <2>3
<1> QED
  BY <1>1, <1>9, <1>11, <1>15, <1>16

(* What a number of a type may be. *)
NumberTypes == {"byte", "sbyte", "short", "int", "uint64"}

Fits(type, x) ==
    LET all == Codec!Power[Codec!Width(type)]
    IN  x \in Int /\ IF Codec!Signed(type) THEN -all <= 2 * x /\ 2 * x < all
                     ELSE 0 <= x /\ x < all

(* How wide each is. *)
LEMMA WidthFacts ==
  /\ Codec!Width("byte") = 1 /\ Codec!Width("sbyte") = 1 /\ Codec!Width("short") = 2
  /\ Codec!Width("int") = 4 /\ Codec!Width("uint64") = 8 /\ Codec!Width("string") = 64
  /\ \A type \in NumberTypes : Codec!Width(type) \in 1 .. 8 /\ type # "string"
  /\ Codec!StringLength = 64
BY DEF NumberTypes, Codec!Width, Codec!StringLength

(* A number that fits its type is read as it was written, its sign included. *)
LEMMA NumberBack ==
  ASSUME Codec!CodecAssumption, NEW type \in NumberTypes, NEW x, Fits(type, x)
  PROVE  Codec!ReadNumber(type, Codec!WriteNumber(x, Codec!Width(type))) = x
<1>1. PICK n \in 0 .. 8 : n = Codec!Width(type)
  BY WidthFacts
<1>2. PICK all \in Nat \ {0} : all = Codec!Power[n]
  BY PowerFacts
<1>3. PICK u : u = Codec!WriteNumber(x, n)
  OBVIOUS
<1>4. x \in Int
  BY DEF Fits
<1>5. Len(u) = n
  BY <1>3 DEF Codec!WriteNumber
<1>6. Codec!ReadUnsigned(u) = x % all
  BY <1>2, <1>3, <1>4, UnsignedBack
<1>7. PICK y \in Nat : y = x % all
  BY <1>2, <1>4, Division
<1>8. Codec!ReadNumber(type, u) = IF Codec!Signed(type) /\ 2 * y >= all THEN y - all ELSE y
  BY <1>2, <1>5, <1>6, <1>7 DEF Codec!ReadNumber
<1>9. CASE 0 <= x /\ x < all
  <2>1. x = all * 0 + x
    BY <1>4
  <2>2. y = x
    BY <1>2, <1>4, <1>7, <1>9, <2>1, Division
  <2>3. Codec!Signed(type) => 2 * x < all
    BY <1>1, <1>2 DEF Fits
  <2> QED
    BY <1>1, <1>2, <1>3, <1>8, <2>2, <2>3
<1>10. CASE ~(0 <= x /\ x < all)
  <2>1. Codec!Signed(type) /\ -all <= 2 * x /\ 2 * x < all
    BY <1>1, <1>2, <1>10 DEF Fits
  <2>2. x < 0 /\ 0 <= x + all /\ x + all < all /\ 2 * (x + all) >= all
    BY <1>2, <1>4, <1>10, <2>1
  <2>3. PICK q \in Int, r \in Int : q = -1 /\ r = x + all /\ x = all * q + r
    BY <1>4
  <2>4. y = x + all
    BY <1>4, <1>7, <2>2, <2>3, Division
  <2> QED
    BY <1>1, <1>2, <1>3, <1>4, <1>8, <2>1, <2>2, <2>4
<1> QED
  BY <1>9, <1>10

----------------------------------------------------------------------------
(* Strings.  A bounded set of numbers has a greatest one.                  *)
LEMMA Greatest ==
  ASSUME NEW n \in Nat, NEW S \in SUBSET (0 .. n), S # {}
  PROVE  \E m \in S : \A k \in S : k <= m
<1>1. PICK Bounds : Bounds = {j \in Nat : \A k \in S : k <= j}
  OBVIOUS
<1>2. Bounds \in SUBSET Nat /\ n \in Bounds
  BY <1>1
<1>3. PICK m \in Bounds : \A j \in Bounds : m <= j
  BY <1>2, Least
<1>4. m \in Nat /\ \A k \in S : k <= m
  BY <1>1
<1>5. m \in S
  <2> SUFFICES ASSUME m \notin S PROVE FALSE
    OBVIOUS
  <2>1. PICK k \in S : TRUE
    OBVIOUS
  <2>2. k \in Nat /\ k < m
    BY <1>4
  <2>3. \A j \in S : j \in Nat /\ j <= m - 1
    BY <1>4
  <2>4. m - 1 \in Nat
    BY <1>4, <2>2
  <2>5. m - 1 \in Bounds
    BY <1>1, <2>3, <2>4
  <2> QED
    BY <1>3, <1>4, <2>5
<1> QED
  BY <1>4, <1>5

(* A string is read as the receiver may expect it. *)
LEMMA StringBack ==
  ASSUME NEW C, NEW str \in Seq(C)
  PROVE  /\ Codec!WriteString(str) \in Seq(C \cup {Codec!Blank})
         /\ Len(Codec!WriteString(str)) = 64
         /\ Codec!IsTextOf(Codec!ReadString(Codec!WriteString(str)), str)
<1>1. PICK blank : blank = Codec!Blank
  OBVIOUS
<1>2. PICK l \in Nat : l = Len(str) /\ \A i \in 1 .. l : str[i] \in C
  OBVIOUS
<1>3. PICK b : b = Codec!WriteString(str)
  OBVIOUS
<1>4. b = [i \in 1 .. 64 |-> IF i <= l THEN str[i] ELSE blank]
  BY <1>1, <1>2, <1>3, WidthFacts DEF Codec!WriteString
<1>5. b \in Seq(C \cup {blank}) /\ Len(b) = 64
  <2>1. \A i \in 1 .. 64 : i <= l => i \in 1 .. l
    OBVIOUS
  <2>2. ASSUME NEW i \in 1 .. 64 PROVE (IF i <= l THEN str[i] ELSE blank) \in C \cup {blank}
    <3>1. CASE i <= l
      BY <1>2, <2>1, <3>1
    <3>2. CASE ~(i <= l)
      BY <3>2
    <3> QED
      BY <3>1, <3>2
  <2>3. PICK D : D = C \cup {blank}
    OBVIOUS
  <2>4. PICK k \in Nat : k = 64
    OBVIOUS
  <2>5. PICK h : h = [i \in 1 .. k |-> b[i]]
    OBVIOUS
  <2>6. b = h
    BY <1>4, <2>4, <2>5
  <2>7. \A i \in 1 .. k : b[i] \in D
    BY <1>4, <2>2, <2>3, <2>4
  <2>8. h \in Seq(D) /\ Len(h) = k
    BY ONLY <2>5, <2>7
  <2> QED
    BY <2>3, <2>4, <2>6, <2>8
<1>6. \A i \in 1 .. 64 : b[i] = IF i <= l THEN str[i] ELSE blank
  BY <1>4
<1>7. PICK ends : ends = {n \in 0 .. 64 : n = 0 \/ b[n] # blank}
  OBVIOUS
<1>8. ends \in SUBSET (0 .. 64) /\ ends # {}
  <2>1. 0 \in ends
    BY <1>7
  <2> QED
    BY <1>7, <2>1
<1>9. PICK m : m = CHOOSE n \in ends : \A k \in ends : k <= n
  OBVIOUS
<1>10. m \in ends /\ \A k \in ends : k <= m
  <2>1. \E n \in ends : \A k \in ends : k <= n
    BY <1>8, Greatest
  <2> QED
    BY <1>9, <2>1
<1>11. PICK view : view = Codec!ReadString(b)
  OBVIOUS
<1>12. view = SubSeq(b, 1, m)
  BY <1>1, <1>5, <1>7, <1>9, <1>11 DEF Codec!ReadString
<1>13. m \in 0 .. 64
  BY <1>8, <1>10
<1>14. Len(view) = m /\ \A i \in 1 .. m : view[i] = b[i]
  BY <1>5, <1>12, <1>13
<1>15. PICK c \in Nat : c = (IF l < 64 THEN l ELSE 64) /\ c <= l /\ c <= 64
  BY <1>2
<1>16. PICK cut : cut = SubSeq(str, 1, c)
  OBVIOUS
<1>17. cut \in Seq(C) /\ Len(cut) = c /\ \A i \in 1 .. c : cut[i] = str[i]
  BY <1>2, <1>15, <1>16
<1>18. \A i \in 1 .. c : cut[i] = b[i]
  <2>1. \A i \in 1 .. c : i \in 1 .. 64 /\ i <= l
    BY <1>15
  <2> QED
    BY <1>6, <1>17, <2>1
<1>19. m <= c
  <2> SUFFICES ASSUME m > c PROVE FALSE
    BY <1>13, <1>15
  <2>0. m \in 1 .. 64 /\ m > l /\ ~(m <= l)
    BY <1>13, <1>15
  <2>1. m \in 1 .. 64 /\ m > l /\ b[m] = blank
    BY <1>6, <2>0
  <2> QED
    BY <1>7, <1>10, <2>1
<1>20. Codec!IsPrefix(view, cut)
  <2>1. SubSeq(view, 1, m) = [i \in 1 .. m |-> view[i]]
    BY <1>5, <1>12, <1>13, <1>14
  <2>2. SubSeq(cut, 1, m) = [i \in 1 .. m |-> cut[i]]
    BY <1>13, <1>17, <1>19
  <2>3. \A i \in 1 .. m : view[i] = cut[i]
    BY <1>13, <1>14, <1>15, <1>18, <1>19
  <2> QED
    BY <1>14, <1>17, <1>19, <2>1, <2>2, <2>3 DEF Codec!IsPrefix
<1>21. view = <<>> \/ Codec!Last(view) # blank
  <2>1. CASE m = 0
    BY <1>5, <1>12, <2>1
  <2>2. CASE m # 0
    BY <1>7, <1>10, <1>13, <1>14, <2>2 DEF Codec!Last
  <2> QED
    BY <2>1, <2>2
<1>22. \A i \in m + 1 .. c : cut[i] = blank
  <2> SUFFICES ASSUME NEW i \in m + 1 .. c PROVE cut[i] = blank
    OBVIOUS
  <2>1. i \in 1 .. c /\ i \in 0 .. 64 /\ i > m /\ i # 0
    BY <1>13, <1>15
  <2>2. i \notin ends
    BY <1>10, <1>13, <2>1
  <2> QED
    BY <1>7, <1>18, <2>1, <2>2
<1>23. Codec!IsTextOf(view, str)
  BY <1>1, <1>2, <1>14, <1>15, <1>16, <1>17, <1>20, <1>21, <1>22, WidthFacts DEF Codec!IsTextOf
<1> QED
  BY <1>1, <1>3, <1>5, <1>11, <1>23

----------------------------------------------------------------------------
(* The tables.  order names each field once.                               *)
Named(fields, order) ==
    /\ order \in Seq(DOMAIN fields)
    /\ \A name \in DOMAIN fields : fields[name] \in NumberTypes \cup {"string"}
    /\ \A name \in DOMAIN fields : \E i \in 1 .. Len(order) : order[i] = name
    /\ \A i, j \in 1 .. Len(order) : order[i] = order[j] => i = j

(* Fields of these types, one behind another behind the id, have the size. *)
Sized(struct, order) ==
    \A e : e[0] = 1 /\ (\A i \in 1 .. Len(order) :
                          e[i] = e[i - 1] + Codec!Width(struct.fields[order[i]]))
            => e[Len(order)] = struct.size

(* The tables agree on a kind. *)
Agree(kind) ==
    /\ Codec!ReadOrder[kind] = Codec!WriteOrder[kind]
    /\ Named(Codec!Structs[kind].fields, Codec!WriteOrder[kind])
    /\ Sized(Codec!Structs[kind], Codec!WriteOrder[kind])

(* The sum of up to seven widths. *)
LEMMA SumOf ==
  ASSUME NEW n \in 1 .. 7, NEW e, NEW d, e[0] = 1, \A i \in 1 .. n : d[i] \in Nat,
         \A i \in 1 .. n : e[i] = e[i - 1] + d[i]
  PROVE  e[n] = 1 + d[1] + (IF n < 2 THEN 0 ELSE d[2]) + (IF n < 3 THEN 0 ELSE d[3])
                  + (IF n < 4 THEN 0 ELSE d[4]) + (IF n < 5 THEN 0 ELSE d[5])
                  + (IF n < 6 THEN 0 ELSE d[6]) + (IF n < 7 THEN 0 ELSE d[7])
<1>1. e[1] = 1 + d[1] /\ d[1] \in Nat
  OBVIOUS
<1>2. n >= 2 => e[2] = e[1] + d[2] /\ d[2] \in Nat
  OBVIOUS
<1>3. n >= 3 => e[3] = e[2] + d[3] /\ d[3] \in Nat
  OBVIOUS
<1>4. n >= 4 => e[4] = e[3] + d[4] /\ d[4] \in Nat
  OBVIOUS
<1>5. n >= 5 => e[5] = e[4] + d[5] /\ d[5] \in Nat
  OBVIOUS
<1>6. n >= 6 => e[6] = e[5] + d[6] /\ d[6] \in Nat
  OBVIOUS
<1>7. n >= 7 => e[7] = e[6] + d[7] /\ d[7] \in Nat
  OBVIOUS
<1>8. n = 1 \/ n = 2 \/ n = 3 \/ n = 4 \/ n = 5 \/ n = 6 \/ n = 7
  OBVIOUS
<1> QED
  BY <1>1, <1>2, <1>3, <1>4, <1>5, <1>6, <1>7, <1>8

(* The packets of a session and of blocks agree. *)
LEMMA SessionAgree ==
  \A kind \in {"handshake", "ping", "level_initialize", "set_block_client",
                  "set_block_server"} : Agree(kind)
<1> USE DEF Codec!Structs, Codec!SessionStructs, Codec!PlayerStructs,
            Codec!ExtensionStructs, Codec!MoveStructs, Codec!WriteOrder, Codec!SessionOrder,
            Codec!BlockOrder, Codec!PositionOrder, Codec!SpawnOrder, Codec!TextOrder,
            Codec!ExtensionOrder, Codec!ReadOrder, Codec!ParseOrder,
            Codec!ParseExtensionOrder, Codec!Joined
<1>1. /\ Codec!Structs["handshake"] = [size |-> 131, fields |->
           [version |-> "byte", name |-> "string", motd |-> "string", flag |-> "byte"]]
      /\ Codec!WriteOrder["handshake"] = <<"version", "name", "motd", "flag">>
      /\ Codec!ReadOrder["handshake"] = <<"version", "name", "motd", "flag">>
  OBVIOUS
<1>2. /\ Codec!Structs["ping"] = [size |-> 1, fields |-> <<>>]
      /\ Codec!WriteOrder["ping"] = <<>>
      /\ Codec!ReadOrder["ping"] = <<>>
  OBVIOUS
<1>3. /\ Codec!Structs["level_initialize"] = [size |-> 1, fields |-> <<>>]
      /\ Codec!WriteOrder["level_initialize"] = <<>>
      /\ Codec!ReadOrder["level_initialize"] = <<>>
  OBVIOUS
<1>4. /\ Codec!Structs["set_block_client"] = [size |-> 9, fields |->
           [x |-> "short", y |-> "short", z |-> "short", mode |-> "byte", block_id |-> "byte"]]
      /\ Codec!WriteOrder["set_block_client"] = <<"x", "y", "z", "mode", "block_id">>
      /\ Codec!ReadOrder["set_block_client"] = <<"x", "y", "z", "mode", "block_id">>
  OBVIOUS
<1>5. /\ Codec!Structs["set_block_server"] = [size |-> 8, fields |->
           [x |-> "short", y |-> "short", z |-> "short", block_id |-> "byte"]]
      /\ Codec!WriteOrder["set_block_server"] = <<"x", "y", "z", "block_id">>
      /\ Codec!ReadOrder["set_block_server"] = <<"x", "y", "z", "block_id">>
  OBVIOUS
<1> HIDE DEF Codec!Structs, Codec!SessionStructs, Codec!PlayerStructs,
            Codec!ExtensionStructs, Codec!MoveStructs, Codec!WriteOrder, Codec!SessionOrder,
            Codec!BlockOrder, Codec!PositionOrder, Codec!SpawnOrder, Codec!TextOrder,
            Codec!ExtensionOrder, Codec!ReadOrder, Codec!ParseOrder,
            Codec!ParseExtensionOrder, Codec!Joined
<1>6. Agree("handshake")
  <2>1. PICK s, w : /\ s = Codec!Structs["handshake"]
                    /\ w = Codec!WriteOrder["handshake"]
    OBVIOUS
  <2>2. Named(s.fields, w) /\ Len(w) = 4
    BY ONLY <1>1, <2>1 DEF Named, NumberTypes
  <2>3. Sized(s, w)
    <3>1. s.size = 131
      BY ONLY <1>1, <2>1
    <3>2. /\ s.fields[w[1]] = "byte" /\ s.fields[w[2]] = "string" /\ s.fields[w[3]] = "string"
          /\ s.fields[w[4]] = "byte"
      BY ONLY <1>1, <2>1
    <3> QED
      BY ONLY <2>2, <3>1, <3>2, WidthFacts, SumOf DEF Sized
  <2> QED
    BY <1>1, <2>1, <2>2, <2>3 DEF Agree
<1>7. Agree("ping")
  <2>1. PICK s, w : /\ s = Codec!Structs["ping"]
                    /\ w = Codec!WriteOrder["ping"]
    OBVIOUS
  <2>2. Named(s.fields, w) /\ Len(w) = 0
    BY ONLY <1>2, <2>1 DEF Named, NumberTypes
  <2>3. Sized(s, w)
    BY ONLY <1>2, <2>1 DEF Sized
  <2> QED
    BY <1>2, <2>1, <2>2, <2>3 DEF Agree
<1>8. Agree("level_initialize")
  <2>1. PICK s, w : /\ s = Codec!Structs["level_initialize"]
                    /\ w = Codec!WriteOrder["level_initialize"]
    OBVIOUS
  <2>2. Named(s.fields, w) /\ Len(w) = 0
    BY ONLY <1>3, <2>1 DEF Named, NumberTypes
  <2>3. Sized(s, w)
    BY ONLY <1>3, <2>1 DEF Sized
  <2> QED
    BY <1>3, <2>1, <2>2, <2>3 DEF Agree
<1>9. Agree("set_block_client")
  <2>1. PICK s, w : /\ s = Codec!Structs["set_block_client"]
                    /\ w = Codec!WriteOrder["set_block_client"]
    OBVIOUS
  <2>2. Named(s.fields, w) /\ Len(w) = 5
    BY ONLY <1>4, <2>1 DEF Named, NumberTypes
  <2>3. Sized(s, w)
    <3>1. s.size = 9
      BY ONLY <1>4, <2>1
    <3>2. /\ s.fields[w[1]] = "short" /\ s.fields[w[2]] = "short" /\ s.fields[w[3]] = "short"
          /\ s.fields[w[4]] = "byte" /\ s.fields[w[5]] = "byte"
      BY ONLY <1>4, <2>1
    <3> QED
      BY ONLY <2>2, <3>1, <3>2, WidthFacts, SumOf DEF Sized
  <2> QED
    BY <1>4, <2>1, <2>2, <2>3 DEF Agree
<1>10. Agree("set_block_server")
  <2>1. PICK s, w : /\ s = Codec!Structs["set_block_server"]
                    /\ w = Codec!WriteOrder["set_block_server"]
    OBVIOUS
  <2>2. Named(s.fields, w) /\ Len(w) = 4
    BY ONLY <1>5, <2>1 DEF Named, NumberTypes
  <2>3. Sized(s, w)
    <3>1. s.size = 8
      BY ONLY <1>5, <2>1
    <3>2. /\ s.fields[w[1]] = "short" /\ s.fields[w[2]] = "short" /\ s.fields[w[3]] = "short"
          /\ s.fields[w[4]] = "byte"
      BY ONLY <1>5, <2>1
    <3> QED
      BY ONLY <2>2, <3>1, <3>2, WidthFacts, SumOf DEF Sized
  <2> QED
    BY <1>5, <2>1, <2>2, <2>3 DEF Agree
<1> QED
  BY <1>6, <1>7, <1>8, <1>9, <1>10

(* So do those of players, *)
LEMMA PlayerAgree ==
  \A kind \in {"set_player_position", "spawn_player", "despawn_player", "chat_message",
                  "disconnect_player", "set_playerid"} : Agree(kind)
<1> USE DEF Codec!Structs, Codec!SessionStructs, Codec!PlayerStructs,
            Codec!ExtensionStructs, Codec!MoveStructs, Codec!WriteOrder, Codec!SessionOrder,
            Codec!BlockOrder, Codec!PositionOrder, Codec!SpawnOrder, Codec!TextOrder,
            Codec!ExtensionOrder, Codec!ReadOrder, Codec!ParseOrder,
            Codec!ParseExtensionOrder, Codec!Joined
<1>1. /\ Codec!Structs["set_player_position"] = [size |-> 10, fields |->
           [player_id |-> "byte", x |-> "short", y |-> "short", z |-> "short", yaw |-> "byte",
            pitch |-> "byte"]]
      /\ Codec!WriteOrder["set_player_position"] = <<"player_id", "x", "y", "z", "yaw", "pitch">>
      /\ Codec!ReadOrder["set_player_position"] = <<"player_id", "x", "y", "z", "yaw", "pitch">>
  OBVIOUS
<1>2. /\ Codec!Structs["spawn_player"] = [size |-> 74, fields |->
           [player_id |-> "byte", name |-> "string", x |-> "short", y |-> "short",
            z |-> "short", yaw |-> "byte", pitch |-> "byte"]]
      /\ Codec!WriteOrder["spawn_player"] =
           <<"player_id", "name", "x", "y", "z", "yaw", "pitch">>
      /\ Codec!ReadOrder["spawn_player"] =
           <<"player_id", "name", "x", "y", "z", "yaw", "pitch">>
  OBVIOUS
<1>3. /\ Codec!Structs["despawn_player"] = [size |-> 2, fields |-> [player_id |-> "byte"]]
      /\ Codec!WriteOrder["despawn_player"] = <<"player_id">>
      /\ Codec!ReadOrder["despawn_player"] = <<"player_id">>
  OBVIOUS
<1>4. /\ Codec!Structs["chat_message"] = [size |-> 66, fields |->
           [player_id |-> "byte", message |-> "string"]]
      /\ Codec!WriteOrder["chat_message"] = <<"player_id", "message">>
      /\ Codec!ReadOrder["chat_message"] = <<"player_id", "message">>
  OBVIOUS
<1>5. /\ Codec!Structs["disconnect_player"] = [size |-> 65, fields |-> [reason |-> "string"]]
      /\ Codec!WriteOrder["disconnect_player"] = <<"reason">>
      /\ Codec!ReadOrder["disconnect_player"] = <<"reason">>
  OBVIOUS
<1>6. /\ Codec!Structs["set_playerid"] = [size |-> 2, fields |-> [player_id |-> "byte"]]
      /\ Codec!WriteOrder["set_playerid"] = <<"player_id">>
      /\ Codec!ReadOrder["set_playerid"] = <<"player_id">>
  OBVIOUS
<1> HIDE DEF Codec!Structs, Codec!SessionStructs, Codec!PlayerStructs,
            Codec!ExtensionStructs, Codec!MoveStructs, Codec!WriteOrder, Codec!SessionOrder,
            Codec!BlockOrder, Codec!PositionOrder, Codec!SpawnOrder, Codec!TextOrder,
            Codec!ExtensionOrder, Codec!ReadOrder, Codec!ParseOrder,
            Codec!ParseExtensionOrder, Codec!Joined
<1>7. Agree("set_player_position")
  <2>1. PICK s, w : /\ s = Codec!Structs["set_player_position"]
                    /\ w = Codec!WriteOrder["set_player_position"]
    OBVIOUS
  <2>2. Named(s.fields, w) /\ Len(w) = 6
    BY ONLY <1>1, <2>1 DEF Named, NumberTypes
  <2>3. Sized(s, w)
    <3>1. s.size = 10
      BY ONLY <1>1, <2>1
    <3>2. /\ s.fields[w[1]] = "byte" /\ s.fields[w[2]] = "short" /\ s.fields[w[3]] = "short"
          /\ s.fields[w[4]] = "short" /\ s.fields[w[5]] = "byte" /\ s.fields[w[6]] = "byte"
      BY ONLY <1>1, <2>1
    <3> QED
      BY ONLY <2>2, <3>1, <3>2, WidthFacts, SumOf DEF Sized
  <2> QED
    BY <1>1, <2>1, <2>2, <2>3 DEF Agree
<1>8. Agree("spawn_player")
  <2>1. PICK s, w : /\ s = Codec!Structs["spawn_player"]
                    /\ w = Codec!WriteOrder["spawn_player"]
    OBVIOUS
  <2>2. Named(s.fields, w) /\ Len(w) = 7
    BY ONLY <1>2, <2>1 DEF Named, NumberTypes
  <2>3. Sized(s, w)
    <3>1. s.size = 74
      BY ONLY <1>2, <2>1
    <3>2. /\ s.fields[w[1]] = "byte" /\ s.fields[w[2]] = "string" /\ s.fields[w[3]] = "short"
          /\ s.fields[w[4]] = "short" /\ s.fields[w[5]] = "short" /\ s.fields[w[6]] = "byte"
          /\ s.fields[w[7]] = "byte"
      BY ONLY <1>2, <2>1
    <3> QED
      BY ONLY <2>2, <3>1, <3>2, WidthFacts, SumOf DEF Sized
  <2> QED
    BY <1>2, <2>1, <2>2, <2>3 DEF Agree
<1>9. Agree("despawn_player")
  <2>1. PICK s, w : /\ s = Codec!Structs["despawn_player"]
                    /\ w = Codec!WriteOrder["despawn_player"]
    OBVIOUS
  <2>2. Named(s.fields, w) /\ Len(w) = 1
    BY ONLY <1>3, <2>1 DEF Named, NumberTypes
  <2>3. Sized(s, w)
    <3>1. s.size = 2
      BY ONLY <1>3, <2>1
    <3>2. /\ s.fields[w[1]] = "byte"
      BY ONLY <1>3, <2>1
    <3> QED
      BY ONLY <2>2, <3>1, <3>2, WidthFacts, SumOf DEF Sized
  <2> QED
    BY <1>3, <2>1, <2>2, <2>3 DEF Agree
<1>10. Agree("chat_message")
  <2>1. PICK s, w : /\ s = Codec!Structs["chat_message"]
                    /\ w = Codec!WriteOrder["chat_message"]
    OBVIOUS
  <2>2. Named(s.fields, w) /\ Len(w) = 2
    BY ONLY <1>4, <2>1 DEF Named, NumberTypes
  <2>3. Sized(s, w)
    <3>1. s.size = 66
      BY ONLY <1>4, <2>1
    <3>2. /\ s.fields[w[1]] = "byte" /\ s.fields[w[2]] = "string"
      BY ONLY <1>4, <2>1
    <3> QED
      BY ONLY <2>2, <3>1, <3>2, WidthFacts, SumOf DEF Sized
  <2> QED
    BY <1>4, <2>1, <2>2, <2>3 DEF Agree
<1>11. Agree("disconnect_player")
  <2>1. PICK s, w : /\ s = Codec!Structs["disconnect_player"]
                    /\ w = Codec!WriteOrder["disconnect_player"]
    OBVIOUS
  <2>2. Named(s.fields, w) /\ Len(w) = 1
    BY ONLY <1>5, <2>1 DEF Named, NumberTypes
  <2>3. Sized(s, w)
    <3>1. s.size = 65
      BY ONLY <1>5, <2>1
    <3>2. /\ s.fields[w[1]] = "string"
      BY ONLY <1>5, <2>1
    <3> QED
      BY ONLY <2>2, <3>1, <3>2, WidthFacts, SumOf DEF Sized
  <2> QED
    BY <1>5, <2>1, <2>2, <2>3 DEF Agree
<1>12. Agree("set_playerid")
  <2>1. PICK s, w : /\ s = Codec!Structs["set_playerid"]
                    /\ w = Codec!WriteOrder["set_playerid"]
    OBVIOUS
  <2>2. Named(s.fields, w) /\ Len(w) = 1
    BY ONLY <1>6, <2>1 DEF Named, NumberTypes
  <2>3. Sized(s, w)
    <3>1. s.size = 2
      BY ONLY <1>6, <2>1
    <3>2. /\ s.fields[w[1]] = "byte"
      BY ONLY <1>6, <2>1
    <3> QED
      BY ONLY <2>2, <3>1, <3>2, WidthFacts, SumOf DEF Sized
  <2> QED
    BY <1>6, <2>1, <2>2, <2>3 DEF Agree
<1> QED
  BY <1>7, <1>8, <1>9, <1>10, <1>11, <1>12

(* those of the extensions, *)
LEMMA ExtensionAgree ==
  \A kind \in {"ext_info", "ext_entry", "ext_message", "ext_ping"} : Agree(kind)
<1> USE DEF Codec!Structs, Codec!SessionStructs, Codec!PlayerStructs,
            Codec!ExtensionStructs, Codec!MoveStructs, Codec!WriteOrder, Codec!SessionOrder,
            Codec!BlockOrder, Codec!PositionOrder, Codec!SpawnOrder, Codec!TextOrder,
            Codec!ExtensionOrder, Codec!ReadOrder, Codec!ParseOrder,
            Codec!ParseExtensionOrder, Codec!Joined
<1>1. /\ Codec!Structs["ext_info"] = [size |-> 67, fields |->
           [name |-> "string", count |-> "short"]]
      /\ Codec!WriteOrder["ext_info"] = <<"name", "count">>
      /\ Codec!ReadOrder["ext_info"] = <<"name", "count">>
  OBVIOUS
<1>2. /\ Codec!Structs["ext_entry"] = [size |-> 69, fields |->
           [name |-> "string", version |-> "int"]]
      /\ Codec!WriteOrder["ext_entry"] = <<"name", "version">>
      /\ Codec!ReadOrder["ext_entry"] = <<"name", "version">>
  OBVIOUS
<1>3. /\ Codec!Structs["ext_message"] = [size |-> 66, fields |->
           [type |-> "byte", message |-> "string"]]
      /\ Codec!WriteOrder["ext_message"] = <<"type", "message">>
      /\ Codec!ReadOrder["ext_message"] = <<"type", "message">>
  OBVIOUS
<1>4. /\ Codec!Structs["ext_ping"] = [size |-> 9, fields |-> [request_time |-> "uint64"]]
      /\ Codec!WriteOrder["ext_ping"] = <<"request_time">>
      /\ Codec!ReadOrder["ext_ping"] = <<"request_time">>
  OBVIOUS
<1> HIDE DEF Codec!Structs, Codec!SessionStructs, Codec!PlayerStructs,
            Codec!ExtensionStructs, Codec!MoveStructs, Codec!WriteOrder, Codec!SessionOrder,
            Codec!BlockOrder, Codec!PositionOrder, Codec!SpawnOrder, Codec!TextOrder,
            Codec!ExtensionOrder, Codec!ReadOrder, Codec!ParseOrder,
            Codec!ParseExtensionOrder, Codec!Joined
<1>5. Agree("ext_info")
  <2>1. PICK s, w : /\ s = Codec!Structs["ext_info"]
                    /\ w = Codec!WriteOrder["ext_info"]
    OBVIOUS
  <2>2. Named(s.fields, w) /\ Len(w) = 2
    BY ONLY <1>1, <2>1 DEF Named, NumberTypes
  <2>3. Sized(s, w)
    <3>1. s.size = 67
      BY ONLY <1>1, <2>1
    <3>2. /\ s.fields[w[1]] = "string" /\ s.fields[w[2]] = "short"
      BY ONLY <1>1, <2>1
    <3> QED
      BY ONLY <2>2, <3>1, <3>2, WidthFacts, SumOf DEF Sized
  <2> QED
    BY <1>1, <2>1, <2>2, <2>3 DEF Agree
<1>6. Agree("ext_entry")
  <2>1. PICK s, w : /\ s = Codec!Structs["ext_entry"]
                    /\ w = Codec!WriteOrder["ext_entry"]
    OBVIOUS
  <2>2. Named(s.fields, w) /\ Len(w) = 2
    BY ONLY <1>2, <2>1 DEF Named, NumberTypes
  <2>3. Sized(s, w)
    <3>1. s.size = 69
      BY ONLY <1>2, <2>1
    <3>2. /\ s.fields[w[1]] = "string" /\ s.fields[w[2]] = "int"
      BY ONLY <1>2, <2>1
    <3> QED
      BY ONLY <2>2, <3>1, <3>2, WidthFacts, SumOf DEF Sized
  <2> QED
    BY <1>2, <2>1, <2>2, <2>3 DEF Agree
<1>7. Agree("ext_message")
  <2>1. PICK s, w : /\ s = Codec!Structs["ext_message"]
                    /\ w = Codec!WriteOrder["ext_message"]
    OBVIOUS
  <2>2. Named(s.fields, w) /\ Len(w) = 2
    BY ONLY <1>3, <2>1 DEF Named, NumberTypes
  <2>3. Sized(s, w)
    <3>1. s.size = 66
      BY ONLY <1>3, <2>1
    <3>2. /\ s.fields[w[1]] = "byte" /\ s.fields[w[2]] = "string"
      BY ONLY <1>3, <2>1
    <3> QED
      BY ONLY <2>2, <3>1, <3>2, WidthFacts, SumOf DEF Sized
  <2> QED
    BY <1>3, <2>1, <2>2, <2>3 DEF Agree
<1>8. Agree("ext_ping")
  <2>1. PICK s, w : /\ s = Codec!Structs["ext_ping"]
                    /\ w = Codec!WriteOrder["ext_ping"]
    OBVIOUS
  <2>2. Named(s.fields, w) /\ Len(w) = 1
    BY ONLY <1>4, <2>1 DEF Named, NumberTypes
  <2>3. Sized(s, w)
    <3>1. s.size = 9
      BY ONLY <1>4, <2>1
    <3>2. /\ s.fields[w[1]] = "uint64"
      BY ONLY <1>4, <2>1
    <3> QED
      BY ONLY <2>2, <3>1, <3>2, WidthFacts, SumOf DEF Sized
  <2> QED
    BY <1>4, <2>1, <2>2, <2>3 DEF Agree
<1> QED
  BY <1>5, <1>6, <1>7, <1>8

(* and the relative moves. *)
LEMMA MoveAgree ==
  \A kind \in {"update_player_position", "update_player_coordinate",
                  "update_player_orientation"} : Agree(kind)
<1> USE DEF Codec!Structs, Codec!SessionStructs, Codec!PlayerStructs,
            Codec!ExtensionStructs, Codec!MoveStructs, Codec!WriteOrder, Codec!SessionOrder,
            Codec!BlockOrder, Codec!PositionOrder, Codec!SpawnOrder, Codec!TextOrder,
            Codec!ExtensionOrder, Codec!ReadOrder, Codec!ParseOrder,
            Codec!ParseExtensionOrder, Codec!Joined
<1>1. /\ Codec!Structs["update_player_position"] = [size |-> 7, fields |->
           [player_id |-> "byte", x |-> "sbyte", y |-> "sbyte", z |-> "sbyte", yaw |-> "byte",
            pitch |-> "byte"]]
      /\ Codec!WriteOrder["update_player_position"] =
           <<"player_id", "x", "y", "z", "yaw", "pitch">>
      /\ Codec!ReadOrder["update_player_position"] =
           <<"player_id", "x", "y", "z", "yaw", "pitch">>
  OBVIOUS
<1>2. /\ Codec!Structs["update_player_coordinate"] = [size |-> 5, fields |->
           [player_id |-> "byte", x |-> "sbyte", y |-> "sbyte", z |-> "sbyte"]]
      /\ Codec!WriteOrder["update_player_coordinate"] = <<"player_id", "x", "y", "z">>
      /\ Codec!ReadOrder["update_player_coordinate"] = <<"player_id", "x", "y", "z">>
  OBVIOUS
<1>3. /\ Codec!Structs["update_player_orientation"] = [size |-> 4, fields |->
           [player_id |-> "byte", yaw |-> "byte", pitch |-> "byte"]]
      /\ Codec!WriteOrder["update_player_orientation"] = <<"player_id", "yaw", "pitch">>
      /\ Codec!ReadOrder["update_player_orientation"] = <<"player_id", "yaw", "pitch">>
  OBVIOUS
<1> HIDE DEF Codec!Structs, Codec!SessionStructs, Codec!PlayerStructs,
            Codec!ExtensionStructs, Codec!MoveStructs, Codec!WriteOrder, Codec!SessionOrder,
            Codec!BlockOrder, Codec!PositionOrder, Codec!SpawnOrder, Codec!TextOrder,
            Codec!ExtensionOrder, Codec!ReadOrder, Codec!ParseOrder,
            Codec!ParseExtensionOrder, Codec!Joined
<1>4. Agree("update_player_position")
  <2>1. PICK s, w : /\ s = Codec!Structs["update_player_position"]
                    /\ w = Codec!WriteOrder["update_player_position"]
    OBVIOUS
  <2>2. Named(s.fields, w) /\ Len(w) = 6
    BY ONLY <1>1, <2>1 DEF Named, NumberTypes
  <2>3. Sized(s, w)
    <3>1. s.size = 7
      BY ONLY <1>1, <2>1
    <3>2. /\ s.fields[w[1]] = "byte" /\ s.fields[w[2]] = "sbyte" /\ s.fields[w[3]] = "sbyte"
          /\ s.fields[w[4]] = "sbyte" /\ s.fields[w[5]] = "byte" /\ s.fields[w[6]] = "byte"
      BY ONLY <1>1, <2>1
    <3> QED
      BY ONLY <2>2, <3>1, <3>2, WidthFacts, SumOf DEF Sized
  <2> QED
    BY <1>1, <2>1, <2>2, <2>3 DEF Agree
<1>5. Agree("update_player_coordinate")
  <2>1. PICK s, w : /\ s = Codec!Structs["update_player_coordinate"]
                    /\ w = Codec!WriteOrder["update_player_coordinate"]
    OBVIOUS
  <2>2. Named(s.fields, w) /\ Len(w) = 4
    BY ONLY <1>2, <2>1 DEF Named, NumberTypes
  <2>3. Sized(s, w)
    <3>1. s.size = 5
      BY ONLY <1>2, <2>1
    <3>2. /\ s.fields[w[1]] = "byte" /\ s.fields[w[2]] = "sbyte" /\ s.fields[w[3]] = "sbyte"
          /\ s.fields[w[4]] = "sbyte"
      BY ONLY <1>2, <2>1
    <3> QED
      BY ONLY <2>2, <3>1, <3>2, WidthFacts, SumOf DEF Sized
  <2> QED
    BY <1>2, <2>1, <2>2, <2>3 DEF Agree
<1>6. Agree("update_player_orientation")
  <2>1. PICK s, w : /\ s = Codec!Structs["update_player_orientation"]
                    /\ w = Codec!WriteOrder["update_player_orientation"]
    OBVIOUS
  <2>2. Named(s.fields, w) /\ Len(w) = 3
    BY ONLY <1>3, <2>1 DEF Named, NumberTypes
  <2>3. Sized(s, w)
    <3>1. s.size = 4
      BY ONLY <1>3, <2>1
    <3>2. /\ s.fields[w[1]] = "byte" /\ s.fields[w[2]] = "byte" /\ s.fields[w[3]] = "byte"
      BY ONLY <1>3, <2>1
    <3> QED
      BY ONLY <2>2, <3>1, <3>2, WidthFacts, SumOf DEF Sized
  <2> QED
    BY <1>3, <2>1, <2>2, <2>3 DEF Agree
<1> QED
  BY <1>4, <1>5, <1>6

(* They agree on every kind. *)
LEMMA KindsAgree == \A kind \in Codec!Kinds : Agree(kind) /\ kind # "level"
<1>1. Codec!Kinds = {"handshake", "ping", "level_initialize", "set_block_client",
                     "set_block_server"}
               \cup {"set_player_position", "spawn_player", "despawn_player", "chat_message",
                     "disconnect_player", "set_playerid"}
               \cup {"ext_info", "ext_entry", "ext_message", "ext_ping"}
               \cup {"update_player_position", "update_player_coordinate",
                     "update_player_orientation"}
  <2>1. DOMAIN Codec!SessionStructs = {"handshake", "ping", "level_initialize",
                                       "set_block_client", "set_block_server"}
    BY DEF Codec!SessionStructs
  <2>2. DOMAIN Codec!PlayerStructs = {"set_player_position", "spawn_player", "despawn_player",
                                      "chat_message", "disconnect_player", "set_playerid"}
    BY DEF Codec!PlayerStructs
  <2>3. DOMAIN Codec!ExtensionStructs = {"ext_info", "ext_entry", "ext_message", "ext_ping"}
    BY DEF Codec!ExtensionStructs
  <2>4. DOMAIN Codec!MoveStructs = {"update_player_position", "update_player_coordinate",
                                    "update_player_orientation"}
    BY DEF Codec!MoveStructs
  <2>5. Codec!Kinds = (DOMAIN Codec!SessionStructs \cup DOMAIN Codec!PlayerStructs)
                        \cup (DOMAIN Codec!ExtensionStructs \cup DOMAIN Codec!MoveStructs)
    <3>1. PICK a, b : /\ a = Codec!Joined(Codec!SessionStructs, Codec!PlayerStructs)
                      /\ b = Codec!Joined(Codec!ExtensionStructs, Codec!MoveStructs)
      OBVIOUS
    <3>2. DOMAIN a = DOMAIN Codec!SessionStructs \cup DOMAIN Codec!PlayerStructs
      BY <3>1 DEF Codec!Joined
    <3>3. DOMAIN b = DOMAIN Codec!ExtensionStructs \cup DOMAIN Codec!MoveStructs
      BY <3>1 DEF Codec!Joined
    <3>4. Codec!Kinds = DOMAIN Codec!Joined(a, b)
      BY <3>1 DEF Codec!Kinds, Codec!Structs
    <3>5. Codec!Kinds = DOMAIN a \cup DOMAIN b
      BY <3>4 DEF Codec!Joined
    <3> QED
      BY <3>2, <3>3, <3>5
  <2> QED
    BY <2>1, <2>2, <2>3, <2>4, <2>5
<1>2. \A kind \in Codec!Kinds : Agree(kind)
  BY <1>1, SessionAgree, PlayerAgree, ExtensionAgree, MoveAgree
<1>3. \A kind \in Codec!Kinds : kind # "level"
  BY <1>1
<1> QED
  BY <1>2, <1>3

----------------------------------------------------------------------------
(* A packet.  What a field of a type may hold.                             *)
Holds(type, x) == IF type = "string" THEN x \in Seq(STRING) ELSE Fits(type, x)

(* The cells of a packet of a kind. *)
Cells(kind) == Int \cup (STRING \cup {Codec!Blank}) \cup {kind}

(* A field has the width of its type and is read as it was written. *)
LEMMA FieldBack ==
  ASSUME Codec!CodecAssumption, NEW kind, NEW type \in NumberTypes \cup {"string"}, NEW x,
         Holds(type, x)
  PROVE  /\ Codec!WriteField(type, x) \in Seq(Cells(kind))
         /\ Len(Codec!WriteField(type, x)) = Codec!Width(type)
         /\ IF type = "string"
            THEN Codec!IsTextOf(Codec!ReadString(Codec!WriteField(type, x)), x)
            ELSE Codec!ReadNumber(type, Codec!WriteField(type, x)) = x
<1>1. CASE type = "string"
  <2>1. PICK b : b = Codec!WriteString(x)
    OBVIOUS
  <2>2. /\ b \in Seq(STRING \cup {Codec!Blank}) /\ Len(b) = 64
        /\ Codec!IsTextOf(Codec!ReadString(b), x)
    BY <1>1, <2>1, StringBack DEF Holds
  <2>3. Codec!WriteField(type, x) = b
    BY <1>1, <2>1 DEF Codec!WriteField
  <2>4. b \in Seq(Cells(kind))
    <3>1. PICK C : C = STRING \cup {Codec!Blank}
      OBVIOUS
    <3>2. b \in Seq(C) /\ \A c \in C : c \in Cells(kind)
      BY <2>2, <3>1 DEF Cells
    <3> QED
      BY ONLY <3>2
  <2> QED
    BY <1>1, <2>2, <2>3, <2>4, WidthFacts
<1>2. CASE type # "string"
  <2>1. type \in NumberTypes /\ Fits(type, x) /\ x \in Int
    BY <1>2 DEF Holds, Fits
  <2>2. PICK n \in 0 .. 8 : n = Codec!Width(type)
    BY <2>1, WidthFacts
  <2>3. PICK b : b = Codec!WriteNumber(x, n)
    OBVIOUS
  <2>4. Codec!WriteField(type, x) = b
    BY <1>2, <2>2, <2>3 DEF Codec!WriteField
  <2>5. Codec!ReadNumber(type, b) = x
    BY <2>1, <2>2, <2>3, NumberBack
  <2>6. b \in Seq(Cells(kind)) /\ Len(b) = n
    <3>1. PICK d \in Nat \ {0} : d = Base
      BY DEF Codec!CodecAssumption
    <3>2. b = [i \in 1 .. n |-> (x \div Codec!Power[n - i]) % d]
      BY <2>3, <3>1 DEF Codec!WriteNumber
    <3>3. PICK D : D = Cells(kind)
      OBVIOUS
    <3>4. \A y \in Int : y \in D
      BY <3>3 DEF Cells
    <3>5. ASSUME NEW i \in 1 .. n PROVE (x \div Codec!Power[n - i]) % d \in D
      <4>1. PICK p \in Nat \ {0} : p = Codec!Power[n - i]
        BY PowerFacts
      <4>2. PICK y \in Int : y = x \div p
        BY <2>1, Division
      <4>3. y % d \in Nat
        BY Division
      <4> QED
        BY <3>4, <4>1, <4>2, <4>3
    <3>6. \A i \in 1 .. n : b[i] \in D
      BY <3>2, <3>5
    <3>7. b = [i \in 1 .. n |-> b[i]]
      BY <3>2
    <3>8. b \in Seq(D) /\ Len(b) = n
      BY ONLY <3>6, <3>7, n \in Nat
    <3> QED
      BY <3>3, <3>8
  <2> QED
    BY <1>2, <2>2, <2>4, <2>5, <2>6
<1> QED
  BY <1>1, <1>2

(* e[i] is where the receiver is after i fields. *)
Steps(kind, n, e) ==
    /\ e[0] = 1
    /\ \A i \in 1 .. n :
         e[i] = e[i - 1] + Codec!Width(Codec!Structs[kind].fields[Codec!ReadOrder[kind][i]])

(* Field i begins where the fields before it have moved the receiver. *)
LEMMA OffsetIs ==
  ASSUME NEW kind, NEW n \in Nat, NEW e, Steps(kind, n, e), NEW i \in 1 .. n
  PROVE  Codec!Offset(kind, i) = e[i - 1]
<1>1. PICK w : \A j \in 1 .. n :
                 w[j] = Codec!Width(Codec!Structs[kind].fields[Codec!ReadOrder[kind][j]])
  <2> DEFINE v == [j \in 1 .. n |->
                     Codec!Width(Codec!Structs[kind].fields[Codec!ReadOrder[kind][j]])]
  <2>1. \A j \in 1 .. n :
          v[j] = Codec!Width(Codec!Structs[kind].fields[Codec!ReadOrder[kind][j]])
    OBVIOUS
  <2> QED
    BY <2>1
<1>2. e[0] = 1 /\ \A j \in 1 .. n : e[j] = e[j - 1] + w[j]
  BY <1>1 DEF Steps
<1> DEFINE Is(f) == f = [j \in 1 .. i |-> IF j = 1 THEN 1 ELSE f[j - 1]
                      + Codec!Width(Codec!Structs[kind].fields[Codec!ReadOrder[kind][j - 1]])]
<1>3. PICK f : f = CHOOSE h : Is(h)
  OBVIOUS
<1>4. Codec!Offset(kind, i) = f[i]
  BY <1>3 DEF Codec!Offset
<1>5. PICK h : h = [j \in 1 .. i |-> e[j - 1]]
  OBVIOUS
<1>6. \A j \in 1 .. i : j # 1 => /\ j - 1 \in 1 .. i /\ j - 1 \in 1 .. n
  OBVIOUS
<1>7. Is(h)
  <2>1. ASSUME NEW j \in 1 .. i
        PROVE  h[j] = IF j = 1 THEN 1 ELSE h[j - 1]
                 + Codec!Width(Codec!Structs[kind].fields[Codec!ReadOrder[kind][j - 1]])
    <3>1. CASE j = 1
      <4>1. j - 1 = 0
        BY <3>1
      <4> QED
        BY <1>2, <1>5, <3>1, <4>1
    <3>2. CASE j # 1
      <4>1. PICK k \in 1 .. n : k = j - 1 /\ k \in 1 .. i
        BY <1>6, <3>2
      <4>2. h[j] = e[k] /\ h[k] = e[k - 1]
        BY <1>5, <4>1
      <4>3. e[k] = e[k - 1] + w[k]
        BY <1>2
      <4>4. w[k] = Codec!Width(Codec!Structs[kind].fields[Codec!ReadOrder[kind][k]])
        BY <1>1
      <4> QED
        BY <3>2, <4>1, <4>2, <4>3, <4>4
    <3> QED
      BY <3>1, <3>2
  <2> QED
    BY <1>5, <2>1
<1>8. Is(f)
  BY <1>3, <1>7
<1>9. \A j \in 1 .. i : f[j] = IF j = 1 THEN 1 ELSE f[j - 1] + w[j - 1]
  BY <1>1, <1>6, <1>8
<1>10. PICK S : S = {j \in 0 .. i : j # 0 => f[j] = e[j - 1]}
  OBVIOUS
<1>11. ASSUME NEW m \in 0 .. i, m < i, m \in S PROVE m + 1 \in S
  <2>1. PICK k \in 1 .. i : k = m + 1 /\ k - 1 = m
    BY <1>11
  <2>2. CASE m = 0
    <3>1. f[k] = 1 /\ e[k - 1] = 1
      BY <1>2, <1>9, <2>1, <2>2
    <3> QED
      BY <1>10, <2>1, <3>1
  <2>3. CASE m # 0
    <3>1. k # 1 /\ m \in 1 .. n
      BY <2>1, <2>3
    <3>2. f[k] = f[k - 1] + w[k - 1]
      BY <1>9, <3>1
    <3>3. f[m] = e[m - 1] /\ e[m] = e[m - 1] + w[m]
      BY <1>2, <1>10, <1>11, <2>3, <3>1
    <3>4. f[k] = e[k - 1]
      BY <2>1, <3>2, <3>3
    <3> QED
      BY <1>10, <2>1, <3>4
  <2> QED
    BY <2>2, <2>3
<1>12. i \in S
  <2>1. 0 \in S
    BY <1>10
  <2>2. \A m \in 0 .. i : m < i /\ m \in S => m + 1 \in S
    BY <1>11
  <2>3. i \in Nat /\ \A j \in 0 .. i : j \in S
    BY <2>1, <2>2, UpTo
  <2> QED
    BY <2>3
<1> QED
  BY <1>4, <1>10, <1>12

(* A sequence found inside another one is cut out of it. *)
LEMMA CutOut ==
  ASSUME NEW T, NEW a \in Seq(T), NEW b \in Nat, NEW v \in Seq(T), b + Len(v) <= Len(a),
         \A x \in 1 .. Len(v) : a[b + x] = v[x]
  PROVE  SubSeq(a, b + 1, b + Len(v)) = v
<1>1. PICK w \in Nat, l \in Nat : w = Len(v) /\ l = Len(a) /\ b + w <= l
  OBVIOUS
<1>2. PICK c : c = SubSeq(a, b + 1, b + w)
  OBVIOUS
<1>3. c \in Seq(T) /\ Len(c) = w
  BY <1>1, <1>2
<1>4. \A x \in 1 .. w : c[x] = a[b + x]
  <2>1. \A x \in 1 .. w : b + 1 + x - 1 = b + x
    OBVIOUS
  <2> QED
    BY <1>1, <1>2, <1>3, <2>1
<1>5. \A x \in 1 .. w : c[x] = v[x]
  BY <1>1, <1>4
<1>6. c = [x \in 1 .. w |-> c[x]] /\ v = [x \in 1 .. w |-> v[x]]
  BY <1>1, <1>3
<1> QED
  BY <1>1, <1>2, <1>5, <1>6

(* What is put into a packet of any kind, numbers that fit their types and   *)
(* strings of any length, is what is read from its bytes.                    *)
THEOREM PacketBack ==
  ASSUME Codec!CodecAssumption, NEW kind \in Codec!Kinds, NEW fields,
         \A name \in DOMAIN Codec!Structs[kind].fields :
           Holds(Codec!Structs[kind].fields[name], fields[name]),
         NEW bytes, bytes = Codec!Write([kind |-> kind, fields |-> fields])
  PROVE  /\ Len(bytes) = Codec!Structs[kind].size /\ bytes # <<>> /\ bytes[1] = kind
         /\ \A name \in DOMAIN Codec!Structs[kind].fields :
              IF Codec!Structs[kind].fields[name] = "string"
              THEN Codec!IsTextOf(Codec!Read(bytes)[name], fields[name])
              ELSE Codec!Read(bytes)[name] = fields[name]
<1>0. PICK T : T = Cells(kind)
  OBVIOUS
<1>1. PICK struct : struct = Codec!Structs[kind]
  OBVIOUS
<1>2. PICK order, types : order = Codec!WriteOrder[kind] /\ types = struct.fields
  OBVIOUS
<1>3. /\ Codec!ReadOrder[kind] = order /\ Named(types, order) /\ Sized(struct, order)
  BY <1>1, <1>2, KindsAgree DEF Agree
<1>4. PICK n \in Nat : n = Len(order) /\ DOMAIN order = 1 .. n
  BY <1>3 DEF Named
<1>5. \A i \in 1 .. n : order[i] \in DOMAIN types /\ types[order[i]] \in NumberTypes \cup {"string"}
  BY <1>3, <1>4 DEF Named
<1>6. \A name \in DOMAIN types : Holds(types[name], fields[name])
  BY <1>1, <1>2
<1>7. PICK s : s = [i \in 1 .. n |-> Codec!WriteField(types[order[i]], fields[order[i]])]
  OBVIOUS
<1>8. ASSUME NEW i \in 1 .. n
      PROVE  /\ s[i] \in Seq(T) /\ Len(s[i]) = Codec!Width(types[order[i]])
             /\ IF types[order[i]] = "string"
                THEN Codec!IsTextOf(Codec!ReadString(s[i]), fields[order[i]])
                ELSE Codec!ReadNumber(types[order[i]], s[i]) = fields[order[i]]
  <2>1. PICK type \in NumberTypes \cup {"string"} : type = types[order[i]]
    BY <1>5
  <2>x. PICK x : x = fields[order[i]]
    OBVIOUS
  <2>2. Holds(type, x)
    BY <1>5, <1>6, <2>1, <2>x
  <2>3. s[i] = Codec!WriteField(type, x)
    BY <1>7, <2>1, <2>x
  <2> QED
    BY <1>0, <2>1, <2>x, <2>2, <2>3, FieldBack
<1>9. s \in [1 .. n -> Seq(T)]
  BY <1>7, <1>8
<1>10. PICK g \in [0 .. n -> Seq(T)] : Chained(g, s, n)
  BY <1>9, ChainExists
<1>p. /\ \A i \in 0 .. n : g[i] \in Seq(T) /\ Len(g[i]) \in Nat
      /\ \A i \in 1 .. n : Len(g[i]) = Len(g[i - 1]) + Len(s[i]) /\ Len(g[i]) <= Len(g[n])
      /\ \A i \in 1 .. n : \A x \in 1 .. Len(s[i]) : g[n][Len(g[i - 1]) + x] = s[i][x]
  <2>1. \A i \in 0 .. n : g[i] \in Seq(T) /\ Len(g[i]) \in Nat
    BY ONLY <1>10
  <2>2. ASSUME NEW i \in 1 .. n PROVE Piece(g, s, n, i)
    BY ONLY <1>9, <1>10, ChainPieces
  <2> QED
    BY ONLY <2>1, <2>2 DEF Piece
<1>11. PICK body \in Seq(T) : body = g[n]
  OBVIOUS
<1>12. bytes = <<kind>> \o body
  <2>1. Codec!FlattenSeq(s) = body
    BY <1>9, <1>10, <1>11, FlattenIsChain
  <2>2. PICK p : p = [kind |-> kind, fields |-> fields]
    OBVIOUS
  <2>3. p.kind = kind /\ p.fields = fields
    BY <2>2
  <2>4. Codec!Write(p) = <<kind>> \o Codec!FlattenSeq(s)
    BY <1>1, <1>2, <1>4, <1>7, <2>3 DEF Codec!Write
  <2> QED
    BY <2>1, <2>2, <2>4
<1>13. /\ kind \in T /\ bytes \in Seq(T) /\ Len(bytes) = 1 + Len(body) /\ bytes[1] = kind
       /\ \A x \in 1 .. Len(body) : bytes[1 + x] = body[x]
  <2>1. kind \in T
    BY <1>0 DEF Cells
  <2>2. <<kind>> \in Seq(T) /\ Len(<<kind>>) = 1 /\ <<kind>>[1] = kind
    BY ONLY <2>1
  <2> QED
    BY ONLY <1>12, <2>1, <2>2
<1>14. PICK e : e = [i \in 0 .. n |-> 1 + Len(g[i])]
  OBVIOUS
<1>15. e[0] = 1 /\ \A i \in 1 .. n : e[i] = e[i - 1] + Codec!Width(types[order[i]])
  <2>1. e[0] = 1
    <3>1. 0 \in 0 .. n /\ g[0] = <<>>
      BY <1>10 DEF Chained
    <3> QED
      BY <1>14, <3>1
  <2>2. ASSUME NEW i \in 1 .. n PROVE e[i] = e[i - 1] + Codec!Width(types[order[i]])
    <3>1. PICK j \in 0 .. n : j = i - 1 /\ i \in 0 .. n
      OBVIOUS
    <3>2. e[i] = 1 + Len(g[i]) /\ e[j] = 1 + Len(g[j])
      BY <1>14, <3>1
    <3>3. Len(g[i]) = Len(g[j]) + Len(s[i]) /\ Len(g[i]) \in Nat /\ Len(g[j]) \in Nat
      BY <1>p, <3>1
    <3>4. Len(s[i]) = Codec!Width(types[order[i]])
      BY <1>8
    <3> QED
      BY <3>1, <3>2, <3>3, <3>4
  <2> QED
    BY <2>1, <2>2
<1>16. Len(bytes) = struct.size
  <2>1. e[n] = struct.size
    BY <1>2, <1>3, <1>4, <1>15 DEF Sized
  <2>2. e[n] = 1 + Len(body)
    BY <1>11, <1>14
  <2> QED
    BY <1>13, <2>1, <2>2
<1>17. bytes # <<>>
  BY <1>13
<1>18. ASSUME NEW name \in DOMAIN types
       PROVE  IF types[name] = "string" THEN Codec!IsTextOf(Codec!Read(bytes)[name], fields[name])
              ELSE Codec!Read(bytes)[name] = fields[name]
  <2>1. PICK i \in 1 .. n : order[i] = name
    BY <1>3, <1>4 DEF Named
  <2>2. Codec!Place(kind, name) = i
    <3>1. \A j \in 1 .. n : order[j] = name => j = i
      BY <1>3, <1>4, <2>1 DEF Named
    <3> QED
      BY <1>3, <1>4, <2>1, <3>1 DEF Codec!Place
  <2>3. PICK b \in Nat : b = Len(g[i - 1])
    <3>1. i - 1 \in 0 .. n
      OBVIOUS
    <3> QED
      BY <1>p, <3>1
  <2>4. Codec!Offset(kind, i) = 1 + b
    <3>1. Steps(kind, n, e)
      BY <1>1, <1>2, <1>3, <1>15 DEF Steps
    <3>2. Codec!Offset(kind, i) = e[i - 1]
      BY ONLY <3>1, OffsetIs
    <3>3. i - 1 \in 0 .. n
      OBVIOUS
    <3> QED
      BY <1>14, <2>3, <3>2, <3>3
  <2>5. PICK w \in Nat, v \in Seq(T) : w = Codec!Width(types[name]) /\ v = s[i] /\ Len(v) = w
    BY <1>8, <2>1
  <2>6. /\ b + w <= Len(body) /\ \A x \in 1 .. w : body[b + x] = v[x]
    <3>1. Len(g[i]) = b + w /\ Len(g[i]) <= Len(body)
      BY <1>p, <1>11, <2>3, <2>5
    <3>2. \A x \in 1 .. w : body[b + x] = v[x]
      BY <1>p, <1>11, <2>3, <2>5
    <3> QED
      BY <3>1, <3>2
  <2>7. PICK begin \in Nat : begin = 1 + b
    OBVIOUS
  <2>8. SubSeq(bytes, begin + 1, begin + w) = v
    <3>1. PICK l \in Nat : l = Len(body) /\ Len(bytes) = 1 + l /\ b + w <= l
      BY <1>13, <2>6
    <3>2. ASSUME NEW x \in 1 .. w PROVE bytes[begin + x] = v[x]
      <4>1. PICK y \in 1 .. l : y = b + x /\ 1 + y = begin + x
        BY ONLY <2>7, <3>1
      <4>2. bytes[1 + y] = body[y]
        BY <1>13, <3>1
      <4> QED
        BY <2>6, <4>1, <4>2
    <3>3. begin + w <= Len(bytes)
      BY <2>7, <3>1
    <3>4. bytes \in Seq(T) /\ Len(v) = w
      BY <1>13, <2>5
    <3> QED
      BY ONLY <3>2, <3>3, <3>4, CutOut
  <2>9. PICK type : type = types[name]
    OBVIOUS
  <2>10. Codec!Read(bytes)[name] = IF type = "string" THEN Codec!ReadString(v)
                                   ELSE Codec!ReadNumber(type, v)
    <3>1. Codec!Read(bytes)[name]
            = IF type = "string" THEN Codec!ReadString(SubSeq(bytes, begin + 1, begin + w))
              ELSE Codec!ReadNumber(type, SubSeq(bytes, begin + 1, begin + w))
      BY <1>1, <1>2, <1>13, <2>2, <2>4, <2>5, <2>7, <2>9 DEF Codec!Read
    <3> QED
      BY <2>8, <3>1
  <2> QED
    BY <1>8, <2>1, <2>5, <2>9, <2>10
<1> QED
  BY <1>1, <1>2, <1>13, <1>16, <1>17, <1>18

----------------------------------------------------------------------------
(* The level.  c at a time, N pieces are just enough for m: all but the last *)
(* one are full.                                                             *)
LEMMA Parts ==
  ASSUME NEW c \in Nat \ {0}, NEW m \in Nat, NEW N, N = (m + c - 1) \div c
  PROVE  /\ N \in Nat /\ m <= N * c
         /\ \A k \in 1 .. N : /\ (k - 1) * c \in Nat /\ (k - 1) * c < m
                              /\ k * c = (k - 1) * c + c /\ (k < N => k * c < m)
<1>1. PICK q \in Int, r \in Nat : q = N /\ m + c - 1 = c * q + r /\ r < c
  BY Division
<1>2. q > -1
  <2>1. q <= -1 => c * q <= -c
    OBVIOUS
  <2> QED
    BY <1>1, <2>1
<1>3. m <= N * c
  <2>1. N * c = c * q
    BY <1>1
  <2> QED
    BY <1>1, <2>1
<1>4. ASSUME NEW k \in Int, k < N PROVE k * c < m
  <2>1. k + 1 <= q => c * (k + 1) <= c * q
    OBVIOUS
  <2>2. c * (k + 1) = k * c + c
    OBVIOUS
  <2> QED
    BY <1>1, <1>4, <2>1, <2>2
<1>5. ASSUME NEW k \in 1 .. N
      PROVE  /\ (k - 1) * c \in Nat /\ (k - 1) * c < m
             /\ k * c = (k - 1) * c + c /\ (k < N => k * c < m)
  <2>1. PICK j \in Nat : j = k - 1 /\ j < N
    BY <1>1
  <2>2. j * c \in Nat /\ j * c < m
    BY <1>4, <2>1
  <2>3. k * c = j * c + c
    BY <2>1
  <2>4. k < N => k * c < m
    BY <1>4
  <2> QED
    BY <2>1, <2>2, <2>3, <2>4
<1> QED
  BY <1>1, <1>2, <1>3, <1>5

(* Two sequences, one behind the other. *)
LEMMA Appended ==
  ASSUME NEW T, NEW p \in Seq(T), NEW q \in Seq(T)
  PROVE  /\ p \o q \in Seq(T) /\ Len(p \o q) = Len(p) + Len(q)
         /\ \A i \in 1 .. Len(p) : (p \o q)[i] = p[i]
         /\ \A i \in 1 .. Len(q) : (p \o q)[Len(p) + i] = q[i]
<1>1. /\ p \o q \in Seq(T) /\ Len(p \o q) = Len(p) + Len(q)
      /\ \A i \in 1 .. Len(p) + Len(q) :
           (p \o q)[i] = IF i <= Len(p) THEN p[i] ELSE q[i - Len(p)]
  BY ConcatProperties
<1>2. Len(p) \in Nat /\ Len(q) \in Nat
  OBVIOUS
<1>3. ASSUME NEW i \in 1 .. Len(p) PROVE (p \o q)[i] = p[i]
  <2>1. i \in 1 .. Len(p) + Len(q) /\ i <= Len(p)
    BY <1>2
  <2> QED
    BY <1>1, <2>1
<1>4. ASSUME NEW i \in 1 .. Len(q) PROVE (p \o q)[Len(p) + i] = q[i]
  <2>1. /\ Len(p) + i \in 1 .. Len(p) + Len(q) /\ ~(Len(p) + i <= Len(p))
        /\ Len(p) + i - Len(p) = i
    BY <1>2
  <2> QED
    BY <1>1, <2>1
<1> QED
  BY <1>1, <1>3, <1>4

(* What the chunks hold. *)
LevelCells(m) ==
    {"level_datachunk", Codec!Junk} \cup Int \cup {Codec!Stream(m)[i] : i \in 1 .. m}

(* A chunk has three cells more than its data, and says how much that is. *)
LEMMA ChunkFacts ==
  ASSUME Codec!CodecAssumption, NEW m \in Nat, NEW k \in 1 .. Codec!ChunkCount(m)
  PROVE  \E l \in 1 .. ChunkSize :
           /\ l = Codec!ChunkLength(m, k) /\ (k - 1) * ChunkSize + l <= m
           /\ (k - 1) * ChunkSize \in Nat
           /\ (k < Codec!ChunkCount(m) => l = ChunkSize)
           /\ (k = Codec!ChunkCount(m) => (k - 1) * ChunkSize + l = m)
           /\ Codec!Chunk(m, k) \in Seq(LevelCells(m)) /\ Len(Codec!Chunk(m, k)) = ChunkSize + 3
           /\ Codec!Chunk(m, k)[2] = l
           /\ \A i \in 1 .. l :
                Codec!Chunk(m, k)[2 + i] = Codec!Stream(m)[(k - 1) * ChunkSize + i]
<1>1. PICK c \in Nat \ {0} : c = ChunkSize
  BY DEF Codec!CodecAssumption
<1>2. PICK N : N = Codec!ChunkCount(m) /\ N = (m + c - 1) \div c
  BY <1>1 DEF Codec!ChunkCount
<1>3. PICK b \in Nat : /\ b = (k - 1) * c /\ b < m /\ k * c = b + c /\ (k < N => b + c < m)
                       /\ m <= N * c
  BY <1>2, Parts
<1>4. PICK l \in 1 .. c : /\ l = Codec!ChunkLength(m, k) /\ b + l <= m
                          /\ (k < N => l = c) /\ (k = N => b + l = m)
  <2>1. Codec!ChunkLength(m, k) = IF b + c <= m THEN c ELSE m - b
    BY <1>1, <1>3 DEF Codec!ChunkLength
  <2>2. k = N => m <= b + c
    BY <1>3
  <2> QED
    BY <1>3, <2>1, <2>2
<1>5. PICK T : T = LevelCells(m)
  OBVIOUS
<1>6. PICK stream : stream = Codec!Stream(m) /\ \A i \in 1 .. m : stream[i] \in T
  BY <1>5 DEF LevelCells
<1>7. PICK junk \in T : junk = Codec!Junk
  BY <1>5 DEF LevelCells
<1>8. PICK body : body = [i \in 1 .. c |-> IF i <= l THEN stream[b + i] ELSE junk]
  OBVIOUS
<1>9. body \in Seq(T) /\ Len(body) = c /\ \A i \in 1 .. l : body[i] = stream[b + i]
  <2>1. ASSUME NEW i \in 1 .. c PROVE body[i] \in T
    <3>1. CASE i <= l
      <4>1. b + i \in 1 .. m
        BY <1>4, <3>1
      <4> QED
        BY <1>6, <1>8, <3>1, <4>1
    <3>2. CASE ~(i <= l)
      BY <1>8, <3>2
    <3> QED
      BY <3>1, <3>2
  <2>2. body = [i \in 1 .. c |-> body[i]]
    BY <1>8
  <2>3. \A i \in 1 .. l : i \in 1 .. c /\ i <= l
    OBVIOUS
  <2> QED
    BY <1>8, <2>1, <2>2, <2>3
<1>10. PICK id, len : id = "level_datachunk" /\ len = l
  OBVIOUS
<1>11. id \in T /\ len \in T /\ 0 \in T
  BY <1>5, <1>10 DEF LevelCells
<1>12. PICK chunk : chunk = Codec!Chunk(m, k)
  OBVIOUS
<1>13. chunk = <<id, len>> \o body \o <<0>>
  BY <1>1, <1>3, <1>4, <1>6, <1>7, <1>8, <1>10, <1>12 DEF Codec!Chunk
<1>14. /\ chunk \in Seq(T) /\ Len(chunk) = 2 + c + 1 /\ chunk[2] = len
       /\ \A i \in 1 .. c : chunk[2 + i] = body[i]
  <2>1. PICK p : p = <<id, len>>
    OBVIOUS
  <2>2. p \in Seq(T) /\ Len(p) = 2 /\ p[2] = len
    BY ONLY <1>11, <2>1
  <2>a. PICK a : a = p \o body
    OBVIOUS
  <2>3. /\ a \in Seq(T) /\ Len(a) = 2 + c /\ a[2] = len
        /\ \A i \in 1 .. c : a[2 + i] = body[i]
    <3>1. /\ p \o body \in Seq(T) /\ Len(p \o body) = Len(p) + Len(body)
          /\ \A i \in 1 .. Len(p) : (p \o body)[i] = p[i]
          /\ \A i \in 1 .. Len(body) : (p \o body)[Len(p) + i] = body[i]
      <4>1. p \in Seq(T) /\ body \in Seq(T)
        BY <1>9, <2>2
      <4> QED
        BY ONLY <4>1, Appended
    <3>2. 2 \in 1 .. 2
      OBVIOUS
    <3> QED
      BY <1>9, <2>2, <2>a, <3>1, <3>2
  <2>4. <<0>> \in Seq(T) /\ Len(<<0>>) = 1
    BY ONLY <1>11
  <2>5. chunk = a \o <<0>>
    BY <1>13, <2>1, <2>a
  <2>6. \A i \in 1 .. 2 + c : chunk[i] = a[i]
    BY ONLY <2>3, <2>4, <2>5
  <2>7. chunk \in Seq(T) /\ Len(chunk) = 2 + c + 1
    BY ONLY <2>3, <2>4, <2>5
  <2>8. 2 \in 1 .. 2 + c /\ \A i \in 1 .. c : 2 + i \in 1 .. 2 + c
    OBVIOUS
  <2> QED
    BY <2>3, <2>6, <2>7, <2>8
<1>15. \A i \in 1 .. l : chunk[2 + i] = stream[b + i]
  <2>1. \A i \in 1 .. l : i \in 1 .. c
    OBVIOUS
  <2> QED
    BY <1>9, <1>14, <2>1
<1>16. Len(chunk) = c + 3
  BY <1>14
<1> QED
  BY <1>1, <1>2, <1>3, <1>4, <1>5, <1>6, <1>10, <1>12, <1>14, <1>15, <1>16

(* This is what two sequences are, one behind the other. *)
LEMMA AppendIs ==
  ASSUME NEW T, NEW p \in Seq(T), NEW q \in Seq(T), NEW r \in Seq(T),
         Len(r) = Len(p) + Len(q), \A i \in 1 .. Len(p) : r[i] = p[i],
         \A i \in 1 .. Len(q) : r[Len(p) + i] = q[i]
  PROVE  r = p \o q
<1>1. /\ p \o q \in Seq(T) /\ Len(p \o q) = Len(p) + Len(q)
      /\ \A i \in 1 .. Len(p) + Len(q) :
           (p \o q)[i] = IF i <= Len(p) THEN p[i] ELSE q[i - Len(p)]
  BY ConcatProperties
<1>2. Len(p) \in Nat /\ Len(q) \in Nat
  OBVIOUS
<1>3. ASSUME NEW i \in 1 .. Len(r) PROVE r[i] = (p \o q)[i]
  <2>1. CASE i <= Len(p)
    <3>1. i \in 1 .. Len(p) /\ i \in 1 .. Len(p) + Len(q)
      BY <1>2, <2>1
    <3> QED
      BY <1>1, <2>1, <3>1
  <2>2. CASE i > Len(p)
    <3>0. PICK z \in Nat, w \in Nat : z = Len(p) /\ w = Len(q) /\ i \in 1 .. z + w /\ i > z
      BY <1>2, <2>2
    <3>1. PICK x \in 1 .. w : x = i - z /\ z + x = i
      <4>1. PICK y \in Int : y = i /\ y \in 1 .. z + w /\ y > z
        BY <3>0
      <4>2. y - z \in 1 .. w /\ z + (y - z) = y
        BY ONLY <4>1
      <4> QED
        BY <4>1, <4>2
    <3>2. i \in 1 .. Len(p) + Len(q) /\ ~(i <= Len(p))
      BY <1>2, <2>2
    <3> QED
      BY <1>1, <3>0, <3>1, <3>2
  <2> QED
    BY <1>2, <2>1, <2>2
<1> QED
  BY <1>1, <1>3, SeqEqual

(* The compressed level, of any length, is what a client puts together from  *)
(* the chunks.                                                               *)
THEOREM LevelBack ==
  ASSUME Codec!CodecAssumption, NEW m \in Nat
  PROVE  /\ Codec!WriteLevel(m) # <<>>
         /\ Codec!ReadLevel(Codec!WriteLevel(m)) = Codec!Stream(m)
<1>1. PICK c \in Nat \ {0}, D \in Nat \ {0} :
        c = ChunkSize /\ D = c + 3 /\ D = Codec!ChunkCells
  BY DEF Codec!CodecAssumption, Codec!ChunkCells
<1>2. PICK N \in Nat : /\ N = Codec!ChunkCount(m) /\ m <= N * c
                       /\ \A k \in 1 .. N : k * c = (k - 1) * c + c
  <2>1. PICK N : N = Codec!ChunkCount(m) /\ N = (m + c - 1) \div c
    BY <1>1 DEF Codec!ChunkCount
  <2>2. N \in Nat /\ m <= N * c /\ \A k \in 1 .. N : k * c = (k - 1) * c + c
    BY <2>1, Parts
  <2> QED
    BY <2>1, <2>2
<1>3. PICK T : T = LevelCells(m)
  OBVIOUS
<1>4. PICK s : s = [k \in 1 .. N |-> Codec!Chunk(m, k)]
  OBVIOUS
<1>5. PICK stream : stream = Codec!Stream(m)
  OBVIOUS
<1>6. stream = [i \in 1 .. m |-> stream[i]] /\ \A i \in 1 .. m : stream[i] \in T
  <2>1. stream = [i \in 1 .. m |-> stream[i]]
    BY <1>5 DEF Codec!Stream
  <2>2. \A i \in 1 .. m : stream[i] \in T
    BY <1>3, <1>5 DEF LevelCells
  <2> QED
    BY <2>1, <2>2
<1>7. PICK l, b : /\ l = [k \in 1 .. N |-> Codec!ChunkLength(m, k)]
                  /\ b = [k \in 1 .. N |-> (k - 1) * c]
  OBVIOUS
<1>8. ASSUME NEW k \in 1 .. N
      PROVE  /\ l[k] \in 1 .. c /\ b[k] + l[k] <= m /\ b[k] \in Nat
             /\ (k < N => l[k] = c) /\ (k = N => b[k] + l[k] = m)
             /\ s[k] \in Seq(T) /\ Len(s[k]) = D /\ s[k][2] = l[k]
             /\ \A i \in 1 .. l[k] : s[k][2 + i] = stream[b[k] + i]
  <2>1. PICK w \in 1 .. ChunkSize :
           /\ w = Codec!ChunkLength(m, k) /\ (k - 1) * ChunkSize + w <= m
           /\ (k - 1) * ChunkSize \in Nat
           /\ (k < Codec!ChunkCount(m) => w = ChunkSize)
           /\ (k = Codec!ChunkCount(m) => (k - 1) * ChunkSize + w = m)
           /\ Codec!Chunk(m, k) \in Seq(LevelCells(m)) /\ Len(Codec!Chunk(m, k)) = ChunkSize + 3
           /\ Codec!Chunk(m, k)[2] = w
           /\ \A i \in 1 .. w :
                Codec!Chunk(m, k)[2 + i] = Codec!Stream(m)[(k - 1) * ChunkSize + i]
    BY <1>2, ChunkFacts
  <2>2. s[k] = Codec!Chunk(m, k) /\ l[k] = w /\ b[k] = (k - 1) * ChunkSize
    BY <1>1, <1>4, <1>7, <2>1
  <2> QED
    BY <1>1, <1>2, <1>3, <1>5, <2>1, <2>2
<1>b. /\ \A k \in 1 .. N : k < N => b[k + 1] = b[k] + c
      /\ N # 0 => b[1] = 0
  <2>1. ASSUME NEW k \in 1 .. N, k < N PROVE b[k + 1] = b[k] + c
    <3>1. PICK j \in 1 .. N : j = k + 1 /\ j - 1 = k
      BY <2>1
    <3>2. b[j] = k * c /\ b[k] = (k - 1) * c
      BY <1>7, <3>1
    <3> QED
      BY <1>2, <3>1, <3>2
  <2>2. ASSUME N # 0 PROVE b[1] = 0
    <3>1. 1 \in 1 .. N /\ (1 - 1) * c = 0
      BY <2>2
    <3> QED
      BY <1>7, <3>1
  <2> QED
    BY <2>1, <2>2
<1>9. s \in [1 .. N -> Seq(T)]
  BY <1>4, <1>8
<1>10. PICK g \in [0 .. N -> Seq(T)] : Chained(g, s, N)
  BY <1>9, ChainExists
<1>11. PICK body \in Seq(T) : body = g[N]
  OBVIOUS
<1>12. PICK bytes : bytes = Codec!WriteLevel(m)
  OBVIOUS
<1>13. bytes = body \o <<"level_finalize">>
  <2>1. Codec!FlattenSeq(s) = body
    BY <1>9, <1>10, <1>11, FlattenIsChain
  <2> QED
    BY <1>2, <1>4, <1>12, <2>1 DEF Codec!WriteLevel
<1>14. \A k \in 1 .. N : Piece(g, s, N, k)
  <2>1. ASSUME NEW k \in 1 .. N PROVE Piece(g, s, N, k)
    BY ONLY <1>9, <1>10, ChainPieces
  <2> QED
    BY <2>1
<1>15. ASSUME NEW k \in 0 .. N PROVE Len(g[k]) = k * D
  <2>1. PICK S : S = {j \in 0 .. N : Len(g[j]) = j * D}
    OBVIOUS
  <2>2. 0 \in S
    BY <1>10, <2>1 DEF Chained
  <2>3. ASSUME NEW j \in 0 .. N, j < N, j \in S PROVE j + 1 \in S
    <3>1. PICK i \in 1 .. N : i = j + 1 /\ i - 1 = j
      BY <2>3
    <3>2. Len(g[i]) = Len(g[j]) + Len(s[i]) /\ Len(s[i]) = D
      BY <1>8, <1>14, <3>1 DEF Piece
    <3>3. Len(g[j]) = j * D
      BY <2>1, <2>3
    <3>4. (j + 1) * D = j * D + D
      OBVIOUS
    <3> QED
      BY <2>1, <3>1, <3>2, <3>3, <3>4
  <2>4. \A j \in 0 .. N : j \in S
    BY <2>2, <2>3, UpTo
  <2> QED
    BY <2>1, <2>4
<1>16. PICK U : U = T \cup {"level_finalize"}
  OBVIOUS
<1>17. /\ bytes \in Seq(U) /\ Len(bytes) = N * D + 1
       /\ \A x \in 1 .. N * D : bytes[x] = body[x]
  <2>1. Len(body) = N * D
    BY <1>11, <1>15
  <2>2. PICK last \in U : last = "level_finalize"
    BY <1>16
  <2>3. body \in Seq(U)
    BY <1>16
  <2>4. <<last>> \in Seq(U) /\ Len(<<last>>) = 1
    BY ONLY <2>2
  <2>5. bytes = body \o <<last>>
    BY <1>13, <2>2
  <2> QED
    BY ONLY <2>1, <2>3, <2>4, <2>5
<1>18. N * D \in Nat /\ bytes # <<>>
  BY <1>17
<1>19. Len(bytes) \div D = N
  <2>1. PICK y \in Int, q \in Int, r \in Int :
          y = Len(bytes) /\ q = N /\ r = 1 /\ y = D * q + r
    BY <1>17
  <2>2. 0 <= r /\ r < D
    BY <1>1, <2>1
  <2>3. y \div D = q
    BY ONLY <2>1, <2>2, Division
  <2> QED
    BY <2>1, <2>3
<1>20. ASSUME NEW k \in 1 .. N PROVE SubSeq(bytes, (k - 1) * D + 1, k * D) = s[k]
  <2>1. PICK j \in 0 .. N, a \in Nat : j = k - 1 /\ a = Len(g[j]) /\ a = j * D
    BY <1>15
  <2>2. k * D = a + D
    BY <2>1
  <2>3. PICK v \in Seq(U) : v = s[k] /\ Len(v) = D
    BY <1>8, <1>16
  <2>4. a + D <= N * D
    <3>1. Len(g[k]) = a + D /\ Len(g[k]) <= Len(g[N])
      BY <1>14, <2>1, <2>3 DEF Piece
    <3> QED
      BY <1>15, <3>1
  <2>5. \A x \in 1 .. D : body[a + x] = v[x]
    BY <1>11, <1>14, <2>1, <2>3 DEF Piece
  <2>6. \A x \in 1 .. D : a + x \in 1 .. N * D
    BY <1>18, <2>4
  <2>7. \A x \in 1 .. Len(v) : bytes[a + x] = v[x]
    BY <1>17, <2>3, <2>5, <2>6
  <2>8. bytes \in Seq(U) /\ a + Len(v) <= Len(bytes)
    BY <1>17, <1>18, <2>3, <2>4
  <2>9. SubSeq(bytes, a + 1, a + Len(v)) = v
    BY ONLY <2>7, <2>8, CutOut
  <2> QED
    BY <2>1, <2>2, <2>3, <2>9
<1>21. PICK v : v = [k \in 1 .. N |-> [i \in 1 .. l[k] |-> stream[b[k] + i]]]
  OBVIOUS
<1>22. ASSUME NEW k \in 1 .. N
       PROVE  /\ v[k] \in Seq(T) /\ Len(v[k]) = l[k]
              /\ \A i \in 1 .. l[k] : v[k][i] = stream[b[k] + i]
              /\ SubSeq(s[k], 3, 2 + s[k][2]) = v[k]
  <2>0. l[k] \in 1 .. c /\ b[k] \in Nat /\ b[k] + l[k] <= m
    BY <1>8
  <2>1. PICK z \in Nat, w \in Nat : z = b[k] /\ w = l[k] /\ w \in 1 .. c /\ z + w <= m
    BY <2>0
  <2>2. v[k] = [i \in 1 .. w |-> stream[z + i]]
    BY <1>21, <2>1
  <2>3. \A i \in 1 .. w : stream[z + i] \in T
    <3>1. z + w <= m
      BY <2>1
    <3>2. \A i \in 1 .. w : z + i \in 1 .. m
      BY ONLY <3>1, m \in Nat
    <3> QED
      BY <1>6, <3>2
  <2>4. v[k] \in Seq(T) /\ Len(v[k]) = w /\ \A i \in 1 .. w : v[k][i] = stream[z + i]
    BY ONLY <2>2, <2>3
  <2>5. PICK a \in Seq(T) : a = s[k] /\ Len(a) = D /\ a[2] = w
    BY <1>8, <2>1
  <2>6. \A x \in 1 .. Len(v[k]) : a[2 + x] = v[k][x]
    BY <1>8, <2>1, <2>4, <2>5
  <2>7. 2 + Len(v[k]) <= Len(a)
    <3>1. Len(v[k]) = w /\ Len(a) = c + 3 /\ w <= c
      BY <1>1, <2>1, <2>4, <2>5
    <3> QED
      BY ONLY <3>1, c \in Nat, w \in Nat
  <2>8. SubSeq(a, 2 + 1, 2 + Len(v[k])) = v[k]
    BY ONLY <2>4, <2>6, <2>7, CutOut
  <2> QED
    BY <2>1, <2>4, <2>5, <2>8
<1>23. v \in [1 .. N -> Seq(T)]
  BY <1>21, <1>22
<1>24. Codec!ReadLevel(bytes) = Codec!FlattenSeq(v)
  <2>1. v = [k \in 1 .. N |-> SubSeq(SubSeq(bytes, (k - 1) * D + 1, k * D), 3,
                                     2 + SubSeq(bytes, (k - 1) * D + 1, k * D)[2])]
    BY <1>20, <1>21, <1>22
  <2> QED
    BY <1>1, <1>19, <2>1 DEF Codec!ReadLevel
<1>25. PICK e : e = [k \in 0 .. N |-> IF k = 0 THEN 0 ELSE b[k] + l[k]]
  OBVIOUS
<1>26. /\ e[0] = 0 /\ e[N] = m /\ \A k \in 0 .. N : e[k] \in 0 .. m
       /\ \A k \in 1 .. N : e[k - 1] = b[k] /\ e[k] = b[k] + l[k]
  <2>1. e[0] = 0
    BY <1>25
  <2>2. \A k \in 1 .. N : k \in 0 .. N /\ e[k] = b[k] + l[k]
    BY <1>25
  <2>3. e[N] = m
    <3>1. CASE N = 0
      BY <1>2, <2>1, <3>1
    <3>2. CASE N # 0
      <4>1. N \in 1 .. N
        BY <3>2
      <4> QED
        BY <1>8, <2>2, <4>1
    <3> QED
      BY <3>1, <3>2
  <2>4. ASSUME NEW k \in 0 .. N PROVE e[k] \in 0 .. m
    <3>1. CASE k = 0
      BY <2>1, <3>1
    <3>2. CASE k # 0
      <4>1. k \in 1 .. N
        BY <3>2
      <4>2. l[k] \in 1 .. c /\ b[k] \in Nat /\ b[k] + l[k] <= m
        BY <1>8, <4>1
      <4>3. PICK z \in Nat, w \in Nat : z = b[k] /\ w = l[k] /\ z + w <= m
        BY <4>2
      <4>4. z + w \in 0 .. m
        BY <4>3
      <4> QED
        BY <2>2, <4>1, <4>3, <4>4
    <3> QED
      BY <3>1, <3>2
  <2>5. ASSUME NEW k \in 1 .. N PROVE e[k - 1] = b[k]
    <3>1. CASE k = 1
      <4>1. k - 1 = 0 /\ N # 0
        BY <3>1
      <4> QED
        BY <1>b, <2>1, <3>1, <4>1
    <3>2. CASE k # 1
      <4>1. PICK j \in 1 .. N : j = k - 1 /\ j + 1 = k /\ j < N
        BY <3>2
      <4>2. e[j] = b[j] + l[j] /\ l[j] = c /\ b[j + 1] = b[j] + c
        BY <1>8, <1>b, <2>2, <4>1
      <4> QED
        BY <4>1, <4>2
    <3> QED
      BY <3>1, <3>2
  <2> QED
    BY <2>1, <2>2, <2>3, <2>4, <2>5
<1>27. PICK h : h = [k \in 0 .. N |-> [i \in 1 .. e[k] |-> stream[i]]]
  OBVIOUS
<1>28. ASSUME NEW k \in 0 .. N
       PROVE  /\ h[k] \in Seq(T) /\ Len(h[k]) = e[k]
              /\ \A i \in 1 .. e[k] : h[k][i] = stream[i]
  <2>1. PICK w \in 0 .. m : w = e[k]
    BY <1>26
  <2>2. PICK p : p = [i \in 1 .. w |-> stream[i]]
    OBVIOUS
  <2>3. h[k] = p
    BY <1>27, <2>1, <2>2
  <2>4. \A i \in 1 .. w : stream[i] \in T
    BY <1>6
  <2>5. p \in Seq(T) /\ Len(p) = w /\ \A i \in 1 .. w : p[i] = stream[i]
    BY ONLY <2>2, <2>4
  <2> QED
    BY <2>1, <2>3, <2>5
<1>29. h \in [0 .. N -> Seq(T)]
  BY <1>27, <1>28
<1>30. Chained(h, v, N)
  <2>1. h[0] = <<>>
    <3>1. h[0] \in Seq(T) /\ Len(h[0]) = 0
      BY <1>26, <1>28
    <3> QED
      BY ONLY <3>1
  <2>2. ASSUME NEW k \in 1 .. N PROVE h[k] = h[k - 1] \o v[k]
    <3>1. PICK j \in 0 .. N : j = k - 1 /\ k \in 0 .. N
      OBVIOUS
    <3>0. l[k] \in 1 .. c /\ b[k] \in Nat
      BY <1>8
    <3>2. PICK z \in Nat, w \in Nat : z = b[k] /\ w = l[k]
      BY <3>0
    <3>3. e[j] = z /\ e[k] = z + w
      BY <1>26, <3>1, <3>2
    <3>4. PICK p \in Seq(T), q \in Seq(T), r \in Seq(T) : p = h[j] /\ q = v[k] /\ r = h[k]
      BY <1>22, <1>28, <3>1
    <3>5. Len(p) = z /\ \A i \in 1 .. z : p[i] = stream[i]
      BY <1>28, <3>3, <3>4
    <3>6. Len(q) = w /\ \A i \in 1 .. w : q[i] = stream[z + i]
      BY <1>22, <3>2, <3>4
    <3>7. Len(r) = z + w /\ \A i \in 1 .. z + w : r[i] = stream[i]
      BY <1>28, <3>1, <3>3, <3>4
    <3>8. \A i \in 1 .. z : i \in 1 .. z + w
      OBVIOUS
    <3>9. \A i \in 1 .. w : z + i \in 1 .. z + w
      OBVIOUS
    <3>10. /\ \A i \in 1 .. z : r[i] = p[i]
           /\ \A i \in 1 .. w : r[z + i] = q[i]
      BY ONLY <3>5, <3>6, <3>7, <3>8, <3>9
    <3>11. r = p \o q
      <4>1. /\ Len(r) = Len(p) + Len(q) /\ \A i \in 1 .. Len(p) : r[i] = p[i]
            /\ \A i \in 1 .. Len(q) : r[Len(p) + i] = q[i]
        BY ONLY <3>5, <3>6, <3>7, <3>10
      <4> QED
        BY ONLY <4>1, AppendIs
    <3> QED
      BY <3>1, <3>4, <3>11
  <2> QED
    BY <2>1, <2>2 DEF Chained
<1>31. Codec!FlattenSeq(v) = h[N]
  BY ONLY <1>23, <1>29, <1>30, FlattenIsChain
<1>32. h[N] = stream
  <2>0. /\ h[N] \in Seq(T) /\ Len(h[N]) = m
        /\ \A i \in 1 .. m : h[N][i] = stream[i]
    <3>1. N \in 0 .. N /\ e[N] = m
      BY <1>26
    <3>2. /\ h[N] \in Seq(T) /\ Len(h[N]) = e[N]
          /\ \A i \in 1 .. e[N] : h[N][i] = stream[i]
      BY <1>28, <3>1
    <3> QED
      BY <3>1, <3>2
  <2>1. PICK p \in Seq(T) : p = h[N] /\ Len(p) = m /\ \A i \in 1 .. m : p[i] = stream[i]
    BY <2>0
  <2>2. p = [i \in 1 .. m |-> p[i]]
    BY <2>1
  <2> QED
    BY <1>6, <2>1, <2>2
<1> QED
  BY <1>5, <1>12, <1>18, <1>24, <1>31, <1>32

----------------------------------------------------------------------------
(* The packets that are sent.  A sample fits its field.                      *)
LEMMA SampleHolds ==
  ASSUME Codec!CodecAssumption, NEW type \in NumberTypes \cup {"string"},
         NEW k \in DOMAIN Numbers
  PROVE  Holds(type, Codec!Sample(type, k))
<1>1. k \in Nat /\ Numbers[k] \in Int
  BY DEF Codec!CodecAssumption
<1>2. CASE type = "string"
  <2>1. PICK n \in Nat \ {0} : n = Len(Strings) /\ \A i \in 1 .. n : Strings[i] \in Seq(STRING)
    BY DEF Codec!CodecAssumption
  <2>2. PICK r \in Nat : r = k % n /\ r < n
    BY <1>1, Division
  <2>3. 1 + r \in 1 .. n
    BY <2>2
  <2>4. Codec!Sample(type, k) = Strings[1 + r]
    BY <1>2, <2>1, <2>2 DEF Codec!Sample
  <2> QED
    BY <1>2, <2>1, <2>3, <2>4 DEF Holds
<1>3. CASE type # "string"
  <2>1. PICK all \in Nat \ {0} : all = Codec!Power[Codec!Width(type)]
    <3>1. Codec!Width(type) \in 0 .. 8
      BY <1>3, WidthFacts
    <3> QED
      BY <3>1, PowerFacts
  <2>2. PICK number \in Int : number = Numbers[k]
    BY <1>1
  <2>3. PICK h \in Int, r \in Nat : h = all \div 2 /\ all = 2 * h + r /\ r < 2
    BY Division
  <2>4. PICK y \in Nat : y = (number + h) % all /\ y < all
    BY Division
  <2>5. PICK z \in Nat : z = number % all /\ z < all
    BY Division
  <2>6. Codec!Sample(type, k) = IF Codec!Signed(type) THEN y - h ELSE z
    BY <1>3, <2>1, <2>2, <2>3, <2>4, <2>5 DEF Codec!Sample
  <2>7. -all <= 2 * (y - h) /\ 2 * (y - h) < all
    BY <2>3, <2>4
  <2>8. PICK x \in Int : /\ x = Codec!Sample(type, k)
                        /\ (Codec!Signed(type) => -all <= 2 * x /\ 2 * x < all)
                        /\ (~Codec!Signed(type) => 0 <= x /\ x < all)
    <3>1. CASE Codec!Signed(type)
      <4>1. PICK x \in Int : x = y - h
        OBVIOUS
      <4> QED
        BY <2>6, <2>7, <3>1, <4>1
    <3>2. CASE ~Codec!Signed(type)
      BY <2>5, <2>6, <3>2
    <3> QED
      BY <3>1, <3>2
  <2>9. Fits(type, x)
    BY <2>1, <2>8 DEF Fits
  <2> QED
    BY <1>3, <2>8, <2>9 DEF Holds
<1> QED
  BY <1>2, <1>3

(* A packet whose fields fit their types, or the level; once it is written,  *)
(* its bytes, and once they are read, what is read from them.                *)
PacketSent ==
    \E kind \in Codec!Kinds :
      /\ packet = [kind |-> kind, fields |-> packet.fields]
      /\ DOMAIN packet.fields = DOMAIN Codec!Structs[kind].fields
      /\ \A name \in DOMAIN Codec!Structs[kind].fields :
           Holds(Codec!Structs[kind].fields[name], packet.fields[name])
      /\ data = <<>> \/ data = Codec!Write(packet)
      /\ got = <<>> \/ (data = Codec!Write(packet) /\ got = <<Codec!Read(data)>>)

LevelSent ==
    \E m \in 0 .. MaxLevel :
      /\ packet = [kind |-> "level", fields |-> Codec!Stream(m)]
      /\ data = <<>> \/ data = Codec!WriteLevel(m)
      /\ got = <<>> \/ (data = Codec!WriteLevel(m) /\ got = <<Codec!ReadLevel(data)>>)

Carried == part = "codec" => PacketSent \/ LevelSent

(* It starts so, *)
LEMMA InitCodec ==
  ASSUME Codec!CodecAssumption, Codec!Init
  PROVE  PacketSent \/ LevelSent
<1>1. data = <<>> /\ got = <<>>
  BY DEF Codec!Init
<1>2. CASE \E m \in 0 .. MaxLevel : packet = [kind |-> "level", fields |-> Codec!Stream(m)]
  BY <1>1, <1>2 DEF LevelSent
<1>3. CASE \E kind \in Codec!Kinds : \E j, k \in DOMAIN Numbers :
             packet = [kind |-> kind, fields |->
                         [name \in DOMAIN Codec!Structs[kind].fields |->
                            Codec!Sample(Codec!Structs[kind].fields[name],
                                   IF Codec!Place(kind, name) % 2 = 1 THEN j ELSE k)]]
  <2>1. PICK kind \in Codec!Kinds, j \in DOMAIN Numbers, k \in DOMAIN Numbers :
             packet = [kind |-> kind, fields |->
                         [name \in DOMAIN Codec!Structs[kind].fields |->
                            Codec!Sample(Codec!Structs[kind].fields[name],
                                   IF Codec!Place(kind, name) % 2 = 1 THEN j ELSE k)]]
    BY <1>3
  <2>2. PICK types : types = Codec!Structs[kind].fields
    OBVIOUS
  <2>3. PICK fields : fields = [name \in DOMAIN types |->
                 Codec!Sample(types[name], IF Codec!Place(kind, name) % 2 = 1 THEN j ELSE k)]
    OBVIOUS
  <2>4. packet = [kind |-> kind, fields |-> fields]
    BY <2>1, <2>2, <2>3
  <2>5. packet.fields = fields /\ DOMAIN fields = DOMAIN types
    BY <2>3, <2>4
  <2>6. ASSUME NEW name \in DOMAIN types PROVE Holds(types[name], fields[name])
    <3>1. PICK i \in DOMAIN Numbers : i = IF Codec!Place(kind, name) % 2 = 1 THEN j ELSE k
      OBVIOUS
    <3>2. PICK type \in NumberTypes \cup {"string"} : type = types[name]
      BY <2>2, KindsAgree DEF Agree, Named
    <3>3. fields[name] = Codec!Sample(type, i)
      BY <2>3, <3>1, <3>2
    <3> QED
      BY <3>2, <3>3, SampleHolds
  <2>7. PacketSent
    BY <1>1, <2>2, <2>4, <2>5, <2>6 DEF PacketSent
  <2> QED
    BY <2>7
<1> QED
  BY <1>2, <1>3 DEF Codec!Init

(* stays so when it is written and read, *)
LEMMA CodecStep ==
  ASSUME Codec!CodecAssumption, PacketSent \/ LevelSent, Codec!Next
  PROVE  (PacketSent \/ LevelSent)'
<1>1. CASE PacketSent
  <2>1. PICK kind \in Codec!Kinds :
      /\ packet = [kind |-> kind, fields |-> packet.fields]
      /\ DOMAIN packet.fields = DOMAIN Codec!Structs[kind].fields
      /\ \A name \in DOMAIN Codec!Structs[kind].fields :
           Holds(Codec!Structs[kind].fields[name], packet.fields[name])
      /\ data = <<>> \/ data = Codec!Write(packet)
      /\ got = <<>> \/ (data = Codec!Write(packet) /\ got = <<Codec!Read(data)>>)
    BY <1>1 DEF PacketSent
  <2>2. packet.kind = kind /\ kind # "level" /\ packet' = packet
    BY <2>1, KindsAgree DEF Codec!Next, Codec!Serialize, Codec!Parse
  <2>3. PICK bytes : bytes = Codec!Write(packet)
    OBVIOUS
  <2>4. bytes # <<>>
    BY <2>1, <2>3, PacketBack
  <2>5. CASE Codec!Serialize
    <3>1. data' = bytes /\ got' = <<>>
      BY <2>1, <2>2, <2>3, <2>4, <2>5 DEF Codec!Serialize
    <3> QED
      BY <2>1, <2>2, <2>3, <3>1 DEF PacketSent
  <2>6. CASE Codec!Parse
    <3>1. data = bytes /\ data' = bytes /\ got' = <<Codec!Read(bytes)>>
      BY <2>1, <2>2, <2>3, <2>6 DEF Codec!Parse
    <3> QED
      BY <2>1, <2>2, <2>3, <3>1 DEF PacketSent
  <2> QED
    BY <2>5, <2>6 DEF Codec!Next
<1>2. CASE LevelSent
  <2>1. PICK m \in 0 .. MaxLevel :
      /\ packet = [kind |-> "level", fields |-> Codec!Stream(m)]
      /\ data = <<>> \/ data = Codec!WriteLevel(m)
      /\ got = <<>> \/ (data = Codec!WriteLevel(m) /\ got = <<Codec!ReadLevel(data)>>)
    BY <1>2 DEF LevelSent
  <2>2. m \in Nat /\ packet.kind = "level" /\ Len(packet.fields) = m /\ packet' = packet
    <3>1. m \in Nat
      BY DEF Codec!CodecAssumption
    <3>2. packet.kind = "level" /\ packet.fields = Codec!Stream(m)
      BY <2>1
    <3>3. Len(Codec!Stream(m)) = m
      BY <3>1 DEF Codec!Stream
    <3> QED
      BY <3>1, <3>2, <3>3 DEF Codec!Next, Codec!Serialize, Codec!Parse
  <2>3. PICK bytes : bytes = Codec!WriteLevel(m)
    OBVIOUS
  <2>4. bytes # <<>>
    BY <2>2, <2>3, LevelBack
  <2>5. CASE Codec!Serialize
    <3>1. data' = bytes /\ got' = <<>>
      BY <2>1, <2>2, <2>3, <2>4, <2>5 DEF Codec!Serialize
    <3> QED
      BY <2>1, <2>2, <2>3, <3>1 DEF LevelSent
  <2>6. CASE Codec!Parse
    <3>1. data = bytes /\ data' = bytes /\ got' = <<Codec!ReadLevel(bytes)>>
      BY <2>1, <2>2, <2>3, <2>6 DEF Codec!Parse
    <3> QED
      BY <2>1, <2>2, <2>3, <3>1 DEF LevelSent
  <2> QED
    BY <2>5, <2>6 DEF Codec!Next
<1> QED
  BY <1>1, <1>2

(* and stays so when another part moves. *)
LEMMA NextCodec == Carried /\ [ServersNext]_allVars => Carried'
<1> SUFFICES ASSUME Carried, [ServersNext]_allVars, part' = "codec"
             PROVE  (PacketSent \/ LevelSent)'
  BY DEF Carried
<1>0. Codec!CodecAssumption
  BY ServersAssumption DEF ServersAssumption
<1>1. CASE OnCodec(Codec!Next)
  BY <1>0, <1>1, CodecStep DEF Carried, OnCodec
<1>2. CASE UNCHANGED <<part, codecVars>>
  BY <1>2 DEF Carried, codecVars, PacketSent, LevelSent
<1> QED
  BY <1>1, <1>2 DEF ServersNext, allVars, OnDirectory, OnCommand, OnBot, OnMessages, OnLoop

(* Then what was read is what was sent. *)
LEMMA CarriedIsRead ==
  ASSUME Codec!CodecAssumption, PacketSent \/ LevelSent
  PROVE  Codec!RoundTrip
<1> SUFFICES ASSUME got # <<>>
             PROVE  IF packet.kind = "level" THEN got[1] = packet.fields
                    ELSE /\ Len(data) = IF packet.kind \in Codec!ProtocolKinds
                                        THEN Codec!ProtocolDb[packet.kind]
                                        ELSE Codec!Structs[packet.kind].size
                         /\ \A name \in DOMAIN packet.fields :
                              IF Codec!Structs[packet.kind].fields[name] = "string"
                              THEN Codec!IsTextOf(got[1][name], packet.fields[name])
                              ELSE got[1][name] = packet.fields[name]
  BY DEF Codec!RoundTrip
<1>1. CASE PacketSent
  <2>1. PICK kind \in Codec!Kinds :
      /\ packet = [kind |-> kind, fields |-> packet.fields]
      /\ DOMAIN packet.fields = DOMAIN Codec!Structs[kind].fields
      /\ \A name \in DOMAIN Codec!Structs[kind].fields :
           Holds(Codec!Structs[kind].fields[name], packet.fields[name])
      /\ data = Codec!Write(packet) /\ got = <<Codec!Read(data)>>
    BY <1>1 DEF PacketSent
  <2>2. PICK fields : fields = packet.fields /\ packet = [kind |-> kind, fields |-> fields]
    BY <2>1
  <2>3. packet.kind = kind /\ kind # "level" /\ got[1] = Codec!Read(data)
    BY <2>1, <2>2, KindsAgree
  <2>4. data = Codec!Write([kind |-> kind, fields |-> fields])
    BY <2>1, <2>2
  <2>5. \A name \in DOMAIN Codec!Structs[kind].fields :
           Holds(Codec!Structs[kind].fields[name], fields[name])
    BY <2>1, <2>2
  <2>6. /\ Len(data) = Codec!Structs[kind].size
        /\ \A name \in DOMAIN Codec!Structs[kind].fields :
             IF Codec!Structs[kind].fields[name] = "string"
             THEN Codec!IsTextOf(Codec!Read(data)[name], fields[name])
             ELSE Codec!Read(data)[name] = fields[name]
    BY <2>4, <2>5, PacketBack
  <2>7. kind \in Codec!ProtocolKinds => Codec!ProtocolDb[kind] = Codec!Structs[kind].size
    BY DEF Codec!ProtocolDb
  <2> QED
    BY <2>1, <2>2, <2>3, <2>6, <2>7
<1>2. CASE LevelSent
  <2>1. PICK m \in 0 .. MaxLevel :
      /\ packet = [kind |-> "level", fields |-> Codec!Stream(m)]
      /\ data = Codec!WriteLevel(m) /\ got = <<Codec!ReadLevel(data)>>
    BY <1>2 DEF LevelSent
  <2>2. m \in Nat
    BY DEF Codec!CodecAssumption
  <2>3. Codec!ReadLevel(data) = Codec!Stream(m)
    BY <2>1, <2>2, LevelBack
  <2> QED
    BY <2>1, <2>3
<1> QED
  BY <1>1, <1>2

(* The receiver reads what the sender has put into a packet, in any base,    *)
(* with any samples and chunks of any size.                                  *)
THEOREM PacketsAreReadBack == ServersSpec => []RoundTrip
<1>0. Codec!CodecAssumption
  BY ServersAssumption DEF ServersAssumption
<1>1. ServersInit => Carried
  BY <1>0, InitCodec DEF ServersInit, Carried
<1>2. Carried => RoundTrip
  BY <1>0, CarriedIsRead DEF Carried, RoundTrip
<1> QED
  BY <1>1, <1>2, NextCodec, PTL DEF ServersSpec

=============================================================================
