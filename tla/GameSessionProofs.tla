------------------------- MODULE GameSessionProofs -------------------------
(***************************************************************************)
(* Who is let into the world of the game server and who waits for it, for  *)
(* any number of connections and faults, and of login responses delivered  *)
(* twice; and, where none is delivered twice, who has its level when the   *)
(* changes of blocks begin to reach it.                                    *)
(***************************************************************************)
EXTENDS GameSession, TLAPS

Fates == [reached : BOOLEAN, rejected : BOOLEAN, saved : BOOLEAN,
          logout : BOOLEAN, level : BOOLEAN, dropped : BOOLEAN]

Clients == [link : {"active", "closed", "reset"}, hello : BOOLEAN, offered : BOOLEAN,
            exts : {"none", "announced"}]

Responses == [conn : Conns, result : {"guest", "fail", "success"}, prev : Conns \cup {None}]

(* Responses a connection may still get, and the state the main loop has   *)
(* read of it.                                                             *)
Fails(c) == \E m \in response : m.conn = c /\ m.result = "fail"
Passes(c) == \E m \in response : m.conn = c /\ m.result # "fail"
Seen(c) == IF main.at = c THEN main.seen ELSE invaild

Leaving == {disconnecting, disconnected}

(* Nothing happens to a connection before its handshake.                   *)
Fresh(c) ==
    /\ conn[c].life = "none" => ~client[c].hello /\ conn[c].recv = "idle"
    /\ ~client[c].hello =>
         /\ conn[c].cur = invaild /\ c \notin request /\ ~Fails(c) /\ ~Passes(c)
         /\ loading[c] = 0 /\ ~hist[c].reached /\ ~hist[c].rejected
         /\ ~Pending("disconnect", c) /\ Seen(c) = invaild

(* No transition leads into a state in which a player waits.               *)
Moving(c) ==
    /\ conn[c].next \notin {level_initializing, spawning, disconnecting}
    /\ Online(c) /\ client[c].hello => conn[c].cur # invaild /\ conn[c].next # invaild

(* A player that was not let in is in the handshake or on its way out, and *)
(* no thread takes it for more than that.                                  *)
Unreached(c) ==
    ~hist[c].reached =>
        /\ conn[c].cur < handshaked /\ Seen(c) < handshaked
        /\ ~client[c].offered /\ client[c].exts = "none"
        /\ ~Pending("level", c) /\ ~Pending("spawn", c)
        /\ conn[c].cur \in Leaving \/ Seen(c) \in Leaving \/ Pending("disconnect", c)
             => conn[c].next = disconnected

(* The login server gives one verdict.                                     *)
Verdict(c) ==
    /\ c \in request => /\ ~Fails(c) /\ ~Passes(c) /\ loading[c] = 0
                        /\ ~hist[c].reached /\ ~hist[c].rejected
    /\ Fails(c) => ~Passes(c) /\ ~hist[c].reached /\ (Online(c) => loading[c] = 0)
    /\ hist[c].rejected => /\ ~Passes(c) /\ ~hist[c].reached
                           /\ Online(c) => loading[c] = 0 /\ conn[c].cur \in Leaving

(* What the theorems are about. *)
Placed(c) ==
    /\ conn[c].life = "offline" => conn[c].cur \notin {level_initialized, spawned}
    /\ Online(c) /\ ~hist[c].dropped =>
         /\ conn[c].cur = level_initializing => Pending("level", c)
         /\ conn[c].cur = spawning => Pending("spawn", c)

Good(c) == Fresh(c) /\ Moving(c) /\ Unreached(c) /\ Verdict(c) /\ Placed(c)

Shapes ==
    /\ TypeOK
    /\ main.at \in Conns \/ main.seen = invaild
    /\ \A m \in response : m.prev # m.conn /\ (m.prev # None => hist[m.prev].reached)

Sessions == Shapes /\ \A c \in Conns : Good(c)

----------------------------------------------------------------------------
(* The operations on a player's state.                                     *)

(* What a prepared transition leaves of a player.                          *)
LEMMA PrepareFacts ==
  ASSUME NEW x \in Player, NEW s \in States, NEW t \in States
  PROVE  LET y == PrepareStateTransition(x, s, t)
         IN  /\ y \in Player /\ y.life = x.life /\ y.cur = s /\ y.next = t
             /\ y.recv = x.recv
<1>1. PrepareStateTransition(x, s, t) \in Player
  BY Zenon DEF Player, PrepareStateTransition
<1> QED
  BY <1>1 DEF Player, PrepareStateTransition

(* A handshake prepares the player for what follows it.                    *)
LEMMA HandshakeFacts ==
  ASSUME NEW x \in Player, x.life = "online"
  PROVE  LET fresh == [x EXCEPT !.prev = initialized, !.cur = initialized,
                                !.next = initialized, !.type = "invalid", !.pending = 0]
             p == PrepareStateTransition(fresh, ex_handshaking, ex_handshaked)
             q == PrepareStateTransition(fresh, handshaking, handshaked)
         IN  /\ p \in Player /\ p.life = "online" /\ p.cur = ex_handshaking
             /\ p.next = ex_handshaked
             /\ q \in Player /\ q.life = "online" /\ q.cur = handshaking
             /\ q.next = handshaked
<1>1. PICK fresh : fresh = [x EXCEPT !.prev = initialized, !.cur = initialized,
                                     !.next = initialized, !.type = "invalid", !.pending = 0]
  OBVIOUS
<1>2. 0 \in 0 .. MaxExt
  BY SessionAssumption
<1>3. initialized \in States /\ handshaking \in States /\ handshaked \in States
      /\ ex_handshaking \in States /\ ex_handshaked \in States
  BY DEF States, initialized, handshaking, handshaked, ex_handshaking, ex_handshaked,
     invaild, spawned
<1>4. fresh \in Player
  BY <1>1, <1>2, <1>3, Zenon DEF Player
<1>5. fresh.life = "online"
  BY <1>1 DEF Player
<1>6. ASSUME NEW s \in States, NEW t \in States
      PROVE  LET p == PrepareStateTransition(fresh, s, t)
             IN  p \in Player /\ p.life = "online" /\ p.cur = s /\ p.next = t
  BY <1>4, <1>5, PrepareFacts
<1>7. LET p == PrepareStateTransition(fresh, ex_handshaking, ex_handshaked)
      IN  p \in Player /\ p.life = "online" /\ p.cur = ex_handshaking /\ p.next = ex_handshaked
  BY <1>3, <1>6
<1>8. LET p == PrepareStateTransition(fresh, handshaking, handshaked)
      IN  p \in Player /\ p.life = "online" /\ p.cur = handshaking /\ p.next = handshaked
  BY <1>3, <1>6
<1> QED
  BY <1>1, <1>7, <1>8

(* What a completed transition leaves of a player.                         *)
LEMMA TransitFacts ==
  ASSUME NEW x \in Player
  PROVE  LET y == TransitState(x)
         IN  /\ y \in Player /\ y.life = x.life /\ y.cur = x.next /\ y.next = x.next
             /\ y.recv = x.recv
<1>1. TransitState(x) \in Player
  BY Zenon DEF Player, TransitState
<1> QED
  BY <1>1 DEF Player, TransitState

(* A player is torn down or left as it is.                                 *)
Calm(x, y) ==
    /\ y \in Player
    /\ \/ /\ y.cur = x.cur /\ y.next = x.next
          /\ \/ y.life = x.life
             \/ x.life = "online" /\ y.life = "offline" /\ x.cur < handshaking
       \/ /\ y.cur = disconnecting /\ y.next = disconnected
          /\ x.life = "online" /\ y.life = "online" /\ x.cur >= handshaking

(* The fields that are no part of the state do not disturb it.             *)
LEMMA FieldFacts ==
  ASSUME NEW x \in Player
  PROVE  /\ \A t \in {"invalid", "guest", "user"} : Calm(x, [x EXCEPT !.type = t])
         /\ \A n \in 0 .. MaxExt : Calm(x, [x EXCEPT !.pending = n])
         /\ \A r \in {"idle", "posted", "stuck"} : Calm(x, [x EXCEPT !.recv = r])
         /\ Calm(x, [x EXCEPT !.err = TRUE])
         /\ Calm(x, x)
<1>1. /\ \A t \in {"invalid", "guest", "user"} : [x EXCEPT !.type = t] \in Player
      /\ \A n \in 0 .. MaxExt : [x EXCEPT !.pending = n] \in Player
      /\ \A r \in {"idle", "posted", "stuck"} : [x EXCEPT !.recv = r] \in Player
      /\ [x EXCEPT !.err = TRUE] \in Player
  BY Zenon DEF Player
<1> QED
  BY <1>1 DEF Calm, Player

(* Connection::disconnect takes a player offline or prepares its teardown. *)
LEMMA DisconnectFacts ==
  ASSUME NEW x \in Player
  PROVE  /\ Calm(x, Disconnect(x))
         /\ Disconnect(x).recv = x.recv
         /\ x.life = "online" =>
              \/ Disconnect(x).life = "offline"
              \/ Disconnect(x).cur = disconnecting
<1>1. CASE x.life # "online"
  BY <1>1 DEF Disconnect, Calm
<1>2. CASE x.life = "online" /\ DelegatesTeardown(x)
  BY <1>2, PrepareFacts DEF Disconnect, Calm, DelegatesTeardown, States, disconnecting,
     disconnected, invaild, spawned
<1>3. CASE x.life = "online" /\ ~DelegatesTeardown(x)
  <2>1. Disconnect(x) = [x EXCEPT !.life = "offline"]
    BY <1>3 DEF Disconnect
  <2>2. [x EXCEPT !.life = "offline"] \in Player
    BY Zenon DEF Player
  <2>3. x.cur < handshaking
    BY <1>3 DEF Player, States, invaild, spawned, DelegatesTeardown, handshaking
  <2> QED
    BY <1>3, <2>1, <2>2, <2>3 DEF Calm, Player
<1> QED
  BY <1>1, <1>2, <1>3

(* The end of a receive does no more than that.                            *)
LEMMA CompleteFacts ==
  ASSUME NEW x, NEW y \in Player, y.life = x.life, y.cur = x.cur, y.next = x.next
  PROVE  Calm(x, RecvComplete(y)) /\ RecvComplete(y) \in Player
<1> DEFINE z == [y EXCEPT !.recv = "idle"]
<1>1. z \in Player /\ z.life = x.life /\ z.cur = x.cur /\ z.next = x.next
  BY FieldFacts DEF Calm, Player
<1>2. CASE RecvComplete(y) = z
  BY <1>1, <1>2 DEF Calm
<1>3. CASE RecvComplete(y) = Disconnect(z)
  <2>1. Calm(z, Disconnect(z))
    BY <1>1, DisconnectFacts
  <2> QED
    BY <1>1, <1>3, <2>1 DEF Calm
<1> QED
  BY <1>2, <1>3 DEF RecvComplete

(* The history of a step.                                                  *)
LEMMA RecordFacts ==
  ASSUME NEW c \in Conns, NEW x, NEW h \in Fates
  PROVE  /\ Record(c, x, h) \in Fates
         /\ Record(c, x, h).reached <=> h.reached \/ x.cur >= handshaked
         /\ Record(c, x, h).rejected <=> h.rejected
         /\ Record(c, x, h).dropped <=> h.dropped
<1>1. Record(c, x, h) \in Fates
  BY Zenon DEF Fates, Record
<1> QED
  BY <1>1, Zenon DEF Fates, Record

(* The other things the history keeps.                                     *)
LEMMA FateFacts ==
  ASSUME NEW h \in Fates
  PROVE  /\ \A t : /\ Served(t, h) \in Fates
                   /\ Served(t, h).reached <=> h.reached
                   /\ Served(t, h).rejected <=> h.rejected
                   /\ Served(t, h).dropped <=> h.dropped
         /\ \A x : /\ Saved(x, h) \in Fates
                   /\ Saved(x, h).reached <=> h.reached
                   /\ Saved(x, h).rejected <=> h.rejected
                   /\ Saved(x, h).dropped <=> h.dropped
         /\ [h EXCEPT !.dropped = TRUE] \in Fates
         /\ [h EXCEPT !.dropped = TRUE].reached <=> h.reached
         /\ [h EXCEPT !.dropped = TRUE].rejected <=> h.rejected
         /\ [h EXCEPT !.dropped = TRUE].dropped
         /\ [h EXCEPT !.rejected = TRUE] \in Fates
         /\ [h EXCEPT !.rejected = TRUE].reached <=> h.reached
         /\ [h EXCEPT !.rejected = TRUE].dropped <=> h.dropped
  BY Zenon DEF Fates, Served, Saved

----------------------------------------------------------------------------
(* A step that gives connection c nothing new.                             *)
Quiet(c) ==
    /\ client'[c].hello <=> client[c].hello
    /\ client'[c].offered <=> client[c].offered
    /\ client'[c].exts = client[c].exts \/ hist[c].reached
    /\ c \in request' => c \in request
    /\ Fails(c)' => Fails(c)
    /\ Passes(c)' => Passes(c)
    /\ loading'[c] = loading[c] \/ loading'[c] \in 0 .. loading[c]
    /\ \A t \in Tasks : Pending(t, c)' <=> Pending(t, c)
    /\ Seen(c)' \in {Seen(c), invaild}

Kept(c) ==
    /\ hist'[c].reached <=> hist[c].reached \/ conn'[c].cur >= handshaked
    /\ hist'[c].rejected <=> hist[c].rejected
    /\ hist'[c].dropped <=> hist[c].dropped

(* Every state is one of fourteen.                                         *)
LEMMA StateFacts ==
  ASSUME TypeOK, NEW c \in Conns
  PROVE  /\ conn[c] \in Player /\ hist[c] \in Fates /\ client[c] \in Clients
         /\ conn[c].cur \in Nat /\ conn[c].next \in Nat /\ Seen(c) \in Nat
         /\ loading[c] \in Nat
<1>1. conn[c] \in Player /\ hist[c] \in Fates /\ client[c] \in Clients /\ main.seen \in States
  BY DEF TypeOK, Fates, Clients
<1>2. States \subseteq Nat
  BY DEF States, invaild, spawned
<1> QED
  BY <1>1, <1>2 DEF TypeOK, Player, Seen, invaild

(* Tearing a player down, or leaving it alone, keeps it good.              *)
LEMMA CalmStep ==
  ASSUME Sessions, NEW c \in Conns, Quiet(c), Kept(c), Calm(conn[c], conn'[c]),
         conn'[c].life = "none" => conn'[c].recv = "idle"
  PROVE  Good(c)'
<1> USE DEF invaild, disconnecting, disconnected, handshaking, handshaked,
            level_initializing, level_initialized, spawning, spawned, Leaving
<1>1. Good(c)
  BY DEF Sessions
<1>2. conn[c].cur \in Nat /\ conn[c].next \in Nat /\ Seen(c) \in Nat
  BY StateFacts DEF Sessions, Shapes
<1>3. Fresh(c)'
  BY <1>1, <1>2 DEF Good, Fresh, Quiet, Kept, Calm, Tasks
<1>4. Moving(c)'
  BY <1>1, <1>2 DEF Good, Moving, Fresh, Quiet, Calm, Online
<1>5. Unreached(c)'
  BY <1>1, <1>2 DEF Good, Unreached, Quiet, Kept, Calm, Tasks
<1>6. Verdict(c)'
  BY <1>1, <1>2 DEF Good, Verdict, Unreached, Quiet, Kept, Calm, Online
<1>7. Placed(c)'
  BY <1>1, <1>2 DEF Good, Placed, Quiet, Kept, Calm, Online, Tasks
<1> QED
  BY <1>3, <1>4, <1>5, <1>6, <1>7 DEF Good

(* The context of the connections a step is not about.                     *)
Others(c) ==
    /\ \A d \in Conns : d # c => /\ client'[d] = client[d] /\ loading'[d] = loading[d]
                                 /\ d \in request' => d \in request
                                 /\ Fails(d)' => Fails(d)
                                 /\ Passes(d)' => Passes(d)
                                 /\ \A t \in Tasks : Pending(t, d)' <=> Pending(t, d)
                                 /\ Seen(d)' \in {Seen(d), invaild}

(* The shape of what is not a connection or its history.                   *)
Context ==
    /\ client \in [Conns -> Clients]
    /\ request \subseteq Conns /\ response \subseteq Responses
    /\ dups \in 0 .. MaxDuplicates /\ faults \in 0 .. MaxFaults
    /\ loading \in [Conns -> Nat]
    /\ task \in [Tasks -> [state : {"unused", "processing"},
                           queue : SUBSET Conns, target : SUBSET Conns]]
    /\ \A t \in Tasks : task[t].state = "unused" => task[t].target = {}
    /\ main \in [at : 0 .. N + 1, seen : States]
    /\ main.at \in Conns \/ main.seen = invaild

(* The shape of the state, with and without the connections.               *)
LEMMA ShapeFacts ==
  Shapes <=> /\ conn \in [Conns -> Player] /\ hist \in [Conns -> Fates] /\ Context
             /\ \A m \in response : m.prev # m.conn /\ (m.prev # None => hist[m.prev].reached)
  BY DEF Shapes, TypeOK, Context, Fates, Clients, Responses

(* A step of one connection.                                               *)
LEMMA OneStep ==
  ASSUME Sessions, NEW c \in Conns, NEW z \in Player, NEW h \in Fates,
         conn' = [conn EXCEPT ![c] = z], hist' = [hist EXCEPT ![c] = h],
         hist[c].reached => h.reached,
         response' \subseteq response, Context', Others(c), Good(c)'
  PROVE  Sessions'
<1>1. /\ conn \in [Conns -> Player] /\ hist \in [Conns -> Fates] /\ response \subseteq Responses
      /\ \A m \in response : m.prev # m.conn /\ (m.prev # None => hist[m.prev].reached)
  BY ShapeFacts DEF Sessions, Context
<1>2. conn' \in [Conns -> Player] /\ hist' \in [Conns -> Fates]
  BY <1>1
<1>3. \A m \in response' : m.prev # m.conn /\ (m.prev # None => hist'[m.prev].reached)
  <2> SUFFICES ASSUME NEW m \in response, m.prev # None PROVE hist'[m.prev].reached
    BY <1>1
  <2>1. m.prev \in Conns /\ hist[m.prev].reached
    BY <1>1 DEF Responses
  <2> QED
    BY <1>1, <2>1
<1>4. Shapes'
  BY <1>2, <1>3 DEF Shapes, TypeOK, Context, Fates, Clients, Responses
<1>5. ASSUME NEW d \in Conns, d # c PROVE Good(d)'
  <2>1. conn'[d] = conn[d] /\ hist'[d] = hist[d] /\ conn[d] \in Player
    BY <1>1, <1>5
  <2>2. Calm(conn[d], conn'[d])
    BY <2>1, FieldFacts
  <2>3. Good(d) /\ conn[d].cur \in Nat
    BY StateFacts DEF Sessions, Shapes
  <2>4. Kept(d)
    BY <2>1, <2>3 DEF Kept, Good, Unreached, handshaked
  <2>5. Quiet(d)
    BY <1>5 DEF Others, Quiet
  <2>6. conn'[d].life = "none" => conn'[d].recv = "idle"
    BY <2>1, <2>3 DEF Good, Fresh
  <2> QED
    BY <2>2, <2>4, <2>5, <2>6, CalmStep
<1> QED
  BY <1>4, <1>5 DEF Sessions

(* A step of several connections.                                          *)
LEMMA ManySteps ==
  ASSUME Sessions, conn' \in [Conns -> Player], hist' \in [Conns -> Fates],
         response' \subseteq response, Context',
         \A d \in Conns : Good(d)' /\ (hist[d].reached => hist'[d].reached)
  PROVE  Sessions'
<1>1. /\ response \subseteq Responses
      /\ \A m \in response : m.prev # m.conn /\ (m.prev # None => hist[m.prev].reached)
  BY ShapeFacts DEF Sessions, Context
<1>2. \A m \in response' : m.prev # m.conn /\ (m.prev # None => hist'[m.prev].reached)
  BY <1>1 DEF Responses
<1>3. Shapes'
  BY <1>2 DEF Shapes, TypeOK, Context, Fates, Clients, Responses
<1> QED
  BY <1>3 DEF Sessions

(* A step that changes the context and no connection.                      *)
LEMMA NoStep ==
  ASSUME Sessions, UNCHANGED <<conn, hist>>, response' \subseteq response, Context',
         \A c \in Conns : Quiet(c)
  PROVE  Sessions'
<1>1. /\ conn \in [Conns -> Player] /\ hist \in [Conns -> Fates] /\ response \subseteq Responses
      /\ \A m \in response : m.prev # m.conn /\ (m.prev # None => hist[m.prev].reached)
  BY ShapeFacts DEF Sessions, Context
<1>2. Shapes'
  BY <1>1 DEF Shapes, TypeOK, Context, Fates, Clients, Responses
<1>3. ASSUME NEW d \in Conns PROVE Good(d)'
  <2>1. Calm(conn[d], conn'[d])
    BY <1>1, FieldFacts
  <2>2. Good(d) /\ conn[d].cur \in Nat
    BY StateFacts DEF Sessions, Shapes
  <2>3. Kept(d)
    BY <2>2 DEF Kept, Good, Unreached, handshaked
  <2>4. conn'[d].life = "none" => conn'[d].recv = "idle"
    BY <2>2 DEF Good, Fresh
  <2> QED
    BY <2>1, <2>3, <2>4, CalmStep
<1> QED
  BY <1>2, <1>3 DEF Sessions

(* Tearing down c, or leaving its state alone, with its history kept.      *)
LEMMA CalmMove ==
  ASSUME Sessions, NEW c \in Conns, NEW z, Calm(conn[c], z), Step(c, z),
         z.life = "none" => z.recv = "idle",
         response' \subseteq response, Context', Quiet(c), Others(c)
  PROVE  Sessions'
<1>1. conn \in [Conns -> Player] /\ hist \in [Conns -> Fates] /\ z \in Player
  BY ShapeFacts DEF Sessions, Calm
<1>2. conn' = [conn EXCEPT ![c] = z] /\ hist' = [hist EXCEPT ![c] = Record(c, z, hist[c])]
  BY DEF Step
<1>3. conn'[c] = z /\ hist'[c] = Record(c, z, hist[c]) /\ hist[c] \in Fates
  BY <1>1, <1>2
<1>4. Kept(c) /\ hist'[c] \in Fates
  BY <1>3, RecordFacts DEF Kept
<1>5. Good(c)'
  BY <1>3, <1>4, CalmStep
<1>6. hist[c].reached => hist'[c].reached
  BY <1>4 DEF Kept
<1> QED
  BY <1>1, <1>2, <1>3, <1>4, <1>5, <1>6, OneStep

(* A step that changes a connection and nothing around it.                 *)
LEMMA SameContext ==
  ASSUME Context, UNCHANGED <<client, request, response, dups, loading, task, main>>,
         faults' \in 0 .. MaxFaults
  PROVE  /\ Context' /\ response' \subseteq response
         /\ \A c \in Conns : Quiet(c) /\ Others(c)
<1>1. Context'
  BY DEF Context
<1>2. \A c \in Conns : /\ Fails(c)' <=> Fails(c)
                       /\ Passes(c)' <=> Passes(c)
                       /\ Seen(c)' = Seen(c)
                       /\ \A t \in Tasks : Pending(t, c)' <=> Pending(t, c)
  BY DEF Fails, Passes, Seen, Pending
<1> QED
  BY <1>1, <1>2 DEF Quiet, Others

(* The faults of the environment stay within their bound.                  *)
LEMMA FaultFacts ==
  ASSUME Context, Fault \/ faults' = faults PROVE faults' \in 0 .. MaxFaults
  BY SessionAssumption DEF Context, Fault

(* Accept thread.                                                          *)
LEMMA AcceptStep ==
  ASSUME Sessions, NEW c \in Conns, Accept(c) PROVE Sessions'
<1>1. Context /\ conn \in [Conns -> Player] /\ hist \in [Conns -> Fates] /\ Good(c)
  BY ShapeFacts DEF Sessions
<1> DEFINE z == [conn[c] EXCEPT !.life = "online"]
<1>2. z \in Player
  BY <1>1, Zenon DEF Player
<1>3. z.life = "online" /\ z.cur = conn[c].cur /\ z.next = conn[c].next
  BY <1>1 DEF Player
<1>4. Context' /\ response' \subseteq response /\ Quiet(c) /\ Others(c)
  BY <1>1, FaultFacts, SameContext DEF Accept
<1>5. /\ conn' = [conn EXCEPT ![c] = z] /\ hist' = [hist EXCEPT ![c] = hist[c]]
      /\ conn'[c] = z /\ hist'[c] = hist[c] /\ hist[c] \in Fates
      /\ conn[c].life = "none"
  BY <1>1 DEF Accept
<1>6. ~client'[c].hello /\ conn[c].cur = invaild /\ ~hist[c].reached /\ ~hist[c].rejected
  BY <1>1, <1>4, <1>5 DEF Good, Fresh, Quiet
<1>7. Good(c)'
  <2> USE DEF invaild, disconnecting, disconnected, handshaked,
              level_initializing, level_initialized, spawning, spawned, Leaving
  <2>1. Fresh(c)'
    BY <1>1, <1>3, <1>4, <1>5, <1>6 DEF Good, Fresh, Quiet, Tasks
  <2>2. Moving(c)' /\ Placed(c)'
    BY <1>1, <1>3, <1>5, <1>6 DEF Good, Moving, Placed, Online
  <2>3. Unreached(c)'
    BY <1>1, <1>3, <1>4, <1>5, <1>6 DEF Good, Unreached, Quiet, Tasks
  <2>4. Verdict(c)'
    BY <1>1, <1>3, <1>4, <1>5, <1>6 DEF Good, Verdict, Fresh, Quiet
  <2> QED
    BY <2>1, <2>2, <2>3, <2>4 DEF Good
<1> QED
  BY <1>2, <1>4, <1>5, <1>7, OneStep

(* A silent connection expires.                                            *)
LEMMA ExpireStep ==
  ASSUME Sessions, NEW c \in Conns, Expire(c) PROVE Sessions'
<1>1. Context /\ conn[c] \in Player
  BY ShapeFacts DEF Sessions
<1>2. Context' /\ response' \subseteq response /\ Quiet(c) /\ Others(c)
  BY <1>1, FaultFacts, SameContext DEF Expire
<1>3. Calm(conn[c], Disconnect(conn[c])) /\ Disconnect(conn[c]).life # "none"
  BY <1>1, DisconnectFacts DEF Expire, Online, Calm
<1> QED
  BY <1>2, <1>3, CalmMove DEF Expire

(* The task of connection c, or what it is about to get, may come to an    *)
(* end.                                                                    *)
Quieter(c) ==
    /\ client[c].hello /\ client'[c].hello
    /\ client'[c].offered <=> client[c].offered
    /\ client'[c].exts = client[c].exts \/ hist[c].reached
    /\ c \in request' => c \in request
    /\ Fails(c)' => Fails(c)
    /\ Passes(c)' => Passes(c)
    /\ loading'[c] \in Nat /\ loading'[c] <= loading[c]
    /\ \A t \in Tasks : Pending(t, c)' => Pending(t, c)
    /\ Seen(c)' \in {Seen(c), invaild}

(* Moving on to the prepared state keeps a player good that has been let   *)
(* in, is being let in, or is on its way out.                              *)
LEMMA TransitStep ==
  ASSUME Sessions, NEW c \in Conns, NEW y \in Player, NEW z, Calm(y, z),
         Online(c), y.life = "online", y.cur = conn[c].next, y.next = conn[c].next,
         \/ hist[c].reached
         \/ c \notin request /\ ~Fails(c) /\ ~hist[c].rejected
         \/ conn[c].next = disconnected,
         conn'[c] = z, Kept(c), Quieter(c)
  PROVE  Good(c)'
<1> USE DEF invaild, disconnecting, disconnected, handshaking, handshaked,
            level_initializing, level_initialized, spawning, spawned, Leaving
<1>1. Good(c)
  BY DEF Sessions
<1>2. conn[c].cur \in Nat /\ conn[c].next \in Nat /\ Seen(c) \in Nat /\ loading[c] \in Nat
  BY StateFacts DEF Sessions, Shapes
<1>3. Fresh(c)'
  BY DEF Fresh, Quieter, Calm
<1>4. Moving(c)'
  BY <1>1, <1>2 DEF Good, Moving, Quieter, Calm, Online
<1>5. Unreached(c)'
  BY <1>1, <1>2 DEF Good, Unreached, Moving, Quieter, Kept, Calm, Tasks
<1>6. Verdict(c)'
  BY <1>1, <1>2 DEF Good, Verdict, Quieter, Kept, Calm, Online
<1>7. Placed(c)'
  BY <1>1, <1>2 DEF Good, Placed, Moving, Calm, Online
<1> QED
  BY <1>3, <1>4, <1>5, <1>6, <1>7 DEF Good

(* A transition of connection c, with the history h that the step keeps of *)
(* it.                                                                     *)
LEMMA TransitMove ==
  ASSUME Sessions, NEW c \in Conns, NEW y \in Player, NEW z, Calm(y, z),
         Online(c), y.life = "online", y.cur = conn[c].next, y.next = conn[c].next,
         \/ hist[c].reached
         \/ c \notin request /\ ~Fails(c) /\ ~hist[c].rejected
         \/ conn[c].next = disconnected,
         NEW h \in Fates, h.reached <=> hist[c].reached \/ z.cur >= handshaked,
         h.rejected <=> hist[c].rejected, h.dropped <=> hist[c].dropped,
         conn' = [conn EXCEPT ![c] = z], hist' = [hist EXCEPT ![c] = h],
         response' \subseteq response, Context', Quieter(c), Others(c)
  PROVE  Sessions'
<1>1. conn \in [Conns -> Player] /\ hist \in [Conns -> Fates] /\ z \in Player
  BY ShapeFacts DEF Sessions, Calm
<1>2. conn'[c] = z /\ hist'[c] = h
  BY <1>1
<1>3. Kept(c)
  BY <1>2 DEF Kept
<1>4. Good(c)'
  BY <1>2, <1>3, TransitStep
<1> QED
  BY <1>1, <1>4, OneStep

----------------------------------------------------------------------------
(* I/O threads.                                                            *)

(* The first packet makes a connection a player's.                         *)
LEMMA RecvHandshakeStep ==
  ASSUME Sessions, NEW c \in Conns, RecvHandshake(c) PROVE Sessions'
<1>1. /\ Context /\ conn \in [Conns -> Player] /\ hist \in [Conns -> Fates]
      /\ conn[c] \in Player /\ hist[c] \in Fates /\ Good(c)
  BY ShapeFacts DEF Sessions
<1>2. ~client[c].hello /\ client' = [client EXCEPT ![c].hello = TRUE]
  BY DEF RecvHandshake
<1>3. UNCHANGED <<response, dups, faults, loading, task, main>>
  BY DEF RecvHandshake
<1>4. request' = IF Online(c) THEN request \cup {c} ELSE request
  BY DEF RecvHandshake
<1>5. client'[c].hello /\ client'[c].offered = client[c].offered /\ client'[c].exts = client[c].exts
  BY <1>1, <1>2 DEF Context, Clients
<1>6. Context' /\ Others(c)
  <2>1. client' \in [Conns -> Clients]
    <3>1. client' = [client EXCEPT ![c] = [client[c] EXCEPT !.hello = TRUE]]
      BY <1>2
    <3>2. [client[c] EXCEPT !.hello = TRUE] \in Clients
      <4>1. client[c] \in Clients
        BY <1>1 DEF Context
      <4> QED
        BY <4>1, Zenon DEF Clients
    <3> QED
      BY <1>1, <3>1, <3>2 DEF Context
  <2>2. \A d \in Conns : d # c => client'[d] = client[d] /\ (d \in request' => d \in request)
    BY <1>1, <1>2, <1>4 DEF Context
  <2>3. \A d \in Conns : /\ Fails(d)' <=> Fails(d)
                         /\ Passes(d)' <=> Passes(d)
                         /\ Seen(d)' = Seen(d)
                         /\ \A t \in Tasks : Pending(t, d)' <=> Pending(t, d)
    BY <1>3 DEF Fails, Passes, Seen, Pending
  <2> QED
    BY <1>1, <1>3, <1>4, <2>1, <2>2, <2>3 DEF Context, Others
<1>7. /\ conn[c].cur = invaild /\ c \notin request /\ ~Fails(c) /\ ~Passes(c)
      /\ loading[c] = 0 /\ ~hist[c].reached /\ ~hist[c].rejected
      /\ ~Pending("disconnect", c) /\ Seen(c) = invaild
  BY <1>1, <1>2 DEF Good, Fresh
<1>8. PICK y \in Player :
        /\ conn[c].recv = "posted" /\ Step(c, RecvComplete(y))
        /\ IF Online(c) THEN /\ y.cur \in {handshaking, ex_handshaking}
                             /\ y.next \in {handshaked, ex_handshaked}
                             /\ y.life = "online"
           ELSE y = conn[c]
  <2>1. CASE ~Online(c)
    BY <1>1, <2>1 DEF RecvHandshake, RecvPacket
  <2>2. CASE Online(c)
    <3>1. PICK p \in Player :
            /\ RecvPacket(c, p) /\ p.life = "online"
            /\ p.cur \in {handshaking, ex_handshaking}
            /\ p.next \in {handshaked, ex_handshaked}
      BY <1>1, <2>2, HandshakeFacts DEF RecvHandshake, Online
    <3> QED
      BY <2>2, <3>1 DEF RecvPacket
  <2> QED
    BY <2>1, <2>2
<1> DEFINE z == RecvComplete(y)
           h == Record(c, z, hist[c])
<1>9. z \in Player /\ Calm(y, z)
  BY <1>8, CompleteFacts
<1>10. h \in Fates /\ conn'[c] = z /\ hist'[c] = h
       /\ conn' = [conn EXCEPT ![c] = z] /\ hist' = [hist EXCEPT ![c] = h]
  BY <1>1, <1>8, RecordFacts DEF Step
<1>11. Kept(c)
  BY <1>1, <1>10, RecordFacts DEF Kept
<1>12. Good(c)'
  <2> USE DEF invaild, disconnecting, disconnected, handshaking, handshaked, ex_handshaking,
              ex_handshaked, level_initializing, level_initialized, spawning, spawned, Leaving
  <2> HIDE DEF z
  <2>1. Fresh(c)'
    <3>1. conn[c].life # "none"
      BY <1>1, <1>8 DEF Good, Fresh
    <3> QED
      BY <1>5, <1>8, <1>9, <1>10, <3>1 DEF Fresh, Calm, Online
  <2>2. Moving(c)' /\ Placed(c)'
    BY <1>1, <1>7, <1>8, <1>9, <1>10 DEF Good, Moving, Placed, Calm, Online
  <2>3. Unreached(c)'
    BY <1>1, <1>3, <1>5, <1>7, <1>8, <1>9, <1>10
       DEF Good, Unreached, Calm, Pending, Seen, Tasks, Online
  <2>4. Verdict(c)'
    <3>1. ~Fails(c)' /\ ~Passes(c)' /\ loading'[c] = 0
      BY <1>3, <1>7 DEF Fails, Passes
    <3>2. ~hist'[c].reached /\ ~hist'[c].rejected
      BY <1>7, <1>8, <1>9, <1>10, <1>11 DEF Kept, Calm
    <3> QED
      BY <3>1, <3>2 DEF Verdict
  <2> QED
    BY <2>1, <2>2, <2>3, <2>4 DEF Good
<1> QED
  BY <1>3, <1>6, <1>7, <1>9, <1>10, <1>12, OneStep

(* A packet whose handler leaves the player's state alone.                 *)
LEMMA RecvStep ==
  ASSUME Sessions, NEW c \in Conns, NEW y \in Player, RecvPacket(c, y),
         y.life = conn[c].life, y.cur = conn[c].cur, y.next = conn[c].next,
         response' \subseteq response, Context', Quiet(c), Others(c)
  PROVE  Sessions'
<1>1. conn[c] \in Player /\ Good(c)
  BY ShapeFacts DEF Sessions
<1>2. PICK x \in Player : /\ Step(c, RecvComplete(x)) /\ conn[c].recv = "posted"
                          /\ x.life = conn[c].life /\ x.cur = conn[c].cur /\ x.next = conn[c].next
  BY <1>1 DEF RecvPacket
<1>3. Calm(conn[c], RecvComplete(x))
  BY <1>2, CompleteFacts
<1>4. conn[c].life # "none"
  BY <1>1, <1>2 DEF Good, Fresh
<1>5. RecvComplete(x).life # "none"
  BY <1>3, <1>4 DEF Calm
<1> QED
  BY <1>2, <1>3, <1>5, CalmMove

(* The client announces its extensions: it was offered some, so it was let *)
(* in.                                                                     *)
LEMMA RecvExtInfoStep ==
  ASSUME Sessions, NEW c \in Conns, RecvExtInfo(c) PROVE Sessions'
<1>1. Context /\ conn[c] \in Player /\ Good(c)
  BY ShapeFacts DEF Sessions
<1>2. /\ client[c].offered /\ client' = [client EXCEPT ![c].exts = "announced"]
      /\ UNCHANGED <<request, response, dups, faults, loading, task, main>>
  BY DEF RecvExtInfo
<1>3. PICK n \in 1 .. MaxExt : RecvPacket(c, [conn[c] EXCEPT !.pending = n])
  BY DEF RecvExtInfo
<1>4. /\ [conn[c] EXCEPT !.pending = n] \in Player
      /\ [conn[c] EXCEPT !.pending = n].life = conn[c].life
      /\ [conn[c] EXCEPT !.pending = n].cur = conn[c].cur
      /\ [conn[c] EXCEPT !.pending = n].next = conn[c].next
  <2>1. n \in 0 .. MaxExt
    BY SessionAssumption
  <2>2. [conn[c] EXCEPT !.pending = n] \in Player
    BY <1>1, <2>1, Zenon DEF Player
  <2> QED
    BY <1>1, <2>2 DEF Player
<1>5. /\ client' \in [Conns -> Clients]
      /\ client'[c].hello = client[c].hello /\ client'[c].offered = client[c].offered
  <2>1. client[c] \in Clients /\ client \in [Conns -> Clients]
    BY <1>1 DEF Context
  <2>2. client' = [client EXCEPT ![c] = [client[c] EXCEPT !.exts = "announced"]]
    BY <1>2
  <2>3. [client[c] EXCEPT !.exts = "announced"] \in Clients
    BY <2>1, Zenon DEF Clients
  <2>4. /\ [client[c] EXCEPT !.exts = "announced"].hello = client[c].hello
        /\ [client[c] EXCEPT !.exts = "announced"].offered = client[c].offered
    BY <2>1, Zenon DEF Clients
  <2> QED
    BY <2>1, <2>2, <2>3, <2>4
<1>6. Context'
  BY <1>1, <1>2, <1>5 DEF Context
<1>7. \A d \in Conns : /\ Fails(d)' <=> Fails(d)
                       /\ Passes(d)' <=> Passes(d)
                       /\ Seen(d)' = Seen(d)
                       /\ \A t \in Tasks : Pending(t, d)' <=> Pending(t, d)
  BY <1>2 DEF Fails, Passes, Seen, Pending
<1>8. hist[c].reached
  BY <1>1, <1>2 DEF Good, Unreached
<1>9. Quiet(c) /\ Others(c)
  BY <1>1, <1>2, <1>5, <1>7, <1>8 DEF Quiet, Others, Context
<1> QED
  BY <1>2, <1>3, <1>4, <1>6, <1>9, RecvStep

(* The last extension entry completes a transition of a player that was    *)
(* let in.                                                                 *)
LEMMA RecvExtEntryStep ==
  ASSUME Sessions, NEW c \in Conns, RecvExtEntry(c) PROVE Sessions'
<1> DEFINE x == [conn[c] EXCEPT !.pending = @ - 1]
<1>1. /\ Context /\ conn \in [Conns -> Player] /\ hist \in [Conns -> Fates]
      /\ conn[c] \in Player /\ hist[c] \in Fates /\ client[c] \in Clients /\ Good(c)
  BY ShapeFacts DEF Sessions, Context
<1>2. /\ client[c].exts = "announced" /\ conn[c].pending > 0
      /\ RecvPacket(c, IF x.pending = 0 THEN TransitState(x) ELSE x)
      /\ UNCHANGED <<client, request, response, dups, faults, loading, task, main>>
  BY DEF RecvExtEntry
<1>3. x \in Player /\ x.life = conn[c].life /\ x.cur = conn[c].cur /\ x.next = conn[c].next
  <2>1. conn[c].pending - 1 \in 0 .. MaxExt
    BY <1>1, <1>2, SessionAssumption DEF Player
  <2>2. x = [conn[c] EXCEPT !.pending = conn[c].pending - 1]
    BY <1>1 DEF Player
  <2>3. [conn[c] EXCEPT !.pending = conn[c].pending - 1] \in Player
    BY <1>1, <2>1, Zenon DEF Player
  <2> QED
    BY <1>1, <2>2, <2>3 DEF Player
<1>4. Context' /\ response' \subseteq response /\ Quiet(c) /\ Others(c)
  BY <1>1, <1>2, FaultFacts, SameContext
<1> HIDE DEF x
<1>5. CASE x.pending # 0 \/ ~Online(c)
  <2>1. RecvPacket(c, x) \/ RecvPacket(c, conn[c])
    BY <1>2, <1>5 DEF RecvPacket
  <2> QED
    BY <1>1, <1>3, <1>4, <2>1, RecvStep
<1>6. CASE x.pending = 0 /\ Online(c)
  <2> DEFINE y == TransitState(x)
             z == RecvComplete(y)
             h == Record(c, z, hist[c])
  <2>1. y \in Player /\ y.life = "online" /\ y.cur = conn[c].next /\ y.next = conn[c].next
    BY <1>3, <1>6, TransitFacts DEF Online
  <2>2. Step(c, z)
    BY <1>2, <1>6 DEF RecvPacket
  <2>3. hist[c].reached /\ client[c].hello
    BY <1>1, <1>2 DEF Good, Unreached, Fresh
  <2> HIDE DEF y
  <2>4. Calm(y, z)
    BY <2>1, CompleteFacts
  <2>5. /\ h \in Fates /\ (h.reached <=> hist[c].reached \/ z.cur >= handshaked)
        /\ h.rejected <=> hist[c].rejected
        /\ h.dropped <=> hist[c].dropped
    BY <1>1, RecordFacts
  <2>6. conn' = [conn EXCEPT ![c] = z] /\ hist' = [hist EXCEPT ![c] = h]
    BY <2>2 DEF Step
  <2>7. Quieter(c)
    BY <1>1, <1>4, <2>3 DEF Quiet, Quieter, Context, Tasks
  <2> HIDE DEF z, h
  <2> QED
    BY <1>4, <1>6, <2>1, <2>3, <2>4, <2>5, <2>6, <2>7, TransitMove
<1> QED
  BY <1>5, <1>6

(* Any other packet, a bad one included.                                   *)
LEMMA RecvOtherStep ==
  ASSUME Sessions, NEW c \in Conns, RecvOther(c) \/ RecvBadPacket(c) PROVE Sessions'
<1>1. Context /\ conn[c] \in Player
  BY ShapeFacts DEF Sessions
<1>2. Context' /\ response' \subseteq response /\ Quiet(c) /\ Others(c)
  BY <1>1, FaultFacts, SameContext DEF RecvOther, RecvBadPacket
<1>3. PICK y \in Player : /\ RecvPacket(c, y)
                          /\ y.life = conn[c].life /\ y.cur = conn[c].cur /\ y.next = conn[c].next
  <2>1. CASE RecvOther(c)
    BY <1>1, <2>1 DEF RecvOther
  <2>2. CASE RecvBadPacket(c)
    <3>1. PICK y : y = [conn[c] EXCEPT !.err = TRUE]
      OBVIOUS
    <3>2. y \in Player
      BY <1>1, <3>1, Zenon DEF Player
    <3>3. y.life = conn[c].life /\ y.cur = conn[c].cur /\ y.next = conn[c].next
      BY <1>1, <3>1 DEF Player
    <3> QED
      BY <2>2, <3>1, <3>2, <3>3 DEF RecvBadPacket
  <2> QED
    BY <2>1, <2>2
<1> QED
  BY <1>2, <1>3, RecvStep

(* A receive that fails: the connection is disconnected, or posts again.    *)
LEMMA RecvFailedStep ==
  ASSUME Sessions, NEW c \in Conns, RecvEof(c) \/ RecvFailed(c) PROVE Sessions'
<1>1. Context /\ conn[c] \in Player /\ Good(c)
  BY ShapeFacts DEF Sessions
<1>2. Context' /\ response' \subseteq response /\ Quiet(c) /\ Others(c)
  BY <1>1, FaultFacts, SameContext DEF RecvEof, RecvFailed
<1>3. conn[c].life # "none"
  BY <1>1 DEF RecvEof, RecvFailed, Good, Fresh
<1>4. PICK z : Step(c, z) /\ Calm(conn[c], z)
  <2>1. CASE RecvFailed(c)
    BY <1>1, <2>1, CompleteFacts DEF RecvFailed
  <2>2. CASE RecvEof(c)
    <3>1. PICK y : y = [conn[c] EXCEPT !.recv = "stuck"]
      OBVIOUS
    <3>2. y \in Player
      BY <1>1, <3>1, Zenon DEF Player
    <3>3. y.life = conn[c].life /\ y.cur = conn[c].cur /\ y.next = conn[c].next
      BY <1>1, <3>1 DEF Player
    <3>4. Calm(y, Disconnect(y))
      BY <3>2, DisconnectFacts
    <3>5. Calm(conn[c], Disconnect(y))
      BY <3>3, <3>4 DEF Calm
    <3> QED
      BY <2>2, <3>1, <3>5 DEF RecvEof
  <2> QED
    BY <2>1, <2>2
<1>5. z.life # "none"
  BY <1>3, <1>4 DEF Calm
<1> QED
  BY <1>2, <1>4, <1>5, CalmMove

(* The peer goes away: nothing it had sent is undone.                      *)
LEMMA ClientLeavesStep ==
  ASSUME Sessions, NEW c \in Conns, ClientLeaves(c) PROVE Sessions'
<1>1. Context
  BY ShapeFacts DEF Sessions
<1>2. PICK how \in {"closed", "reset"} : client' = [client EXCEPT ![c].link = how]
  BY DEF ClientLeaves
<1>3. UNCHANGED <<conn, request, response, dups, loading, task, main, hist>>
      /\ faults' \in 0 .. MaxFaults
  BY <1>1, FaultFacts DEF ClientLeaves
<1>4. \A d \in Conns : /\ client'[d] \in Clients
                       /\ client'[d].hello <=> client[d].hello
                       /\ client'[d].offered <=> client[d].offered
                       /\ client'[d].exts = client[d].exts
  <2> SUFFICES ASSUME NEW d \in Conns
               PROVE  /\ client'[d] \in Clients
                      /\ client'[d].hello <=> client[d].hello
                      /\ client'[d].offered <=> client[d].offered
                      /\ client'[d].exts = client[d].exts
    OBVIOUS
  <2>1. client[d] \in Clients
    BY <1>1 DEF Context
  <2>2. client'[d] = client[d] \/ client'[d] = [client[d] EXCEPT !.link = how]
    BY <1>1, <1>2 DEF Context
  <2>3. [client[d] EXCEPT !.link = how] \in Clients
    BY <2>1, Zenon DEF Clients
  <2>4. /\ [client[d] EXCEPT !.link = how].hello <=> client[d].hello
        /\ [client[d] EXCEPT !.link = how].offered <=> client[d].offered
        /\ [client[d] EXCEPT !.link = how].exts = client[d].exts
    BY <2>1, Zenon DEF Clients
  <2> QED
    BY <2>1, <2>2, <2>3, <2>4
<1>5. client' \in [Conns -> Clients]
  BY <1>1, <1>2, <1>4 DEF Context
<1>6. Context'
  BY <1>1, <1>3, <1>5 DEF Context
<1>7. \A d \in Conns : Quiet(d)
  BY <1>3, <1>4 DEF Quiet, Fails, Passes, Pending, Seen
<1> QED
  BY <1>3, <1>6, <1>7, NoStep

----------------------------------------------------------------------------
(* The login server.                                                       *)

(* The one request of a connection turns into its one response.            *)
LEMMA AnswerStep ==
  ASSUME Sessions, NEW c \in Conns, Answer(c) PROVE Sessions'
<1>1. /\ Context /\ conn \in [Conns -> Player] /\ hist \in [Conns -> Fates] /\ Good(c)
      /\ \A m \in response : m.prev # m.conn /\ (m.prev # None => hist[m.prev].reached)
  BY ShapeFacts DEF Sessions
<1>2. PICK result \in {"guest", "fail", "success"} :
      \E prev \in {None} \cup {b \in Conns \ {c} : hist[b].reached} :
        response' = response \cup {[conn |-> c, result |-> result, prev |-> prev]}
  BY DEF Answer
<1>3. PICK prev \in {None} \cup {b \in Conns \ {c} : hist[b].reached} :
        response' = response \cup {[conn |-> c, result |-> result, prev |-> prev]}
  BY <1>2
<1>4. PICK m : m = [conn |-> c, result |-> result, prev |-> prev]
  OBVIOUS
<1>5. c \in request /\ request' = request \ {c}
      /\ UNCHANGED <<conn, client, dups, faults, loading, task, main, hist>>
  BY DEF Answer
<1>6. /\ m \in Responses /\ m.conn = c /\ m.result = result /\ m.prev = prev
      /\ response' = response \cup {m}
  BY <1>3, <1>4 DEF Responses
<1>7. m.prev # m.conn /\ (m.prev # None => hist[m.prev].reached)
  BY <1>6 DEF Conns, None
<1>8. Context'
  BY <1>1, <1>5, <1>6 DEF Context
<1>9. Shapes'
  BY <1>1, <1>5, <1>6, <1>7, <1>8 DEF Shapes, TypeOK, Context, Fates, Clients, Responses
<1>10. \A d \in Conns : /\ Seen(d)' = Seen(d)
                        /\ \A t \in Tasks : Pending(t, d)' <=> Pending(t, d)
  BY <1>5 DEF Seen, Pending
<1>11. ASSUME NEW d \in Conns, d # c PROVE Good(d)'
  <2>1. (Fails(d)' <=> Fails(d)) /\ (Passes(d)' <=> Passes(d))
    BY <1>6, <1>11 DEF Fails, Passes
  <2>2. conn[d] \in Player /\ Good(d) /\ conn[d].cur \in Nat
    BY <1>1, StateFacts DEF Sessions, Shapes
  <2>3. Calm(conn[d], conn'[d]) /\ (conn'[d].life = "none" => conn'[d].recv = "idle")
    BY <1>5, <2>2, FieldFacts DEF Good, Fresh
  <2>4. Quiet(d) /\ Kept(d)
    BY <1>5, <1>10, <2>1, <2>2 DEF Quiet, Kept, Good, Unreached, handshaked
  <2> QED
    BY <2>3, <2>4, CalmStep
<1>12. Good(c)'
  <2>1. /\ client[c].hello /\ ~Fails(c) /\ ~Passes(c) /\ loading[c] = 0
        /\ ~hist[c].reached /\ ~hist[c].rejected
    BY <1>1, <1>5 DEF Good, Fresh, Verdict
  <2>2. ~Fails(c)' \/ ~Passes(c)'
    BY <1>6, <2>1 DEF Fails, Passes
  <2>3. Fresh(c)' /\ Verdict(c)'
    BY <1>1, <1>5, <2>1, <2>2 DEF Good, Fresh, Verdict
  <2>4. Moving(c)' /\ Placed(c)'
    BY <1>1, <1>5, <1>10 DEF Good, Moving, Placed, Online, Tasks
  <2>5. Unreached(c)'
    BY <1>1, <1>5, <1>10 DEF Good, Unreached, Tasks
  <2> QED
    BY <2>3, <2>4, <2>5 DEF Good
<1> QED
  BY <1>9, <1>11, <1>12 DEF Sessions

(* A lost message only takes something away.                               *)
LEMMA LoseMessageStep ==
  ASSUME Sessions, NEW c \in Conns, LoseMessage(c) PROVE Sessions'
<1>1. Context
  BY ShapeFacts DEF Sessions
<1>2. UNCHANGED <<conn, client, dups, loading, task, main, hist>>
      /\ faults' \in 0 .. MaxFaults /\ request' \subseteq request /\ response' \subseteq response
  BY <1>1, FaultFacts DEF LoseMessage
<1>3. Context'
  BY <1>1, <1>2 DEF Context
<1>4. \A d \in Conns : Quiet(d)
  BY <1>2 DEF Quiet, Fails, Passes, Pending, Seen
<1> QED
  BY <1>2, <1>3, <1>4, NoStep

(* A response that starts another coroutine for its connection.            *)
LEMMA LoadStep ==
  ASSUME Sessions, NEW c \in Conns, Calm(conn[c], conn'[c]), Kept(c),
         Fails(c) \/ Passes(c), Online(c) => Passes(c),
         UNCHANGED <<client, request, task, main>>, response' \subseteq response
  PROVE  Good(c)'
<1> USE DEF invaild, disconnecting, disconnected, handshaking, handshaked,
            level_initializing, level_initialized, spawning, spawned, Leaving
<1>1. Good(c) /\ client[c].hello /\ conn[c].life # "none"
  BY DEF Sessions, Good, Fresh
<1>2. conn[c].cur \in Nat /\ conn[c].next \in Nat /\ Seen(c) \in Nat
  BY StateFacts DEF Sessions, Shapes
<1>3. /\ Fails(c)' => Fails(c)
      /\ Passes(c)' => Passes(c)
      /\ Seen(c)' = Seen(c)
      /\ \A t \in Tasks : Pending(t, c)' <=> Pending(t, c)
  BY DEF Fails, Passes, Seen, Pending
<1>4. Fresh(c)'
  BY <1>1 DEF Fresh, Calm
<1>5. Moving(c)'
  BY <1>1, <1>2 DEF Good, Moving, Calm, Online
<1>6. Unreached(c)'
  BY <1>1, <1>2, <1>3 DEF Good, Unreached, Kept, Calm, Tasks
<1>7. Verdict(c)'
  BY <1>1, <1>2, <1>3 DEF Good, Verdict, Unreached, Kept, Calm, Online
<1>8. Placed(c)'
  BY <1>1, <1>2, <1>3 DEF Good, Placed, Kept, Calm, Online, Tasks
<1> QED
  BY <1>4, <1>5, <1>6, <1>7, <1>8 DEF Good

(* A connection that a response is not about.                              *)
LEMMA BystanderStep ==
  ASSUME Sessions, NEW c \in Conns, Others(c),
         NEW d \in Conns, d # c, conn'[d] = conn[d], hist'[d] = hist[d]
  PROVE  Good(d)'
<1>1. Good(d) /\ conn[d] \in Player /\ conn[d].cur \in Nat
  BY StateFacts DEF Sessions, Shapes
<1>2. Calm(conn[d], conn'[d]) /\ (conn'[d].life = "none" => conn'[d].recv = "idle")
  BY <1>1, FieldFacts DEF Good, Fresh
<1>3. Kept(d) /\ Quiet(d)
  BY <1>1 DEF Kept, Good, Unreached, handshaked, Others, Quiet
<1> QED
  BY <1>2, <1>3, CalmStep

(* A guest or a user moves on, a rejected player is kicked, and a user that *)
(* was logged in elsewhere kicks its other connection.                     *)
LEMMA HandleResponseStep ==
  ASSUME Sessions, NEW m \in response, HandleResponse(m) PROVE Sessions'
<1> DEFINE c == m.conn
           logged == [conn[c] EXCEPT !.type = "user"]
<1>1. /\ Context /\ conn \in [Conns -> Player] /\ hist \in [Conns -> Fates] /\ m \in Responses
      /\ m.prev # m.conn /\ (m.prev # None => hist[m.prev].reached)
  BY ShapeFacts DEF Sessions, Context
<1>2. c \in Conns /\ m.prev \in Conns \cup {None} /\ m.result \in {"guest", "fail", "success"}
  BY <1>1 DEF Responses
<1>3. /\ response' \subseteq response /\ dups' \in 0 .. MaxDuplicates
      /\ UNCHANGED <<client, request, faults, task, main>>
  BY <1>1, SessionAssumption DEF HandleResponse, Context
<1>4. loading' = loading \/ loading' = [loading EXCEPT ![c] = @ + 1]
  BY DEF HandleResponse
<1>5. Context'
  BY <1>1, <1>2, <1>3, <1>4 DEF Context
<1>6. Others(c)
  BY <1>1, <1>3, <1>4 DEF Others, Context, Fails, Passes, Seen, Pending
<1>7. /\ Good(c) /\ conn[c] \in Player /\ hist[c] \in Fates /\ client[c].hello
      /\ conn[c].life # "none" /\ c \notin request /\ (Fails(c) \/ Passes(c))
      /\ m.result = "fail" => Fails(c)
      /\ m.result # "fail" => Passes(c)
      /\ Passes(c) => ~Fails(c) /\ ~hist[c].rejected
  BY <1>1, <1>2 DEF Sessions, Good, Fresh, Verdict, Fails, Passes
<1> HIDE DEF c
<1>8. CASE ~Online(c)
  <2>1. UNCHANGED <<conn, hist>>
    BY <1>8 DEF HandleResponse, c
  <2>2. Calm(conn[c], conn'[c]) /\ Kept(c)
    <3>1. conn[c].cur >= handshaked => hist[c].reached
      BY <1>2, <1>7, StateFacts DEF Good, Unreached, handshaked, Sessions, Shapes
    <3> QED
      BY <1>7, <2>1, <3>1, FieldFacts DEF Kept
  <2>3. Good(c)'
    BY <1>2, <1>3, <1>7, <1>8, <2>2, LoadStep
  <2>4. \A d \in Conns : Good(d)'
    BY <1>2, <1>6, <2>1, <2>3, BystanderStep
  <2> QED
    BY <1>1, <1>3, <1>5, <2>1, <2>4, ManySteps
<1>9. CASE Online(c) /\ m.result = "guest" /\ loading' = loading
           /\ Step(c, TransitState([conn[c] EXCEPT !.type = "guest"]))
  <2>1. PICK x : x = [conn[c] EXCEPT !.type = "guest"]
    OBVIOUS
  <2>2. x \in Player
    BY <1>7, <2>1, Zenon DEF Player
  <2>3. x.life = "online" /\ x.next = conn[c].next
    BY <1>7, <1>9, <2>1 DEF Player, Online
  <2>4. PICK y : y = TransitState(x)
    OBVIOUS
  <2>5. y \in Player /\ y.life = "online" /\ y.cur = conn[c].next /\ y.next = conn[c].next
    BY <2>2, <2>3, <2>4, TransitFacts
  <2>6. Calm(y, y)
    BY <2>5, FieldFacts
  <2>7. PICK h \in Fates : /\ hist' = [hist EXCEPT ![c] = h]
                           /\ h.reached <=> hist[c].reached \/ y.cur >= handshaked
                           /\ h.rejected <=> hist[c].rejected
                           /\ h.dropped <=> hist[c].dropped
    BY <1>2, <1>7, <1>9, <2>1, <2>4, RecordFacts DEF Step
  <2>8. conn' = [conn EXCEPT ![c] = y]
    BY <1>9, <2>1, <2>4 DEF Step
  <2>9. Quieter(c)
    BY <1>1, <1>2, <1>3, <1>7, <1>9 DEF Quieter, Context, Fails, Passes, Seen, Pending
  <2> QED
    BY <1>2, <1>3, <1>5, <1>6, <1>7, <1>9, <2>5, <2>6, <2>7, <2>8, <2>9, TransitMove
<1>10. CASE Online(c) /\ m.result = "fail" /\ loading' = loading
            /\ conn' = [conn EXCEPT ![c] = Disconnect(conn[c])]
            /\ hist' = [hist EXCEPT ![c].rejected = TRUE]
  <2>1. PICK z : z = Disconnect(conn[c])
    OBVIOUS
  <2>2. /\ Calm(conn[c], z) /\ z \in Player
        /\ z.life = "online" => z.cur = disconnecting
    BY <1>7, <1>10, <2>1, DisconnectFacts DEF Calm, Online
  <2>3. PICK h \in Fates : /\ hist' = [hist EXCEPT ![c] = h]
                           /\ h.reached <=> hist[c].reached
                           /\ h.rejected
                           /\ h.dropped <=> hist[c].dropped
    <3>1. hist' = [hist EXCEPT ![c] = [hist[c] EXCEPT !.rejected = TRUE]]
      BY <1>1, <1>10
    <3>2. [hist[c] EXCEPT !.rejected = TRUE].rejected
      BY <1>7, Zenon DEF Fates
    <3> QED
      BY <1>7, <3>1, <3>2, FateFacts
  <2>4. conn'[c] = z /\ hist'[c] = h
    BY <1>1, <1>2, <1>10, <2>1, <2>3
  <2>5. Good(c)'
    <3> USE DEF invaild, disconnecting, disconnected, handshaking, handshaked,
                level_initializing, level_initialized, spawning, spawned, Leaving
    <3>1. ~hist[c].reached /\ ~Passes(c) /\ loading[c] = 0
      BY <1>7, <1>10 DEF Good, Verdict
    <3>2. /\ Fails(c)' => Fails(c)
          /\ Passes(c)' => Passes(c)
          /\ Seen(c)' = Seen(c)
          /\ \A t \in Tasks : Pending(t, c)' <=> Pending(t, c)
      BY <1>3 DEF Fails, Passes, Seen, Pending
    <3>3. conn[c].cur \in Nat /\ conn[c].next \in Nat /\ Seen(c) \in Nat
      BY <1>2, StateFacts DEF Sessions, Shapes
    <3>4. Fresh(c)'
      BY <1>3, <1>7, <2>2, <2>4 DEF Fresh, Calm
    <3>5. Moving(c)'
      BY <1>3, <1>7, <2>2, <2>4, <3>3 DEF Good, Moving, Calm, Online
    <3>6. Unreached(c)'
      BY <1>3, <1>7, <2>2, <2>3, <2>4, <3>1, <3>2, <3>3 DEF Good, Unreached, Calm, Tasks
    <3>7. Verdict(c)'
      BY <1>3, <1>7, <1>10, <2>2, <2>3, <2>4, <3>1, <3>2 DEF Verdict, Online
    <3>8. Placed(c)'
      BY <1>7, <2>2, <2>3, <2>4, <3>2, <3>3 DEF Good, Placed, Calm, Online, Tasks
    <3> QED
      BY <3>4, <3>5, <3>6, <3>7, <3>8 DEF Good
  <2> QED
    BY <1>2, <1>3, <1>5, <1>6, <1>10, <2>1, <2>2, <2>3, <2>5, OneStep
<1>11. logged \in Player /\ Calm(conn[c], logged)
  BY <1>7, FieldFacts DEF Calm
<1> HIDE DEF logged
<1>12. CASE Online(c) /\ m.result = "success" /\ m.prev = None /\ Step(c, logged)
  <2>1. PICK h \in Fates : /\ hist' = [hist EXCEPT ![c] = h]
                           /\ h.reached <=> hist[c].reached \/ logged.cur >= handshaked
                           /\ h.rejected <=> hist[c].rejected
                           /\ h.dropped <=> hist[c].dropped
    BY <1>2, <1>7, <1>12, RecordFacts DEF Step
  <2>2. conn' = [conn EXCEPT ![c] = logged]
    BY <1>12 DEF Step
  <2>3. Kept(c) /\ Calm(conn[c], conn'[c])
    BY <1>1, <1>2, <1>11, <2>1, <2>2 DEF Kept
  <2>4. Good(c)'
    BY <1>2, <1>3, <1>7, <1>12, <2>3, LoadStep
  <2> QED
    BY <1>2, <1>3, <1>5, <1>6, <1>11, <2>1, <2>2, <2>4, OneStep
<1>13. CASE /\ Online(c) /\ m.result = "success" /\ m.prev # None
            /\ conn' = [conn EXCEPT ![c] = logged, ![m.prev] = Disconnect(conn[m.prev])]
            /\ hist' = [hist EXCEPT ![m.prev] = Record(m.prev, Disconnect(conn[m.prev]), @)]
  <2>1. PICK b \in Conns : b = m.prev /\ b # c /\ hist[b].reached
    BY <1>1, <1>2, <1>13 DEF c
  <2>2. PICK z : z = Disconnect(conn[b])
    OBVIOUS
  <2>3. PICK h : h = Record(b, z, hist[b])
    OBVIOUS
  <2>4. /\ Calm(conn[b], z) /\ z \in Player /\ h \in Fates
        /\ h.reached <=> hist[b].reached \/ z.cur >= handshaked
        /\ h.rejected <=> hist[b].rejected
        /\ h.dropped <=> hist[b].dropped
    BY <1>1, <2>2, <2>3, DisconnectFacts, RecordFacts DEF Calm
  <2>5. conn' = [conn EXCEPT ![c] = logged, ![b] = z] /\ hist' = [hist EXCEPT ![b] = h]
    BY <1>1, <1>13, <2>1, <2>2, <2>3
  <2>6. /\ conn'[b] = z /\ conn'[c] = logged /\ hist'[b] = h /\ hist'[c] = hist[c]
        /\ \A d \in Conns \ {b, c} : conn'[d] = conn[d] /\ hist'[d] = hist[d]
        /\ conn' \in [Conns -> Player] /\ hist' \in [Conns -> Fates]
    BY <1>1, <1>2, <1>11, <2>1, <2>4, <2>5
  <2>7. Good(c)'
    <3>1. Kept(c)
      <4>1. logged.cur = conn[c].cur
        BY <1>7 DEF logged, Player
      <4>2. conn[c].cur >= handshaked => hist[c].reached
        BY <1>2, <1>7, StateFacts DEF Good, Unreached, handshaked, Sessions, Shapes
      <4> QED
        BY <2>6, <4>1, <4>2 DEF Kept
    <3> QED
      BY <1>2, <1>3, <1>7, <1>11, <1>13, <2>6, <3>1, LoadStep
  <2>8. Good(b)'
    <3>1. Quiet(b)
      BY <1>6, <2>1 DEF Others, Quiet
    <3>2. Kept(b)
      BY <2>4, <2>6 DEF Kept
    <3>3. conn[b].life # "none"
      BY <2>1 DEF Sessions, Good, Fresh
    <3>4. z.life # "none"
      BY <2>4, <3>3 DEF Calm
    <3> QED
      BY <2>4, <2>6, <3>1, <3>2, <3>4, CalmStep
  <2>9. \A d \in Conns : Good(d)'
    BY <1>2, <1>6, <2>6, <2>7, <2>8, BystanderStep
  <2>10. \A d \in Conns : hist[d].reached => hist'[d].reached
    BY <2>1, <2>4, <2>6
  <2> QED
    BY <1>3, <1>5, <2>6, <2>9, <2>10, ManySteps
<1> QED
  BY <1>8, <1>9, <1>10, <1>12, <1>13 DEF HandleResponse, c, logged

(* The coroutine goes on: into the world, or out of it.                    *)
LEMMA LoadedStep ==
  ASSUME Sessions, NEW c \in Conns, Loaded(c) PROVE Sessions'
<1>1. /\ Context /\ conn[c] \in Player /\ hist[c] \in Fates /\ Good(c) /\ loading[c] \in Nat
      /\ conn \in [Conns -> Player] /\ hist \in [Conns -> Fates]
  BY ShapeFacts DEF Sessions, Context
<1>2. /\ loading[c] > 0 /\ loading' = [loading EXCEPT ![c] = @ - 1]
      /\ UNCHANGED <<client, request, response, dups, faults, task, main>>
  BY DEF Loaded
<1>3. Context' /\ loading'[c] = loading[c] - 1
  BY <1>1, <1>2 DEF Context
<1>4. /\ client[c].hello /\ conn[c].life # "none" /\ c \notin request
      /\ Online(c) => ~Fails(c) /\ ~hist[c].rejected
  BY <1>1, <1>2 DEF Good, Fresh, Verdict
<1>5. Quiet(c) /\ Others(c)
  BY <1>1, <1>2, <1>3 DEF Quiet, Others, Context, Fails, Passes, Seen, Pending
<1>6. CASE UNCHANGED <<conn, hist>>
  <2>1. \A d \in Conns : Quiet(d)
    BY <1>5 DEF Others, Quiet
  <2> QED
    BY <1>2, <1>3, <1>6, <2>1, NoStep
<1>7. CASE Online(c) /\ Step(c, TransitState(conn[c]))
  <2>1. PICK y : y = TransitState(conn[c])
    OBVIOUS
  <2>2. y \in Player /\ y.life = "online" /\ y.cur = conn[c].next /\ y.next = conn[c].next
    BY <1>1, <1>7, <2>1, TransitFacts DEF Online
  <2>3. Calm(y, y)
    BY <2>2, FieldFacts
  <2>4. PICK h \in Fates : /\ hist' = [hist EXCEPT ![c] = h]
                           /\ h.reached <=> hist[c].reached \/ y.cur >= handshaked
                           /\ h.rejected <=> hist[c].rejected
                           /\ h.dropped <=> hist[c].dropped
    BY <1>1, <1>7, <2>1, RecordFacts DEF Step
  <2>5. conn' = [conn EXCEPT ![c] = y]
    BY <1>7, <2>1 DEF Step
  <2>6. Quieter(c)
    BY <1>1, <1>2, <1>3, <1>4 DEF Quieter, Context, Fails, Passes, Seen, Pending
  <2> QED
    BY <1>2, <1>3, <1>4, <1>5, <1>7, <2>2, <2>3, <2>4, <2>5, <2>6, TransitMove
<1>8. CASE Online(c) /\ Step(c, Disconnect(conn[c]))
  <2>1. Calm(conn[c], Disconnect(conn[c])) /\ Disconnect(conn[c]).life # "none"
    BY <1>1, <1>4, DisconnectFacts DEF Calm
  <2> QED
    BY <1>2, <1>3, <1>5, <1>8, <2>1, CalmMove
<1> QED
  BY <1>6, <1>7, <1>8 DEF Loaded

----------------------------------------------------------------------------
(* The main loop.                                                          *)

(* Every pass posts the receives of the connections that have none.        *)
LEMMA MainFlushStep ==
  ASSUME Sessions, MainFlush PROVE Sessions'
<1>1. Context /\ conn \in [Conns -> Player] /\ hist \in [Conns -> Fates]
  BY ShapeFacts DEF Sessions
<1>2. /\ main.at = 0 /\ main' = [main EXCEPT !.at = 1]
      /\ UNCHANGED <<client, request, response, dups, faults, loading, task, hist>>
  BY DEF MainFlush
<1>3. main.seen = invaild /\ main' \in [at : 0 .. N + 1, seen : States] /\ main'.seen = invaild
  BY <1>1, <1>2, SessionAssumption DEF Context, Conns
<1>4. Context'
  BY <1>1, <1>2, <1>3 DEF Context
<1>5. ASSUME NEW d \in Conns
      PROVE  conn'[d] \in Player /\ Good(d)' /\ (hist[d].reached => hist'[d].reached)
  <2>1. conn[d] \in Player /\ Good(d) /\ conn[d].cur \in Nat
    BY StateFacts DEF Sessions, Shapes
  <2>2. conn'[d] = conn[d] \/ (Online(d) /\ conn'[d] = [conn[d] EXCEPT !.recv = "posted"])
    BY DEF MainFlush
  <2>3. Calm(conn[d], conn'[d])
    BY <2>1, <2>2, FieldFacts
  <2>4. conn'[d].life = "none" => conn'[d].recv = "idle"
    BY <2>1, <2>2 DEF Good, Fresh, Online, Player
  <2>5. Quiet(d)
    BY <1>2, <1>3 DEF Quiet, Fails, Passes, Pending, Seen
  <2>6. conn'[d].cur = conn[d].cur
    BY <2>1, <2>2 DEF Player
  <2>7. Kept(d)
    BY <1>2, <2>1, <2>6 DEF Kept, Good, Unreached, handshaked
  <2> QED
    BY <1>2, <2>3, <2>4, <2>5, <2>7, CalmStep DEF Calm
<1>6. conn' \in [Conns -> Player]
  BY <1>5 DEF MainFlush
<1> QED
  BY <1>1, <1>2, <1>4, <1>5, <1>6, ManySteps

(* What World::tick reads of a player.                                     *)
LEMMA MainReadStep ==
  ASSUME Sessions, MainRead PROVE Sessions'
<1>1. Context /\ conn \in [Conns -> Player] /\ hist \in [Conns -> Fates]
  BY ShapeFacts DEF Sessions
<1>0. PICK c \in Conns : c = main.at
  BY DEF MainRead
<1>2. /\ main.seen = invaild
      /\ UNCHANGED <<conn, client, request, response, dups, faults, loading, task, hist>>
  BY DEF MainRead
<1>3. Good(c) /\ conn[c] \in Player /\ conn[c].cur \in States
  BY <1>1, <1>2 DEF Sessions, Player
<1>4. \A d \in Conns : /\ Fails(d)' <=> Fails(d)
                       /\ Passes(d)' <=> Passes(d)
                       /\ \A t \in Tasks : Pending(t, d)' <=> Pending(t, d)
  BY <1>2 DEF Fails, Passes, Pending
<1>5. CASE main' = [main EXCEPT !.at = @ + 1]
  <2>1. main' \in [at : 0 .. N + 1, seen : States] /\ main'.seen = invaild
    BY <1>0, <1>1, <1>2, <1>5, SessionAssumption DEF Context, Conns
  <2>2. Context'
    BY <1>1, <1>2, <2>1 DEF Context
  <2>3. \A d \in Conns : Quiet(d)
    BY <1>2, <1>4, <2>1 DEF Quiet, Seen
  <2> QED
    BY <1>2, <2>2, <2>3, NoStep
<1>6. CASE conn[c].cur # invaild /\ main' = [main EXCEPT !.seen = conn[c].cur]
  <2>1. main' \in [at : 0 .. N + 1, seen : States] /\ main'.at = c /\ main'.seen = conn[c].cur
    BY <1>0, <1>1, <1>3, <1>6 DEF Context
  <2>2. Context'
    BY <1>1, <1>2, <2>1 DEF Context
  <2>3. Seen(c)' = conn[c].cur /\ \A d \in Conns : d # c => Seen(d)' = invaild
    BY <2>1 DEF Seen
  <2>4. Others(c)
    BY <1>2, <1>4, <2>3 DEF Others
  <2>5. Good(c)'
    <3>1. client[c].hello
      BY <1>3, <1>6 DEF Good, Fresh
    <3>2. Fresh(c)' /\ Moving(c)' /\ Placed(c)' /\ Verdict(c)'
      BY <1>2, <1>3, <1>4, <3>1 DEF Good, Fresh, Moving, Placed, Verdict, Online, Tasks
    <3>3. Unreached(c)'
      BY <1>2, <1>3, <1>4, <2>3 DEF Good, Unreached, Tasks
    <3> QED
      BY <3>2, <3>3 DEF Good
  <2>6. \A d \in Conns : Good(d)'
    BY <1>2, <2>4, <2>5, BystanderStep
  <2> QED
    BY <1>1, <1>2, <2>2, <2>6, ManySteps
<1> QED
  BY <1>0, <1>5, <1>6 DEF MainRead

(* World::tick prepares the next transition of a player that was let in,   *)
(* and queues it for the task that completes it.                           *)
LEMMA PrepareStep ==
  ASSUME Sessions, NEW c \in Conns, hist[c].reached,
         NEW y \in Player, y.life = conn[c].life, conn'[c] = y,
         y.cur >= handshaked, y.cur \notin {level_initialized, spawned},
         y.next \notin {invaild, level_initializing, spawning, disconnecting},
         y.cur = level_initializing => Pending("level", c)',
         y.cur = spawning => Pending("spawn", c)',
         Kept(c), client'[c].hello, UNCHANGED <<request, response, loading>>
  PROVE  Good(c)'
<1> USE DEF invaild, disconnecting, disconnected, handshaking, handshaked,
            level_initializing, level_initialized, spawning, spawned, Leaving
<1>1. Good(c) /\ y.cur \in Nat
  BY DEF Sessions, Player, States
<1>2. hist'[c].reached
  BY DEF Kept
<1>3. Fresh(c)'
  BY <1>1 DEF Good, Fresh
<1>4. Moving(c)'
  BY <1>1 DEF Moving, Online
<1>5. Unreached(c)'
  BY <1>2 DEF Unreached
<1>6. Verdict(c)'
  <2>1. Fails(c)' <=> Fails(c)
    BY DEF Fails
  <2> QED
    BY <1>1, <2>1 DEF Good, Verdict, Kept
<1>7. Placed(c)'
  BY <1>1 DEF Placed, Online
<1> QED
  BY <1>3, <1>4, <1>5, <1>6, <1>7 DEF Good

(* Queueing a player.                                                      *)
LEMMA PushFacts ==
  ASSUME Context, NEW t \in Tasks, NEW c \in Conns, Push(t, c)
  PROVE  /\ task' \in [Tasks -> [state : {"unused", "processing"},
                                 queue : SUBSET Conns, target : SUBSET Conns]]
         /\ \A u \in Tasks : task'[u].state = "unused" => task'[u].target = {}
         /\ Pending(t, c)'
         /\ \A u \in Tasks, d \in Conns : u # t \/ d # c => (Pending(u, d)' <=> Pending(u, d))
<1>1. task' = [task EXCEPT ![t] = [task[t] EXCEPT !.queue = task[t].queue \cup {c}]]
  BY DEF Push, Context
<1>2. [task[t] EXCEPT !.queue = task[t].queue \cup {c}] \in
        [state : {"unused", "processing"}, queue : SUBSET Conns, target : SUBSET Conns]
  BY DEF Context
<1>3. task' \in [Tasks -> [state : {"unused", "processing"},
                           queue : SUBSET Conns, target : SUBSET Conns]]
  BY <1>1, <1>2 DEF Context
<1>4. /\ task'[t].queue = task[t].queue \cup {c} /\ task'[t].target = task[t].target
      /\ task'[t].state = task[t].state
      /\ \A u \in Tasks : u # t => task'[u] = task[u]
  BY <1>1 DEF Context
<1>5. \A u \in Tasks : task'[u].state = "unused" => task'[u].target = {}
  BY <1>4 DEF Context
<1>6. Pending(t, c)'
  BY <1>4 DEF Pending
<1>7. \A u \in Tasks, d \in Conns : u # t \/ d # c => (Pending(u, d)' <=> Pending(u, d))
  BY <1>4 DEF Pending
<1> QED
  BY <1>3, <1>5, <1>6, <1>7

(* World::tick acts on what it has read.                                   *)
LEMMA MainActStep ==
  ASSUME Sessions, MainAct PROVE Sessions'
<1> USE DEF ex_handshaked, extension_syncing, extension_synced
<1>1. Context /\ conn \in [Conns -> Player] /\ hist \in [Conns -> Fates]
  BY ShapeFacts DEF Sessions
<1>2. PICK c \in Conns : c = main.at
  BY DEF MainAct
<1>3. /\ main.seen # invaild /\ main' = [at |-> c + 1, seen |-> invaild]
      /\ UNCHANGED <<request, response, dups, faults, loading>>
  BY <1>2 DEF MainAct
<1>4. Seen(c) = main.seen /\ \A d \in Conns : Seen(d)' = invaild
  BY <1>2, <1>3 DEF Seen
<1>5. /\ main' \in [at : 0 .. N + 1, seen : States] /\ main'.seen = invaild
      /\ main.seen \in States
  BY <1>1, <1>2, <1>3, SessionAssumption DEF Context, Conns, States, invaild, spawned
<1>6. /\ Good(c) /\ conn[c] \in Player /\ hist[c] \in Fates /\ client[c] \in Clients
      /\ client[c].hello /\ conn[c].life # "none"
  BY <1>1, <1>3, <1>4 DEF Sessions, Good, Fresh, Context
<1>7. main.seen >= handshaked => hist[c].reached
  BY <1>4, <1>5, <1>6 DEF Good, Unreached, States, invaild, spawned, handshaked
<1>8. \A d \in Conns : /\ Fails(d)' <=> Fails(d)
                       /\ Passes(d)' <=> Passes(d)
  BY <1>3 DEF Fails, Passes
<1>9. CASE UNCHANGED <<conn, hist, client, task>>
  <2>1. Context'
    BY <1>1, <1>3, <1>5, <1>9 DEF Context
  <2>2. \A d \in Conns : Quiet(d)
    BY <1>3, <1>4, <1>8, <1>9 DEF Quiet, Pending
  <2> QED
    BY <1>3, <1>9, <2>1, <2>2, NoStep
<1>10. CASE /\ main.seen = ex_handshaked /\ task' = task
            /\ Step(c, PrepareStateTransition(conn[c], extension_syncing, extension_synced))
            /\ client' = [client EXCEPT ![c].offered = TRUE]
  <2>1. PICK y : y = PrepareStateTransition(conn[c], extension_syncing, extension_synced)
    OBVIOUS
  <2>2. extension_syncing \in States /\ extension_synced \in States
    BY DEF States, invaild, spawned
  <2>3. y \in Player /\ y.life = conn[c].life /\ y.cur = extension_syncing /\ y.next = extension_synced
    BY <1>6, <2>1, <2>2, PrepareFacts
  <2>4. PICK h \in Fates : /\ hist' = [hist EXCEPT ![c] = h]
                           /\ h.reached <=> hist[c].reached \/ y.cur >= handshaked
                           /\ h.rejected <=> hist[c].rejected
                           /\ h.dropped <=> hist[c].dropped
    <3>1. hist' = [hist EXCEPT ![c] = Record(c, y, hist[c])]
      BY <1>10, <2>1 DEF Step
    <3> QED
      BY <1>6, <3>1, RecordFacts
  <2>5. conn' = [conn EXCEPT ![c] = y]
    BY <1>10, <2>1 DEF Step
  <2>6. client' \in [Conns -> Clients] /\ client'[c].hello
        /\ \A d \in Conns : d # c => client'[d] = client[d]
    <3>1. client' = [client EXCEPT ![c] = [client[c] EXCEPT !.offered = TRUE]]
      BY <1>1, <1>10 DEF Context
    <3>2. [client[c] EXCEPT !.offered = TRUE] \in Clients
      BY <1>6, Zenon DEF Clients
    <3>3. [client[c] EXCEPT !.offered = TRUE].hello
      BY <1>6, Zenon DEF Clients
    <3> QED
      BY <1>1, <3>1, <3>2, <3>3 DEF Context
  <2>7. Context'
    BY <1>1, <1>3, <1>5, <1>10, <2>6 DEF Context
  <2>8. Others(c)
    BY <1>3, <1>4, <1>8, <1>10, <2>6 DEF Others, Pending
  <2>9. Good(c)'
    <3>1. Kept(c) /\ conn'[c] = y
      BY <1>1, <2>4, <2>5 DEF Kept
    <3>2. hist[c].reached
      BY <1>7, <1>10 DEF handshaked
    <3> QED
      BY <1>3, <2>3, <2>6, <3>1, <3>2, PrepareStep
         DEF handshaked, level_initialized, spawned, invaild, level_initializing, spawning,
             disconnecting
  <2> QED
    BY <1>3, <2>3, <2>4, <2>5, <2>7, <2>8, <2>9, OneStep
<1>11. ASSUME NEW t \in {"level", "spawn"}, NEW s \in {level_initializing, spawning}, NEW u,
              t = "level" => s = level_initializing /\ u = level_initialized,
              t = "spawn" => s = spawning /\ u = spawned,
              main.seen \in {handshaked, extension_synced, level_initialized},
              Step(c, PrepareStateTransition(conn[c], s, u)), Push(t, c), client' = client
       PROVE  Sessions'
  <2>1. PICK y : y = PrepareStateTransition(conn[c], s, u)
    OBVIOUS
  <2>2. s \in States /\ u \in States
    BY <1>11 DEF States, invaild, level_initializing, level_initialized, spawning, spawned
  <2>3. y \in Player /\ y.life = conn[c].life /\ y.cur = s /\ y.next = u
    BY <1>6, <2>1, <2>2, PrepareFacts
  <2>4. PICK h \in Fates : /\ hist' = [hist EXCEPT ![c] = h]
                           /\ h.reached <=> hist[c].reached \/ y.cur >= handshaked
                           /\ h.rejected <=> hist[c].rejected
                           /\ h.dropped <=> hist[c].dropped
    BY <1>6, <1>11, <2>1, RecordFacts DEF Step
  <2>5. conn' = [conn EXCEPT ![c] = y]
    BY <1>11, <2>1 DEF Step
  <2>6. t \in Tasks
    BY DEF Tasks
  <2>7. Context' /\ Pending(t, c)'
    BY <1>1, <1>3, <1>5, <1>11, <2>6, PushFacts DEF Context
  <2>8. Others(c)
    BY <1>1, <1>3, <1>4, <1>8, <1>11, <2>6, PushFacts DEF Others
  <2>9. Good(c)'
    <3>1. Kept(c) /\ conn'[c] = y
      BY <1>1, <2>4, <2>5 DEF Kept
    <3>2. hist[c].reached
      BY <1>7, <1>11 DEF handshaked, level_initialized
    <3>3. s = level_initializing => t = "level"
      BY <1>11 DEF level_initializing, spawning
    <3>4. s = spawning => t = "spawn"
      BY <1>11 DEF level_initializing, spawning
    <3> QED
      BY <1>3, <1>6, <1>11, <2>3, <2>7, <3>1, <3>2, <3>3, <3>4, PrepareStep
         DEF handshaked, level_initialized, spawned, invaild, level_initializing, spawning,
             disconnecting
  <2> QED
    BY <1>3, <2>3, <2>4, <2>5, <2>7, <2>8, <2>9, OneStep
<1>12. CASE main.seen = disconnecting /\ Push("disconnect", c) /\ UNCHANGED <<conn, hist, client>>
  <2>1. "disconnect" \in Tasks
    BY DEF Tasks
  <2>2. Context'
    BY <1>1, <1>3, <1>5, <1>12, <2>1, PushFacts DEF Context
  <2>3. Others(c)
    BY <1>1, <1>3, <1>4, <1>8, <1>12, <2>1, PushFacts DEF Others
  <2>4. \A t \in Tasks : t # "disconnect" => (Pending(t, c)' <=> Pending(t, c))
    BY <1>1, <1>12, <2>1, PushFacts
  <2>5. Good(c)'
    <3>1. Fresh(c)' /\ Moving(c)' /\ Verdict(c)'
      BY <1>3, <1>6, <1>8, <1>12 DEF Good, Fresh, Moving, Verdict, Online
    <3>2. Unreached(c)'
      BY <1>4, <1>6, <1>12, <2>4 DEF Good, Unreached, Leaving, Tasks, handshaked, invaild,
         disconnecting
    <3>3. Placed(c)'
      BY <1>6, <1>12, <2>4 DEF Good, Placed, Online, Tasks
    <3> QED
      BY <3>1, <3>2, <3>3 DEF Good
  <2>6. \A d \in Conns : Good(d)'
    BY <1>12, <2>3, <2>5, BystanderStep
  <2> QED
    BY <1>1, <1>3, <1>12, <2>2, <2>6, ManySteps
<1>13. CASE Step(c, Disconnect(conn[c])) /\ UNCHANGED <<client, task>>
  <2>1. Calm(conn[c], Disconnect(conn[c])) /\ Disconnect(conn[c]).life # "none"
    BY <1>6, DisconnectFacts DEF Calm
  <2>2. Context'
    BY <1>1, <1>3, <1>5, <1>13 DEF Context
  <2>3. Quiet(c) /\ Others(c)
    BY <1>3, <1>4, <1>8, <1>13 DEF Quiet, Others, Pending
  <2> QED
    BY <1>3, <1>13, <2>1, <2>2, <2>3, CalmMove
<1>14. \/ UNCHANGED <<conn, hist, client, task>>
       \/ /\ main.seen = ex_handshaked /\ task' = task
          /\ Step(c, PrepareStateTransition(conn[c], extension_syncing, extension_synced))
          /\ client' = [client EXCEPT ![c].offered = TRUE]
       \/ /\ main.seen \in {handshaked, extension_synced}
          /\ Step(c, PrepareStateTransition(conn[c], level_initializing, level_initialized))
          /\ Push("level", c) /\ client' = client
       \/ /\ main.seen = level_initialized
          /\ Step(c, PrepareStateTransition(conn[c], spawning, spawned))
          /\ Push("spawn", c) /\ client' = client
       \/ main.seen = disconnecting /\ Push("disconnect", c) /\ UNCHANGED <<conn, hist, client>>
       \/ Step(c, Disconnect(conn[c])) /\ UNCHANGED <<client, task>>
  BY <1>2 DEF MainAct
<1>15. ASSUME main.seen \in {handshaked, extension_synced},
              Step(c, PrepareStateTransition(conn[c], level_initializing, level_initialized)),
              Push("level", c), client' = client
       PROVE  Sessions'
  BY <1>11, <1>15
<1>16. ASSUME main.seen = level_initialized,
              Step(c, PrepareStateTransition(conn[c], spawning, spawned)),
              Push("spawn", c), client' = client
       PROVE  Sessions'
  BY <1>11, <1>16
<1> QED
  BY <1>9, <1>10, <1>12, <1>13, <1>14, <1>15, <1>16

(* A queue becomes the list of its task; the list it replaces is empty.    *)
LEMMA MainScheduleStep ==
  ASSUME Sessions, MainSchedule PROVE Sessions'
<1>1. Context
  BY ShapeFacts DEF Sessions
<1>2. PICK S \in SUBSET {t \in Tasks : Ready(t)} : Schedule(S)
  BY DEF MainSchedule
<1>3. /\ main.at = N + 1 /\ main' = [main EXCEPT !.at = 0]
      /\ UNCHANGED <<conn, client, request, response, dups, faults, loading, hist>>
  BY <1>2 DEF Schedule
<1>4. main' \in [at : 0 .. N + 1, seen : States] /\ main'.seen = invaild
  BY <1>1, <1>3, SessionAssumption DEF Context, Conns
<1>5. ASSUME NEW t \in Tasks
      PROVE  /\ task'[t] \in [state : {"unused", "processing"},
                              queue : SUBSET Conns, target : SUBSET Conns]
             /\ task'[t].state = "unused" => task'[t].target = {}
             /\ \A d \in Conns : Pending(t, d)' <=> Pending(t, d)
  <2>1. task[t] \in [state : {"unused", "processing"},
                     queue : SUBSET Conns, target : SUBSET Conns]
        /\ (task[t].state = "unused" => task[t].target = {})
    BY <1>1 DEF Context
  <2>2. CASE t \in S
    <3>1. task'[t] = [state |-> "processing", queue |-> task[t].target, target |-> task[t].queue]
      BY <1>2, <2>2 DEF Schedule
    <3> QED
      BY <2>1, <3>1 DEF Pending
  <2>3. CASE t \notin S
    <3>1. task'[t] = task[t]
      BY <1>2, <2>3 DEF Schedule
    <3> QED
      BY <2>1, <3>1 DEF Pending
  <2> QED
    BY <2>2, <2>3
<1>6. task' \in [Tasks -> [state : {"unused", "processing"},
                           queue : SUBSET Conns, target : SUBSET Conns]]
  BY <1>2, <1>5 DEF Schedule
<1>7. Context'
  BY <1>1, <1>3, <1>4, <1>5, <1>6 DEF Context
<1>8. \A d \in Conns : Quiet(d)
  BY <1>3, <1>4, <1>5 DEF Quiet, Fails, Passes, Seen
<1> QED
  BY <1>3, <1>7, <1>8, NoStep

----------------------------------------------------------------------------
(* Worker threads.                                                         *)

(* A task is done with one player.                                         *)
LEMMA FinishFacts ==
  ASSUME Context, NEW t \in Tasks, NEW c \in Conns, Finish(t, c)
  PROVE  /\ task' \in [Tasks -> [state : {"unused", "processing"},
                                 queue : SUBSET Conns, target : SUBSET Conns]]
         /\ \A u \in Tasks : task'[u].state = "unused" => task'[u].target = {}
         /\ Pending(t, c)' => Pending(t, c)
         /\ \A u \in Tasks, d \in Conns : u # t \/ d # c => (Pending(u, d)' <=> Pending(u, d))
<1>1. task' = [task EXCEPT ![t] = [task[t] EXCEPT !.target = task[t].target \ {c}]]
  BY DEF Finish, Context
<1>2. [task[t] EXCEPT !.target = task[t].target \ {c}] \in
        [state : {"unused", "processing"}, queue : SUBSET Conns, target : SUBSET Conns]
  BY DEF Context
<1>3. task' \in [Tasks -> [state : {"unused", "processing"},
                           queue : SUBSET Conns, target : SUBSET Conns]]
  BY <1>1, <1>2 DEF Context
<1>4. /\ task'[t].queue = task[t].queue /\ task'[t].target = task[t].target \ {c}
      /\ task'[t].state = task[t].state
      /\ \A u \in Tasks : u # t => task'[u] = task[u]
  BY <1>1 DEF Context
<1>5. \A u \in Tasks : task'[u].state = "unused" => task'[u].target = {}
  BY <1>4 DEF Context
<1>6. Pending(t, c)' => Pending(t, c)
  BY <1>4 DEF Pending
<1>7. \A u \in Tasks, d \in Conns : u # t \/ d # c => (Pending(u, d)' <=> Pending(u, d))
  BY <1>4 DEF Pending
<1> QED
  BY <1>3, <1>5, <1>6, <1>7

(* A task drops a player that it need not serve: its connection is gone,   *)
(* or its packets found no room.                                           *)
LEMMA DropStep ==
  ASSUME Sessions, NEW c \in Conns, conn'[c] = conn[c],
         hist'[c].reached <=> hist[c].reached, hist'[c].rejected <=> hist[c].rejected,
         Online(c) => hist'[c].dropped,
         \A t \in Tasks : Pending(t, c)' => Pending(t, c),
         UNCHANGED <<client, request, response, loading, main>>
  PROVE  Good(c)'
<1>1. Good(c)
  BY DEF Sessions
<1>2. /\ Fails(c)' <=> Fails(c)
      /\ Passes(c)' <=> Passes(c)
      /\ Seen(c)' = Seen(c)
  BY DEF Fails, Passes, Seen
<1>3. Fresh(c)' /\ Moving(c)' /\ Verdict(c)'
  BY <1>1, <1>2 DEF Good, Fresh, Moving, Verdict, Online, Tasks
<1>4. Unreached(c)'
  BY <1>1, <1>2 DEF Good, Unreached, Tasks
<1>5. Placed(c)'
  BY <1>1 DEF Good, Placed, Online
<1> QED
  BY <1>3, <1>4, <1>5 DEF Good

(* A task completes the transition of a player that is still online.       *)
LEMMA ServeStep ==
  ASSUME Sessions, NEW t \in Tasks, NEW c \in Conns, Working(t, c), Finish(t, c), Online(c),
         hist[c].reached \/ t = "disconnect",
         NEW h \in Fates, h.reached <=> hist[c].reached \/ TransitState(conn[c]).cur >= handshaked,
         h.rejected <=> hist[c].rejected, h.dropped <=> hist[c].dropped,
         conn' = [conn EXCEPT ![c] = TransitState(@)], hist' = [hist EXCEPT ![c] = h],
         UNCHANGED <<client, request, response, dups, faults, loading, main>>
  PROVE  Sessions'
<1>1. /\ Context /\ conn \in [Conns -> Player] /\ hist \in [Conns -> Fates]
      /\ Good(c) /\ conn[c] \in Player /\ loading[c] \in Nat /\ Pending(t, c)
  BY ShapeFacts DEF Sessions, Context, Working, Pending
<1>2. Context'
  BY <1>1, FinishFacts DEF Context
<1>3. /\ \A d \in Conns, u \in Tasks : d # c => (Pending(u, d)' <=> Pending(u, d))
      /\ \A u \in Tasks : Pending(u, c)' => Pending(u, c)
  BY <1>1, FinishFacts
<1>4. Others(c)
  BY <1>3 DEF Others, Fails, Passes, Seen
<1>5. PICK y : y = TransitState(conn[c])
  OBVIOUS
<1>6. y \in Player /\ y.life = "online" /\ y.cur = conn[c].next /\ y.next = conn[c].next
  BY <1>1, <1>5, TransitFacts DEF Online
<1>7. Calm(y, y)
  BY <1>6, FieldFacts
<1>8. client[c].hello /\ (hist[c].reached \/ conn[c].next = disconnected)
  BY <1>1 DEF Good, Fresh, Unreached
<1>9. Quieter(c)
  BY <1>1, <1>3, <1>8 DEF Quieter, Fails, Passes, Seen
<1>10. conn' = [conn EXCEPT ![c] = y]
  BY <1>1, <1>5
<1> QED
  BY <1>2, <1>4, <1>5, <1>6, <1>7, <1>8, <1>9, <1>10, TransitMove

(* The level task and the spawn task.                                      *)
LEMMA DeliverStep ==
  ASSUME Sessions, NEW t \in Tasks, NEW c \in Conns, Deliver(t, c) PROVE Sessions'
<1>1. /\ Context /\ conn \in [Conns -> Player] /\ hist \in [Conns -> Fates]
      /\ Good(c) /\ conn[c] \in Player /\ hist[c] \in Fates
  BY ShapeFacts DEF Sessions, Context
<1>2. /\ Working(t, c) /\ t # "disconnect" /\ Finish(t, c)
      /\ UNCHANGED <<client, request, response, dups, faults, loading, main>>
  BY DEF Deliver
<1>3. hist[c].reached
  <2>1. Pending(t, c) /\ t \in {"level", "spawn"}
    BY <1>2 DEF Pending, Working, Tasks
  <2> QED
    BY <1>1, <2>1 DEF Good, Unreached
<1>4. Context'
  BY <1>1, <1>2, FinishFacts DEF Context
<1>5. /\ \A d \in Conns, u \in Tasks : d # c => (Pending(u, d)' <=> Pending(u, d))
      /\ \A u \in Tasks : Pending(u, c)' => Pending(u, c)
  BY <1>1, <1>2, FinishFacts
<1>6. Others(c)
  BY <1>2, <1>5 DEF Others, Fails, Passes, Seen
<1>7. CASE /\ Online(c) /\ conn' = [conn EXCEPT ![c] = TransitState(@)]
           /\ hist' = [hist EXCEPT ![c] = Served(t, Record(c, TransitState(conn[c]), @))]
  <2>1. PICK g : g = Record(c, TransitState(conn[c]), hist[c])
    OBVIOUS
  <2>2. /\ g \in Fates
        /\ g.reached <=> hist[c].reached \/ TransitState(conn[c]).cur >= handshaked
        /\ g.rejected <=> hist[c].rejected
        /\ g.dropped <=> hist[c].dropped
    BY <1>1, <2>1, RecordFacts
  <2>3. PICK h : h = Served(t, g)
    OBVIOUS
  <2>4. h \in Fates /\ (h.reached <=> g.reached) /\ (h.rejected <=> g.rejected)
        /\ (h.dropped <=> g.dropped)
    BY <2>2, <2>3, FateFacts
  <2>5. hist' = [hist EXCEPT ![c] = h]
    BY <1>1, <1>7, <2>1, <2>3
  <2> QED
    BY <1>2, <1>3, <1>7, <2>2, <2>4, <2>5, ServeStep
<1>8. CASE /\ Online(c) /\ conn' = conn
           /\ hist' = [hist EXCEPT ![c].dropped = TRUE]
  <2>1. PICK h : h = [hist[c] EXCEPT !.dropped = TRUE]
    OBVIOUS
  <2>2. hist' = [hist EXCEPT ![c] = h]
    BY <1>1, <1>8, <2>1
  <2>3. /\ h \in Fates /\ (h.reached <=> hist[c].reached) /\ (h.rejected <=> hist[c].rejected)
        /\ h.dropped
    BY <1>1, <2>1, FateFacts
  <2>4. hist'[c] = h /\ conn'[c] = conn[c] /\ conn' = [conn EXCEPT ![c] = conn[c]]
    BY <1>1, <1>8, <2>2
  <2>5. Good(c)'
    BY <1>2, <1>5, <2>3, <2>4, DropStep
  <2> QED
    BY <1>1, <1>2, <1>4, <1>6, <2>2, <2>3, <2>4, <2>5, OneStep
<1>9. CASE ~Online(c) /\ UNCHANGED <<conn, hist>>
  <2>1. Good(c)'
    BY <1>2, <1>5, <1>9, DropStep
  <2>2. \A d \in Conns : Good(d)'
    BY <1>6, <1>9, <2>1, BystanderStep
  <2> QED
    BY <1>1, <1>2, <1>4, <1>9, <2>2, ManySteps
<1> QED
  BY <1>7, <1>8, <1>9 DEF Deliver

(* The disconnect task.                                                    *)
LEMMA TeardownStep ==
  ASSUME Sessions, NEW c \in Conns, Teardown(c) PROVE Sessions'
<1>1. /\ Context /\ conn \in [Conns -> Player] /\ hist \in [Conns -> Fates]
      /\ Good(c) /\ conn[c] \in Player /\ hist[c] \in Fates
  BY ShapeFacts DEF Sessions, Context
<1>2. /\ Working("disconnect", c) /\ Finish("disconnect", c) /\ "disconnect" \in Tasks
      /\ UNCHANGED <<client, request, response, dups, faults, loading, main>>
  BY DEF Teardown, Tasks
<1>3. CASE Online(c)
  <2>1. PICK g : g = Record(c, TransitState(conn[c]), hist[c])
    OBVIOUS
  <2>2. /\ g \in Fates
        /\ g.reached <=> hist[c].reached \/ TransitState(conn[c]).cur >= handshaked
        /\ g.rejected <=> hist[c].rejected
        /\ g.dropped <=> hist[c].dropped
    BY <1>1, <2>1, RecordFacts
  <2>3. PICK h : h = Saved(conn[c], g)
    OBVIOUS
  <2>4. h \in Fates /\ (h.reached <=> g.reached) /\ (h.rejected <=> g.rejected)
        /\ (h.dropped <=> g.dropped)
    BY <2>2, <2>3, FateFacts
  <2>5. conn' = [conn EXCEPT ![c] = TransitState(@)] /\ hist' = [hist EXCEPT ![c] = h]
    BY <1>1, <1>3, <2>1, <2>3 DEF Teardown
  <2> QED
    BY <1>2, <1>3, <2>2, <2>4, <2>5, ServeStep
<1>4. CASE ~Online(c)
  <2>1. UNCHANGED <<conn, hist>>
    BY <1>4 DEF Teardown
  <2>2. Context'
    BY <1>1, <1>2, FinishFacts DEF Context
  <2>3. /\ \A d \in Conns, u \in Tasks : d # c => (Pending(u, d)' <=> Pending(u, d))
        /\ \A u \in Tasks : Pending(u, c)' => Pending(u, c)
    BY <1>1, <1>2, FinishFacts
  <2>4. Others(c)
    BY <1>2, <2>3 DEF Others, Fails, Passes, Seen
  <2>5. Good(c)'
    BY <1>2, <1>4, <2>1, <2>3, DropStep
  <2>6. \A d \in Conns : Good(d)'
    BY <2>1, <2>4, <2>5, BystanderStep
  <2> QED
    BY <1>1, <1>2, <2>1, <2>2, <2>6, ManySteps
<1> QED
  BY <1>3, <1>4

(* A task that has served its list is unused again.                        *)
LEMMA TaskEndStep ==
  ASSUME Sessions, NEW t \in Tasks, TaskEnd(t) PROVE Sessions'
<1>1. Context
  BY ShapeFacts DEF Sessions
<1>2. /\ task[t].target = {}
      /\ task' = [task EXCEPT ![t] = [task[t] EXCEPT !.state = "unused"]]
      /\ UNCHANGED <<conn, client, request, response, dups, faults, loading, main, hist>>
  BY <1>1 DEF TaskEnd, Context
<1>3. [task[t] EXCEPT !.state = "unused"] \in
        [state : {"unused", "processing"}, queue : SUBSET Conns, target : SUBSET Conns]
  BY <1>1 DEF Context
<1>4. task' \in [Tasks -> [state : {"unused", "processing"},
                           queue : SUBSET Conns, target : SUBSET Conns]]
  BY <1>1, <1>2, <1>3 DEF Context
<1>5. /\ task'[t].queue = task[t].queue /\ task'[t].target = {}
      /\ \A u \in Tasks : u # t => task'[u] = task[u]
  BY <1>1, <1>2 DEF Context
<1>6. Context'
  BY <1>1, <1>2, <1>4, <1>5 DEF Context
<1>7. \A d \in Conns, u \in Tasks : Pending(u, d)' <=> Pending(u, d)
  BY <1>2, <1>5 DEF Pending
<1>8. \A d \in Conns : Quiet(d)
  BY <1>2, <1>7 DEF Quiet, Fails, Passes, Seen
<1> QED
  BY <1>2, <1>6, <1>8, NoStep

----------------------------------------------------------------------------
(* The invariant, and the theorems.                                        *)

(* No connection, no history.                                              *)
LEMMA InitSessions == Init => Sessions
<1> SUFFICES ASSUME Init PROVE Sessions
  OBVIOUS
<1>1. NewConn \in Player
  <2>1. 0 \in 0 .. MaxExt
    BY SessionAssumption
  <2>2. invaild \in States
    BY DEF invaild, spawned, States
  <2> QED
    BY <2>1, <2>2, Zenon DEF NewConn, Player
<1> USE DEF invaild, disconnecting, disconnected, handshaking, handshaked,
            level_initializing, level_initialized, spawning, spawned, Leaving, States
<1>2. NewHist \in Fates /\ ~NewHist.reached /\ ~NewHist.rejected
  BY Zenon DEF NewHist, Fates
<1>3. \A c \in Conns : conn[c] = NewConn /\ hist[c] = NewHist
  BY DEF Init
<1>4. \A c \in Conns : ~client[c].hello /\ ~client[c].offered /\ client[c].exts = "none"
  BY DEF Init
<1>5. client \in [Conns -> Clients]
  <2>1. [link |-> "active", hello |-> FALSE, offered |-> FALSE, exts |-> "none"] \in Clients
    BY Zenon DEF Clients
  <2> QED
    BY <2>1 DEF Init
<1>6. Context
  <2>1. dups \in 0 .. MaxDuplicates /\ faults \in 0 .. MaxFaults
    BY SessionAssumption DEF Init
  <2>2. main \in [at : 0 .. N + 1, seen : States] /\ main.seen = invaild
    BY SessionAssumption DEF Init
  <2>3. loading \in [Conns -> Nat] /\ request \subseteq Conns /\ response \subseteq Responses
    BY DEF Init
  <2>4. /\ task \in [Tasks -> [state : {"unused", "processing"},
                               queue : SUBSET Conns, target : SUBSET Conns]]
        /\ \A t \in Tasks : task[t].state = "unused" => task[t].target = {}
    BY DEF Init
  <2> QED
    BY <1>5, <2>1, <2>2, <2>3, <2>4 DEF Context
<1>7. conn \in [Conns -> Player] /\ hist \in [Conns -> Fates] /\ response = {}
  BY <1>1, <1>2 DEF Init
<1>8. Shapes
  BY <1>6, <1>7, ShapeFacts
<1>9. ASSUME NEW c \in Conns PROVE Good(c)
  <2>1. /\ ~Fails(c) /\ ~Passes(c) /\ Seen(c) = invaild /\ c \notin request /\ loading[c] = 0
        /\ \A t \in Tasks : ~Pending(t, c)
    BY DEF Init, Fails, Passes, Seen, Pending
  <2>2. /\ conn[c].life = "none" /\ conn[c].cur = invaild /\ conn[c].next = invaild
        /\ conn[c].recv = "idle" /\ ~hist[c].reached /\ ~hist[c].rejected
    BY <1>2, <1>3 DEF NewConn
  <2> QED
    BY <1>4, <2>1, <2>2 DEF Good, Fresh, Moving, Unreached, Verdict, Placed, Online, Tasks
<1> QED
  BY <1>8, <1>9 DEF Sessions

(* Every step keeps the invariant.                                         *)
LEMMA NextSessions == Sessions /\ [Next]_vars => Sessions'
<1> SUFFICES ASSUME Sessions, [Next]_vars PROVE Sessions'
  OBVIOUS
<1>1. ASSUME NEW c \in Conns,
             \/ Accept(c) \/ Expire(c) \/ Receive(c) \/ ClientLeaves(c)
             \/ Answer(c) \/ LoseMessage(c) \/ Loaded(c)
             \/ \E t \in Tasks : Deliver(t, c)
             \/ Teardown(c)
      PROVE  Sessions'
  <2>1. CASE Accept(c)
    BY <2>1, AcceptStep
  <2>2. CASE Expire(c)
    BY <2>2, ExpireStep
  <2>3. CASE Receive(c)
    BY <2>3, RecvHandshakeStep, RecvExtInfoStep, RecvExtEntryStep, RecvOtherStep, RecvFailedStep
       DEF Receive
  <2>4. CASE ClientLeaves(c)
    BY <2>4, ClientLeavesStep
  <2>5. CASE Answer(c)
    BY <2>5, AnswerStep
  <2>6. CASE LoseMessage(c)
    BY <2>6, LoseMessageStep
  <2>7. CASE Loaded(c)
    BY <2>7, LoadedStep
  <2>8. CASE \E t \in Tasks : Deliver(t, c)
    BY <2>8, DeliverStep
  <2>9. CASE Teardown(c)
    BY <2>9, TeardownStep
  <2> QED
    BY <1>1, <2>1, <2>2, <2>3, <2>4, <2>5, <2>6, <2>7, <2>8, <2>9
<1>2. CASE \E m \in response : HandleResponse(m)
  BY <1>2, HandleResponseStep
<1>3. CASE MainFlush \/ MainRead \/ MainAct \/ MainSchedule
  BY <1>3, MainFlushStep, MainReadStep, MainActStep, MainScheduleStep
<1>4. CASE \E t \in Tasks : TaskEnd(t)
  BY <1>4, TaskEndStep
<1>5. CASE UNCHANGED vars
  <2>1. Context
    BY ShapeFacts DEF Sessions
  <2>2. UNCHANGED <<conn, client, request, response, dups, faults, loading, task, main, hist>>
    BY <1>5 DEF vars
  <2>3. Context' /\ response' \subseteq response /\ \A c \in Conns : Quiet(c)
    BY <2>1, <2>2, FaultFacts, SameContext
  <2> QED
    BY <2>2, <2>3, NoStep
<1> QED
  BY <1>1, <1>2, <1>3, <1>4, <1>5 DEF Next

(* The shape of the session state: with it, that a task has a list only     *)
(* while it runs.                                                          *)
THEOREM SessionTypes == Spec => []TypeOK
<1>1. Sessions => TypeOK
  BY DEF Sessions, Shapes
<1> QED
  BY InitSessions, NextSessions, <1>1, PTL DEF Spec

(* World::tick and the tasks: whoever waits for its level or its spawn is  *)
(* on the list of the task that ends the wait, whatever the number of      *)
(* connections, faults and repeated login responses.                       *)
THEOREM NobodyIsForgotten == Spec => []WaitingIsQueued
<1>1. Sessions => WaitingIsQueued
  BY DEF Sessions, Good, Placed, WaitingIsQueued
<1> QED
  BY InitSessions, NextSessions, <1>1, PTL DEF Spec

(* Connection::kick and try_acquire_connection: a rejected player or one   *)
(* that is gone never enters the world.                                    *)
THEOREM WorldIsGuarded == Spec => []OnlyAdmittedEnter
<1>1. Sessions => OnlyAdmittedEnter
  BY DEF Sessions, Good, Verdict, Placed, OnlyAdmittedEnter, RejectedStaysOut,
         OfflineNeverEnters
<1> QED
  BY InitSessions, NextSessions, <1>1, PTL DEF Spec

----------------------------------------------------------------------------
(* The level comes before the blocks.                                      *)

(* A login response of the connection is on its way.                       *)
Answered(c) == \E m \in response : m.conn = c

(* The client still owes extension entries.                                *)
Syncing(c) == client[c].offered /\ (client[c].exts = "none" \/ conn[c].pending > 0)

(* Where no response is delivered twice, one handshake completes at most   *)
(* one transition: the one that lets the player in.                        *)
Once(c) ==
    /\ loading[c] <= 1
    /\ \A m, n \in response : m.conn = c /\ n.conn = c => m = n
    /\ Answered(c) => loading[c] = 0
    /\ hist[c].reached => ~Answered(c) /\ loading[c] = 0

(* The disconnect task finds only players that are leaving.                *)
Parting(c) ==
    /\ conn[c].cur \in Leaving => conn[c].next = disconnected
    /\ Pending("disconnect", c) \/ Seen(c) \in Leaving => conn[c].cur \in Leaving
    /\ Pending("disconnect", c) => Seen(c) \in {invaild} \cup Leaving

(* Extension entries find only players that wait for them, or are leaving. *)
Extending(c) ==
    /\ client[c].exts = "announced" => client[c].offered
    /\ Syncing(c) => /\ conn[c].cur \in {extension_syncing} \cup Leaving
                     /\ Seen(c) \in {invaild, extension_syncing} \cup Leaving
                     /\ ~Pending("level", c) /\ ~Pending("spawn", c)
    /\ Pending("level", c) \/ Pending("spawn", c) =>
         ex_handshaked \notin {conn[c].cur, conn[c].next, Seen(c)}

(* Without the level nobody is past the state in which it is awaited.      *)
Levelless(c) ==
    ~hist[c].level =>
        /\ conn[c].cur < level_initialized /\ Seen(c) < level_initialized
        /\ conn[c].next = level_initialized => conn[c].cur = level_initializing
        /\ conn[c].next <= level_initialized
        /\ ~Pending("spawn", c)

Path(c) == Parting(c) /\ Extending(c) /\ Levelless(c)
Track(c) == Once(c) /\ Path(c)
Tracks == \A c \in Conns : Track(c)

(* Nothing happens but that the player is torn down.                       *)
Eased(x, y) ==
    \/ y.cur = x.cur /\ y.next = x.next
    \/ y.cur = disconnecting /\ y.next = disconnected

(* A step that gives connection c nothing in the world to be moved on by,  *)
(* and none from the login server either.                                  *)
Placid(c) ==
    /\ client'[c].exts = "announced" => client'[c].offered
    /\ Syncing(c)' => Syncing(c)
    /\ \A t \in Tasks : Pending(t, c)' => Pending(t, c)
    /\ Seen(c)' \in {Seen(c), invaild}
    /\ hist[c].level => hist'[c].level
Steady(c) ==
    /\ Placid(c)
    /\ response' \subseteq response
    /\ loading'[c] \in Nat /\ loading'[c] <= loading[c]

(* No response or coroutine is added to a connection that was let in.      *)
LEMMA OnceStep ==
  ASSUME Sessions, NEW c \in Conns, Once(c), response' \subseteq response,
         loading'[c] \in Nat, loading'[c] <= loading[c],
         hist'[c].reached => hist[c].reached \/ (~Answered(c)' /\ loading'[c] = 0)
  PROVE  Once(c)'
<1>1. loading[c] \in Nat
  BY StateFacts DEF Sessions, Shapes
<1>2. Answered(c)' => Answered(c)
  BY DEF Answered
<1> QED
  BY <1>1, <1>2 DEF Once

(* Tearing a player down, or leaving it alone, keeps it on its path.       *)
LEMMA EasedPath ==
  ASSUME Sessions, NEW c \in Conns, Path(c), Placid(c), Eased(conn[c], conn'[c])
  PROVE  Path(c)'
<1> USE DEF invaild, disconnecting, disconnected, handshaked, ex_handshaked, extension_syncing,
            level_initializing, level_initialized, Leaving
<1>1. conn[c].cur \in Nat /\ conn[c].next \in Nat /\ Seen(c) \in Nat
  BY StateFacts DEF Sessions, Shapes
<1>2. Parting(c)'
  BY <1>1 DEF Parting, Path, Placid, Eased, Tasks
<1>3. Extending(c)'
  BY <1>1 DEF Extending, Path, Placid, Eased, Tasks
<1>4. Levelless(c)'
  BY <1>1 DEF Levelless, Path, Placid, Eased, Tasks
<1> QED
  BY <1>2, <1>3, <1>4 DEF Path

(* ... and lets nobody in.                                                 *)
LEMMA EasedStep ==
  ASSUME Sessions, NEW c \in Conns, Track(c), Steady(c), Eased(conn[c], conn'[c]),
         hist'[c].reached => hist[c].reached \/ conn'[c].cur >= handshaked
  PROVE  Track(c)'
<1>1. conn[c].cur \in Nat /\ Good(c)
  BY StateFacts DEF Sessions, Shapes
<1>2. conn[c].cur >= handshaked => hist[c].reached
  BY <1>1 DEF Good, Unreached, handshaked
<1>3. Once(c)'
  BY <1>1, <1>2, OnceStep DEF Steady, Track, Eased, disconnecting, handshaked
<1> QED
  BY <1>3, EasedPath DEF Track, Steady

(* A connection the step is not about.                                     *)
LEMMA ElsewhereStep ==
  ASSUME Sessions, NEW c \in Conns, Track(c), conn'[c] = conn[c], hist'[c] = hist[c],
         client'[c].offered = client[c].offered, client'[c].exts = client[c].exts,
         loading'[c] = loading[c], response' \subseteq response,
         \A t \in Tasks : Pending(t, c)' => Pending(t, c),
         Seen(c)' \in {Seen(c), invaild}
  PROVE  Track(c)'
<1>1. loading[c] \in Nat
  BY StateFacts DEF Sessions, Shapes
<1>2. Steady(c)
  BY <1>1 DEF Steady, Placid, Syncing, Track, Path, Extending
<1>3. Eased(conn[c], conn'[c])
  BY DEF Eased
<1> QED
  BY <1>2, <1>3, EasedStep

(* Moving on to the prepared state, when the step that does so is the one  *)
(* the player waits for.                                                   *)
LEMMA OnwardStep ==
  ASSUME Sessions, NEW c \in Conns, Track(c), Steady(c),
         NEW y, y.cur = conn[c].next, y.next = conn[c].next, Eased(y, conn'[c]),
         Syncing(c)' => conn[c].cur \in Leaving,
         hist'[c].level \/ conn[c].cur # level_initializing,
         hist'[c].reached => hist[c].reached \/ (~Answered(c)' /\ loading'[c] = 0)
  PROVE  Track(c)'
<1> USE DEF invaild, disconnecting, disconnected, handshaked, ex_handshaked, extension_syncing,
            level_initializing, level_initialized, Leaving
<1>1. conn[c].cur \in Nat /\ conn[c].next \in Nat /\ Seen(c) \in Nat /\ Good(c)
  BY StateFacts DEF Sessions, Shapes
<1>2. Once(c)'
  BY OnceStep DEF Steady, Track
<1>3. Parting(c)'
  BY <1>1 DEF Parting, Path, Steady, Placid, Track, Eased, Tasks, Good, Moving
<1>4. Extending(c)'
  BY <1>1 DEF Extending, Parting, Path, Steady, Placid, Track, Eased, Tasks
<1>5. Levelless(c)'
  BY <1>1 DEF Levelless, Path, Steady, Placid, Track, Eased, Tasks
<1> QED
  BY <1>2, <1>3, <1>4, <1>5 DEF Track, Path

(* What the operations leave of the extensions still to come.              *)
LEMMA PendingFacts ==
  ASSUME NEW x \in Player
  PROVE  /\ TransitState(x).pending = x.pending
         /\ \A s, t \in States : PrepareStateTransition(x, s, t).pending = x.pending
         /\ Disconnect(x).pending = x.pending
         /\ RecvComplete(x).pending = x.pending
<1>1. \A s, t \in States : \A w \in Player : PrepareStateTransition(w, s, t).pending = w.pending
  BY DEF Player, PrepareStateTransition
<1>2. TransitState(x).pending = x.pending
  BY DEF Player, TransitState
<1>3. disconnecting \in States /\ disconnected \in States
  BY DEF States, invaild, spawned, disconnecting, disconnected
<1>4. ASSUME NEW w \in Player PROVE Disconnect(w).pending = w.pending
  BY <1>1, <1>3 DEF Disconnect, Player
<1>5. RecvComplete(x).pending = x.pending
  <2>1. PICK w : w = [x EXCEPT !.recv = "idle"]
    OBVIOUS
  <2>2. w \in Player
    BY <2>1, Zenon DEF Player
  <2>3. w.pending = x.pending
    BY <2>1 DEF Player
  <2> QED
    BY <1>4, <2>1, <2>2, <2>3 DEF RecvComplete
<1> QED
  BY <1>1, <1>2, <1>4, <1>5

(* Only the level task records a level.                                    *)
LEMMA LevelFacts ==
  ASSUME NEW c \in Conns, NEW x, NEW h \in Fates
  PROVE  /\ Record(c, x, h).level <=> h.level
         /\ \A t : Served(t, h).level <=> h.level \/ t = "level"
         /\ \A y : Saved(y, h).level <=> h.level
         /\ [h EXCEPT !.dropped = TRUE].level <=> h.level
         /\ [h EXCEPT !.rejected = TRUE].level <=> h.level
  BY Zenon DEF Fates, Record, Served, Saved

(* What is calm has nothing new in it.                                     *)
LEMMA CalmIsEased == \A x, y : Calm(x, y) => Eased(x, y)
  BY DEF Calm, Eased

(* A step of connection c that leaves the tasks, the main loop and the     *)
(* login alone.                                                            *)
LEMMA AloneStep ==
  ASSUME Sessions, NEW c \in Conns, NEW z, Step(c, z), Eased(conn[c], z),
         z.pending = conn[c].pending \/ Syncing(c),
         UNCHANGED <<response, loading, task, main>>,
         \A d \in Conns : d # c => client'[d] = client[d],
         client'[c].offered = client[c].offered,
         client'[c].exts = client[c].exts \/ Syncing(c),
         NEW d \in Conns, Track(d)
  PROVE  Track(d)'
<1>1. /\ conn \in [Conns -> Player] /\ hist \in [Conns -> Fates] /\ Context
      /\ hist[d] \in Fates /\ loading[d] \in Nat /\ client[d] \in Clients
  BY ShapeFacts, StateFacts DEF Sessions, Shapes
<1>2. /\ Seen(d)' = Seen(d)
      /\ \A t \in Tasks : Pending(t, d)' <=> Pending(t, d)
  BY DEF Seen, Pending
<1>3. CASE d # c
  <2>1. conn'[d] = conn[d] /\ hist'[d] = hist[d]
    BY <1>1, <1>3 DEF Step
  <2> QED
    BY <1>1, <1>2, <1>3, <2>1, ElsewhereStep
<1>4. CASE d = c
  <2>1. conn'[c] = z /\ hist'[c] = Record(c, z, hist[c])
    BY <1>1 DEF Step
  <2>2. /\ hist'[c].level <=> hist[c].level
        /\ hist'[c].reached <=> hist[c].reached \/ z.cur >= handshaked
    BY <1>1, <1>4, <2>1, LevelFacts, RecordFacts
  <2>3. Syncing(c)' => Syncing(c)
    BY <2>1 DEF Syncing
  <2>4. client'[c].exts = "announced" => client'[c].offered
    BY <1>4 DEF Track, Path, Extending, Syncing
  <2>5. Steady(c)
    BY <1>1, <1>2, <1>4, <2>2, <2>3, <2>4 DEF Steady, Placid
  <2> QED
    BY <1>4, <2>1, <2>2, <2>5, EasedStep
<1> QED
  BY <1>3, <1>4

(* Accepting a connection.                                                 *)
LEMMA AcceptTrack ==
  ASSUME Sessions, NEW c \in Conns, Accept(c), NEW d \in Conns, Track(d) PROVE Track(d)'
<1>1. conn \in [Conns -> Player] /\ hist \in [Conns -> Fates] /\ loading[d] \in Nat
  BY ShapeFacts, StateFacts DEF Sessions, Shapes
<1>2. /\ conn' = [conn EXCEPT ![c] = [conn[c] EXCEPT !.life = "online"]]
      /\ UNCHANGED <<client, response, loading, task, main, hist>>
  BY <1>1 DEF Accept
<1>3. /\ conn'[d].cur = conn[d].cur /\ conn'[d].next = conn[d].next
      /\ conn'[d].pending = conn[d].pending
  BY <1>1, <1>2 DEF Player
<1>4. /\ Seen(d)' = Seen(d)
      /\ \A t \in Tasks : Pending(t, d)' <=> Pending(t, d)
  BY <1>2 DEF Seen, Pending
<1>5. Steady(d)
  BY <1>1, <1>2, <1>3, <1>4 DEF Steady, Placid, Syncing, Track, Path, Extending
<1> QED
  BY <1>2, <1>3, <1>5, EasedStep DEF Eased

(* Expiries, packets that move nobody on, and receives that fail.          *)
LEMMA QuietReceiveTrack ==
  ASSUME Sessions, NEW c \in Conns,
         \/ Expire(c) \/ RecvExtInfo(c) \/ RecvOther(c) \/ RecvBadPacket(c)
         \/ RecvEof(c) \/ RecvFailed(c),
         NEW d \in Conns, Track(d)
  PROVE  Track(d)'
<1>1. conn[c] \in Player /\ client \in [Conns -> Clients]
  BY ShapeFacts DEF Sessions, Context
<1>2. UNCHANGED <<response, loading, task, main>>
  BY DEF Expire, RecvExtInfo, RecvOther, RecvBadPacket, RecvEof, RecvFailed
<1>3. ASSUME NEW y \in Player, y.cur = conn[c].cur, y.next = conn[c].next
      PROVE  /\ Eased(conn[c], Disconnect(y)) /\ Disconnect(y).pending = y.pending
             /\ Eased(conn[c], RecvComplete(y)) /\ RecvComplete(y).pending = y.pending
  <2>1. Eased(conn[c], Disconnect(y))
    BY <1>3, DisconnectFacts DEF Eased, Calm
  <2>2. Calm(y, RecvComplete(y))
    BY CompleteFacts
  <2>3. Eased(conn[c], RecvComplete(y))
    BY <1>3, <2>2 DEF Eased, Calm
  <2> QED
    BY <2>1, <2>3, PendingFacts
<1>4. CASE Expire(c)
  <2>1. Step(c, Disconnect(conn[c])) /\ client' = client
    BY <1>4 DEF Expire
  <2> QED
    BY <1>1, <1>2, <1>3, <2>1, AloneStep
<1>5. CASE RecvOther(c) \/ RecvFailed(c)
  <2>1. Step(c, RecvComplete(conn[c])) /\ client' = client
    BY <1>5 DEF RecvOther, RecvFailed, RecvPacket
  <2> QED
    BY <1>1, <1>2, <1>3, <2>1, AloneStep
<1>6. CASE RecvBadPacket(c)
  <2>1. PICK y : y = [conn[c] EXCEPT !.err = TRUE]
    OBVIOUS
  <2>2. y \in Player
    BY <1>1, <2>1, Zenon DEF Player
  <2>3. y.cur = conn[c].cur /\ y.next = conn[c].next /\ y.pending = conn[c].pending
    BY <1>1, <2>1 DEF Player
  <2>4. (Step(c, RecvComplete(y)) \/ Step(c, RecvComplete(conn[c]))) /\ client' = client
    BY <1>6, <2>1 DEF RecvBadPacket, RecvPacket
  <2> QED
    BY <1>1, <1>2, <1>3, <2>2, <2>3, <2>4, AloneStep
<1>7. CASE RecvEof(c)
  <2>1. PICK y : y = [conn[c] EXCEPT !.recv = "stuck"]
    OBVIOUS
  <2>2. y \in Player
    BY <1>1, <2>1, Zenon DEF Player
  <2>3. y.cur = conn[c].cur /\ y.next = conn[c].next /\ y.pending = conn[c].pending
    BY <1>1, <2>1 DEF Player
  <2>4. Step(c, Disconnect(y)) /\ client' = client
    BY <1>7, <2>1 DEF RecvEof
  <2> QED
    BY <1>2, <1>3, <2>2, <2>3, <2>4, AloneStep
<1>8. CASE RecvExtInfo(c)
  <2>1. PICK n \in 1 .. MaxExt : RecvPacket(c, [conn[c] EXCEPT !.pending = n])
    BY <1>8 DEF RecvExtInfo
  <2>2. PICK y : y = [conn[c] EXCEPT !.pending = n]
    OBVIOUS
  <2>3. n \in 0 .. MaxExt
    BY SessionAssumption
  <2>4. y \in Player
    BY <1>1, <2>2, <2>3, Zenon DEF Player
  <2>5. y.cur = conn[c].cur /\ y.next = conn[c].next
    BY <1>1, <2>2 DEF Player
  <2>6. Step(c, RecvComplete(y)) \/ Step(c, RecvComplete(conn[c]))
    BY <2>1, <2>2 DEF RecvPacket
  <2>7. Syncing(c) /\ client' = [client EXCEPT ![c] = [client[c] EXCEPT !.exts = "announced"]]
    BY <1>1, <1>8 DEF RecvExtInfo, Syncing
  <2>8. client'[c].offered = client[c].offered /\ \A e \in Conns : e # c => client'[e] = client[e]
    BY <1>1, <2>7 DEF Clients
  <2> QED
    BY <1>1, <1>2, <1>3, <2>4, <2>5, <2>6, <2>7, <2>8, AloneStep
<1> QED
  BY <1>4, <1>5, <1>6, <1>7, <1>8

(* The handshake: nothing is queued for a connection before it.            *)
LEMMA HandshakeTrack ==
  ASSUME Sessions, NEW c \in Conns, RecvHandshake(c), NEW d \in Conns, Track(d)
  PROVE  Track(d)'
<1>1. /\ conn \in [Conns -> Player] /\ hist \in [Conns -> Fates] /\ Context
      /\ conn[c] \in Player /\ hist[c] \in Fates /\ client[c] \in Clients /\ Good(c)
  BY ShapeFacts DEF Sessions, Context
<1>2. /\ ~client[c].hello /\ client' = [client EXCEPT ![c] = [client[c] EXCEPT !.hello = TRUE]]
      /\ UNCHANGED <<response, dups, faults, loading, task, main>>
  BY <1>1 DEF RecvHandshake, Context
<1>3. /\ client'[c].offered = client[c].offered /\ client'[c].exts = client[c].exts
      /\ \A e \in Conns : e # c => client'[e] = client[e]
  BY <1>1, <1>2 DEF Context, Clients
<1>4. /\ Seen(d)' = Seen(d)
      /\ \A t \in Tasks : Pending(t, d)' <=> Pending(t, d)
      /\ Answered(d)' <=> Answered(d)
  BY <1>2 DEF Seen, Pending, Answered
<1>5. PICK y \in Player : /\ Step(c, RecvComplete(y))
                          /\ y = conn[c] \/ /\ y.cur \in {handshaking, ex_handshaking}
                                            /\ y.next \in {handshaked, ex_handshaked}
  <2>1. CASE ~Online(c)
    BY <1>1, <2>1 DEF RecvHandshake, RecvPacket
  <2>2. CASE Online(c)
    <3>1. PICK p \in Player : /\ RecvPacket(c, p)
                              /\ p.cur \in {handshaking, ex_handshaking}
                              /\ p.next \in {handshaked, ex_handshaked}
      BY <1>1, <2>2, HandshakeFacts DEF RecvHandshake, Online
    <3> QED
      BY <2>2, <3>1 DEF RecvPacket
  <2> QED
    BY <2>1, <2>2
<1>6. PICK z : z = RecvComplete(y)
  OBVIOUS
<1>7. Eased(y, z) /\ z \in Player
  BY <1>6, CompleteFacts, CalmIsEased
<1> USE DEF invaild, disconnecting, disconnected, initialized, handshaking, ex_handshaking,
            handshaked, ex_handshaked, extension_syncing, level_initializing,
            level_initialized, Leaving
<1>8. CASE d # c
  <2>1. conn'[d] = conn[d] /\ hist'[d] = hist[d]
    BY <1>1, <1>5, <1>8 DEF Step
  <2> QED
    BY <1>2, <1>3, <1>4, <1>8, <2>1, ElsewhereStep
<1>9. CASE d = c
  <2>1. conn'[c] = z /\ hist'[c] = Record(c, z, hist[c])
    BY <1>1, <1>5, <1>6 DEF Step
  <2>2. /\ hist'[c].level <=> hist[c].level
        /\ hist'[c].reached <=> hist[c].reached \/ z.cur >= handshaked
    BY <1>1, <2>1, LevelFacts, RecordFacts
  <2>3. /\ conn[c].cur = invaild /\ ~hist[c].reached /\ Seen(c) = invaild
        /\ ~client[c].offered /\ client[c].exts = "none"
        /\ ~Pending("level", c) /\ ~Pending("spawn", c) /\ ~Pending("disconnect", c)
    BY <1>1, <1>2 DEF Good, Fresh, Unreached
  <2>4. z.cur \in Nat /\ z.cur < handshaked /\ z.next \in Nat
        /\ (z.cur \in Leaving => z.next = disconnected)
        /\ (z.next < level_initialized \/ (z.next = conn[c].next /\ z.cur = conn[c].cur))
    <3>1. z.cur \in Nat /\ z.next \in Nat
      BY <1>7 DEF Player, States, spawned
    <3> QED
      BY <1>5, <1>7, <2>3, <3>1 DEF Eased
  <2>5. Once(c)'
    <3>1. ~hist'[c].reached /\ loading'[c] = loading[c] /\ loading[c] \in Nat
      BY <1>1, <1>2, <2>2, <2>3, <2>4 DEF Context
    <3> QED
      BY <1>2, <1>9, <3>1, OnceStep DEF Track
  <2>6. Extending(c)' /\ ~Syncing(c)'
    BY <1>3, <1>4, <1>9, <2>3 DEF Extending, Syncing, Tasks
  <2>7. Parting(c)'
    BY <1>4, <1>9, <2>1, <2>3, <2>4 DEF Parting, Tasks
  <2>8. Levelless(c)'
    BY <1>4, <1>9, <2>1, <2>2, <2>3, <2>4 DEF Levelless, Track, Path, Tasks
  <2> QED
    BY <1>9, <2>5, <2>6, <2>7, <2>8 DEF Track, Path
<1> QED
  BY <1>8, <1>9

(* The last extension entry: it comes to a player that waits for it, or    *)
(* that is leaving.                                                        *)
LEMMA ExtEntryTrack ==
  ASSUME Sessions, NEW c \in Conns, RecvExtEntry(c), NEW d \in Conns, Track(d)
  PROVE  Track(d)'
<1> DEFINE x == [conn[c] EXCEPT !.pending = @ - 1]
<1>1. /\ conn \in [Conns -> Player] /\ hist \in [Conns -> Fates] /\ Context
      /\ conn[c] \in Player /\ hist[c] \in Fates /\ Good(c) /\ loading[d] \in Nat
  BY ShapeFacts DEF Sessions, Context
<1>2. /\ client[c].exts = "announced" /\ conn[c].pending > 0
      /\ RecvPacket(c, IF x.pending = 0 THEN TransitState(x) ELSE x)
      /\ UNCHANGED <<client, request, response, dups, faults, loading, task, main>>
  BY DEF RecvExtEntry
<1>3. /\ x \in Player /\ x.cur = conn[c].cur /\ x.next = conn[c].next
      /\ x.pending = conn[c].pending - 1
  <2>1. conn[c].pending - 1 \in 0 .. MaxExt
    BY <1>1, <1>2, SessionAssumption DEF Player
  <2>2. x = [conn[c] EXCEPT !.pending = conn[c].pending - 1]
    BY <1>1 DEF Player
  <2>3. [conn[c] EXCEPT !.pending = conn[c].pending - 1] \in Player
    BY <1>1, <2>1, Zenon DEF Player
  <2> QED
    BY <1>1, <2>2, <2>3 DEF Player
<1>4. /\ Seen(d)' = Seen(d)
      /\ \A t \in Tasks : Pending(t, d)' <=> Pending(t, d)
      /\ Answered(d)' <=> Answered(d)
  BY <1>2 DEF Seen, Pending, Answered
<1> HIDE DEF x
<1>5. CASE d # c
  <2>1. conn'[d] = conn[d] /\ hist'[d] = hist[d]
    BY <1>1, <1>2, <1>5 DEF RecvPacket, Step
  <2> QED
    BY <1>2, <1>4, <1>5, <2>1, ElsewhereStep
<1>6. CASE d = c /\ (x.pending # 0 \/ ~Online(c))
  <2>1. PICK w \in Player : /\ Step(c, RecvComplete(w))
                            /\ w.cur = conn[c].cur /\ w.next = conn[c].next
    BY <1>1, <1>2, <1>3, <1>6 DEF RecvPacket
  <2>2. PICK z : z = RecvComplete(w)
    OBVIOUS
  <2>3. Eased(w, z)
    BY <2>1, <2>2, CompleteFacts, CalmIsEased
  <2>4. Eased(conn[c], z)
    BY <2>1, <2>3 DEF Eased
  <2>5. Syncing(c)
    BY <1>2, <1>6 DEF Syncing, Track, Path, Extending
  <2>6. Step(c, z)
    BY <2>1, <2>2
  <2> QED
    BY <1>2, <1>6, <2>4, <2>5, <2>6, AloneStep
<1>7. CASE d = c /\ x.pending = 0 /\ Online(c)
  <2>1. PICK y : y = TransitState(x)
    OBVIOUS
  <2>2. y \in Player /\ y.cur = conn[c].next /\ y.next = conn[c].next /\ y.pending = 0
    BY <1>3, <1>7, <2>1, TransitFacts, PendingFacts
  <2>3. PICK z : z = RecvComplete(y)
    OBVIOUS
  <2>4. Step(c, z)
    BY <1>2, <1>7, <2>1, <2>3 DEF RecvPacket
  <2>5. Eased(y, z) /\ z.pending = 0
    BY <2>2, <2>3, CompleteFacts, PendingFacts, CalmIsEased
  <2>6. conn'[c] = z /\ hist'[c] = Record(c, z, hist[c])
    BY <1>1, <2>4 DEF Step
  <2>7. /\ hist'[c].level <=> hist[c].level
        /\ hist[c].reached
    BY <1>1, <1>2, <2>6, LevelFacts DEF Good, Unreached
  <2>8. ~Syncing(c)'
    BY <1>2, <2>5, <2>6 DEF Syncing
  <2>9. Steady(c) /\ conn[c].cur # level_initializing
    BY <1>1, <1>2, <1>4, <1>7, <2>7, <2>8
       DEF Steady, Placid, Track, Path, Extending, Syncing, level_initializing, extension_syncing,
           Leaving, disconnecting, disconnected
  <2> QED
    BY <1>7, <2>2, <2>5, <2>6, <2>7, <2>8, <2>9, OnwardStep
<1> QED
  BY <1>5, <1>6, <1>7

(* The peer leaves, the login server answers, or a message is lost.        *)
LEMMA OutsideTrack ==
  ASSUME Sessions, NEW c \in Conns, ClientLeaves(c) \/ Answer(c) \/ LoseMessage(c),
         NEW d \in Conns, Track(d)
  PROVE  Track(d)'
<1>1. /\ client \in [Conns -> Clients] /\ loading[d] \in Nat /\ Good(c)
  BY ShapeFacts DEF Sessions, Context
<1>2. UNCHANGED <<conn, loading, task, main, hist>>
  BY DEF ClientLeaves, Answer, LoseMessage
<1>3. /\ Seen(d)' = Seen(d)
      /\ \A t \in Tasks : Pending(t, d)' <=> Pending(t, d)
  BY <1>2 DEF Seen, Pending
<1>4. client'[d].offered = client[d].offered /\ client'[d].exts = client[d].exts
  <2>1. CASE ClientLeaves(c)
    <3>1. PICK how \in {"closed", "reset"} : client' = [client EXCEPT ![c].link = how]
      BY <2>1 DEF ClientLeaves
    <3>2. client'[d] = client[d] \/ client'[d] = [client[d] EXCEPT !.link = how]
      BY <1>1, <3>1
    <3>3. client[d] \in Clients
      BY <1>1
    <3> QED
      BY <3>2, <3>3, Zenon DEF Clients
  <2>2. CASE Answer(c) \/ LoseMessage(c)
    BY <2>2 DEF Answer, LoseMessage
  <2> QED
    BY <2>1, <2>2
<1>5. CASE response' \subseteq response
  BY <1>1, <1>2, <1>3, <1>4, <1>5, ElsewhereStep
<1>6. CASE Answer(c)
  <2>1. PICK m : response' = response \cup {m} /\ m.conn = c
    <3>1. PICK result, prev :
            response' = response \cup {[conn |-> c, result |-> result, prev |-> prev]}
      BY <1>6 DEF Answer
    <3>2. PICK m : m = [conn |-> c, result |-> result, prev |-> prev]
      OBVIOUS
    <3>3. m.conn = c
      BY <3>2
    <3> QED
      BY <3>1, <3>2, <3>3
  <2>2. ~Fails(c) /\ ~Passes(c) /\ loading[c] = 0 /\ ~hist[c].reached
    BY <1>1, <1>6 DEF Answer, Good, Verdict
  <2>3. ~Answered(c)
    BY <2>2 DEF Answered, Fails, Passes
  <2>4. Once(d)'
    <3>1. d = c => \A n \in response : n.conn # d
      BY <2>3 DEF Answered
    <3> QED
      BY <1>2, <2>1, <2>2, <3>1 DEF Once, Answered, Track
  <2>5. Path(d)'
    BY <1>2, <1>3, <1>4
       DEF Track, Path, Parting, Extending, Levelless, Syncing, Tasks
  <2> QED
    BY <2>4, <2>5 DEF Track
<1> QED
  BY <1>5, <1>6 DEF ClientLeaves, LoseMessage

----------------------------------------------------------------------------
(* A login response, where none is delivered twice.                        *)
LEMMA ResponseTrack ==
  ASSUME Sessions, MaxDuplicates = 0, NEW m \in response, HandleResponse(m),
         NEW d \in Conns, Track(d)
  PROVE  Track(d)'
<1>1. /\ Context /\ conn \in [Conns -> Player] /\ hist \in [Conns -> Fates] /\ m \in Responses
      /\ m.prev # m.conn
  BY ShapeFacts DEF Sessions, Context
<1>2. PICK c \in Conns : c = m.conn
  BY <1>1 DEF Responses
<1>3. /\ response' = response \ {m} /\ UNCHANGED <<client, task, main>>
  BY <1>1 DEF HandleResponse, Context
<1>4. loading' = loading \/ loading' = [loading EXCEPT ![c] = loading[c] + 1]
  BY <1>1, <1>2 DEF HandleResponse, Context
<1>5. /\ Seen(d)' = Seen(d)
      /\ \A t \in Tasks : Pending(t, d)' <=> Pending(t, d)
  BY <1>3 DEF Seen, Pending
<1>6. /\ conn[d] \in Player /\ hist[d] \in Fates /\ loading[d] \in Nat /\ Good(d)
      /\ conn[d].cur \in Nat
  BY <1>1, StateFacts DEF Context, Sessions, Shapes
<1>7. ASSUME NEW z \in Player, Eased(conn[d], z), z.pending = conn[d].pending, conn'[d] = z,
             (hist'[d].level <=> hist[d].level),
             hist'[d].reached => hist[d].reached \/ z.cur >= handshaked
      PROVE  Track(d)'
  <2>1. Placid(d)
    BY <1>3, <1>5, <1>7 DEF Placid, Track, Path, Extending, Syncing
  <2>2. CASE d # c
    <3>1. loading'[d] = loading[d]
      BY <1>1, <1>4, <2>2 DEF Context
    <3> QED
      BY <1>3, <1>6, <1>7, <2>1, <3>1, EasedStep DEF Steady
  <2>3. CASE d = c
    <3>1. Answered(c) /\ ~Answered(c)' /\ loading[c] = 0 /\ ~hist[c].reached
      BY <1>2, <1>3, <2>3 DEF Answered, Track, Once
    <3>2. loading'[c] \in {0, 1}
      BY <1>1, <1>4, <3>1 DEF Context
    <3>3. ~hist'[c].reached
      BY <1>6, <1>7, <2>3, <3>1
         DEF Eased, Good, Unreached, Player, States, handshaked, disconnecting, invaild, spawned
    <3>4. Once(c)'
      BY <3>1, <3>2, <3>3 DEF Once, Answered
    <3> QED
      BY <1>7, <2>1, <2>3, <3>4, EasedPath DEF Track
  <2> QED
    BY <2>2, <2>3
<1>8. CASE d # c /\ d # m.prev
  <2>1. conn'[d] = conn[d] /\ hist'[d] = hist[d]
    BY <1>1, <1>2, <1>8 DEF HandleResponse, Step
  <2> QED
    BY <1>6, <1>7, <2>1 DEF Eased
<1>9. CASE d # c /\ d = m.prev
  <2>1. PICK z : z = Disconnect(conn[d])
    OBVIOUS
  <2>2. z \in Player /\ Eased(conn[d], z) /\ z.pending = conn[d].pending
    BY <1>6, <2>1, DisconnectFacts, CalmIsEased, PendingFacts DEF Calm
  <2>3. \/ conn'[d] = conn[d] /\ hist'[d] = hist[d]
        \/ conn'[d] = z /\ hist'[d] = Record(d, z, hist[d])
    BY <1>1, <1>2, <1>9, <2>1 DEF HandleResponse, Step
  <2>4. /\ hist'[d].level <=> hist[d].level
        /\ hist'[d].reached => hist[d].reached \/ conn'[d].cur >= handshaked
    BY <1>6, <2>3, LevelFacts, RecordFacts
  <2> QED
    BY <1>6, <1>7, <2>2, <2>3, <2>4 DEF Eased
<1>10. CASE d = c
  <2>1. PICK u : u = [conn[c] EXCEPT !.type = "user"]
    OBVIOUS
  <2>2. PICK g : g = [conn[c] EXCEPT !.type = "guest"]
    OBVIOUS
  <2>3. u \in Player /\ g \in Player
    BY <1>6, <1>10, <2>1, <2>2, Zenon DEF Player
  <2>4. /\ u.cur = conn[c].cur /\ u.next = conn[c].next /\ u.pending = conn[c].pending
        /\ g.next = conn[c].next /\ g.pending = conn[c].pending
    BY <1>6, <1>10, <2>1, <2>2 DEF Player
  <2>5. \/ conn'[c] = conn[c] /\ hist'[c] = hist[c]
        \/ /\ Step(c, TransitState(g)) /\ loading' = loading
        \/ /\ conn'[c] = Disconnect(conn[c])
           /\ hist'[c] = [hist[c] EXCEPT !.rejected = TRUE]
        \/ Step(c, u)
        \/ conn'[c] = u /\ hist'[c] = hist[c]
    BY <1>1, <1>2, <2>1, <2>2 DEF HandleResponse
  <2>6. CASE conn'[c] = conn[c] /\ hist'[c] = hist[c]
    BY <1>6, <1>7, <1>10, <2>6 DEF Eased
  <2>7. CASE Step(c, u) \/ (conn'[c] = u /\ hist'[c] = hist[c])
    <3>1. conn'[c] = u /\ (hist'[c] = hist[c] \/ hist'[c] = Record(c, u, hist[c]))
      BY <1>1, <2>7 DEF Step
    <3>2. /\ hist'[c].level <=> hist[c].level
          /\ hist'[c].reached => hist[c].reached \/ conn'[c].cur >= handshaked
      BY <1>6, <1>10, <3>1, LevelFacts, RecordFacts
    <3> QED
      BY <1>7, <1>10, <2>3, <2>4, <3>1, <3>2 DEF Eased
  <2>8. CASE conn'[c] = Disconnect(conn[c]) /\ hist'[c] = [hist[c] EXCEPT !.rejected = TRUE]
    <3>1. PICK z : z = Disconnect(conn[c])
      OBVIOUS
    <3>2. z \in Player /\ Eased(conn[c], z) /\ z.pending = conn[c].pending
      BY <1>6, <1>10, <3>1, DisconnectFacts, CalmIsEased, PendingFacts DEF Calm
    <3>3. (hist'[c].level <=> hist[c].level) /\ (hist'[c].reached <=> hist[c].reached)
      BY <1>6, <1>10, <2>8, LevelFacts, FateFacts
    <3> QED
      BY <1>7, <1>10, <2>8, <3>1, <3>2, <3>3
  <2>9. CASE Step(c, TransitState(g)) /\ loading' = loading
    <3>1. PICK z : z = TransitState(g)
      OBVIOUS
    <3>2. z.cur = conn[c].next /\ z.next = conn[c].next /\ z.pending = conn[c].pending
      BY <2>3, <2>4, <3>1, TransitFacts, PendingFacts
    <3>3. conn'[c] = z /\ hist'[c] = Record(c, z, hist[c])
      BY <1>1, <2>9, <3>1 DEF Step
    <3>4. hist'[c].level <=> hist[c].level
      BY <1>6, <1>10, <3>3, LevelFacts
    <3>5. ~Answered(c)' /\ loading[c] = 0 /\ ~hist[c].reached
      BY <1>2, <1>3, <1>10 DEF Answered, Track, Once
    <3>6. ~Syncing(c)' /\ conn[c].cur # level_initializing
      BY <1>3, <1>6, <1>10, <3>5
         DEF Syncing, Good, Unreached, handshaked, level_initializing
    <3>7. Steady(c)
      BY <1>3, <1>5, <1>6, <1>10, <2>9, <3>4, <3>6
         DEF Steady, Placid, Track, Path, Extending
    <3> QED
      BY <1>10, <2>9, <3>2, <3>3, <3>5, <3>6, <3>7, OnwardStep DEF Eased
  <2> QED
    BY <2>5, <2>6, <2>7, <2>8, <2>9
<1> QED
  BY <1>8, <1>9, <1>10

(* The coroutine resumes, for a player that was not let in before.         *)
LEMMA LoadedTrack ==
  ASSUME Sessions, NEW c \in Conns, Loaded(c), NEW d \in Conns, Track(d)
  PROVE  Track(d)'
<1>1. /\ Context /\ conn \in [Conns -> Player] /\ hist \in [Conns -> Fates]
      /\ loading \in [Conns -> Nat] /\ conn[c] \in Player /\ hist[c] \in Fates /\ Good(c)
      /\ conn[c].cur \in Nat
  BY ShapeFacts, StateFacts DEF Sessions, Context, Shapes
<1>2. /\ loading[c] > 0 /\ loading' = [loading EXCEPT ![c] = loading[c] - 1]
      /\ UNCHANGED <<client, request, response, dups, faults, task, main>>
  BY <1>1 DEF Loaded
<1>3. /\ Seen(d)' = Seen(d)
      /\ \A t \in Tasks : Pending(t, d)' <=> Pending(t, d)
      /\ Answered(d)' <=> Answered(d)
  BY <1>2 DEF Seen, Pending, Answered
<1>4. \/ UNCHANGED <<conn, hist>>
      \/ Step(c, TransitState(conn[c]))
      \/ Step(c, Disconnect(conn[c]))
  BY DEF Loaded
<1>5. CASE d # c
  <2>1. conn'[d] = conn[d] /\ hist'[d] = hist[d] /\ loading'[d] = loading[d]
    BY <1>1, <1>2, <1>4, <1>5 DEF Step
  <2> QED
    BY <1>2, <1>3, <1>5, <2>1, ElsewhereStep
<1>6. CASE d = c
  <2>1. loading'[c] = 0 /\ ~Answered(c) /\ ~hist[c].reached
    BY <1>1, <1>2, <1>6 DEF Track, Once
  <2>2. ASSUME NEW z, conn'[c] = z, z.pending = conn[c].pending,
               hist'[c].level <=> hist[c].level
        PROVE  Steady(c)
    BY <1>1, <1>2, <1>3, <1>6, <2>1, <2>2
       DEF Steady, Placid, Syncing, Track, Path, Extending
  <2>3. CASE UNCHANGED <<conn, hist>>
    BY <1>6, <2>2, <2>3, EasedStep DEF Eased
  <2>4. CASE Step(c, Disconnect(conn[c]))
    <3>1. PICK z : z = Disconnect(conn[c])
      OBVIOUS
    <3>2. Eased(conn[c], z) /\ z.pending = conn[c].pending
      BY <1>1, <3>1, DisconnectFacts, CalmIsEased, PendingFacts
    <3>3. conn'[c] = z /\ hist'[c] = Record(c, z, hist[c])
      BY <1>1, <2>4, <3>1 DEF Step
    <3> QED
      BY <1>1, <1>6, <2>2, <3>2, <3>3, LevelFacts, RecordFacts, EasedStep
  <2>5. CASE Step(c, TransitState(conn[c]))
    <3>1. PICK z : z = TransitState(conn[c])
      OBVIOUS
    <3>2. z.cur = conn[c].next /\ z.next = conn[c].next /\ z.pending = conn[c].pending
      BY <1>1, <3>1, TransitFacts, PendingFacts
    <3>3. conn'[c] = z /\ hist'[c] = Record(c, z, hist[c])
      BY <1>1, <2>5, <3>1 DEF Step
    <3>4. hist'[c].level <=> hist[c].level
      BY <1>1, <3>3, LevelFacts
    <3>5. ~Syncing(c)' /\ conn[c].cur # level_initializing
      BY <1>1, <1>2, <2>1 DEF Syncing, Good, Unreached, handshaked, level_initializing
    <3>6. Steady(c)
      BY <2>2, <3>2, <3>3, <3>4
    <3> QED
      BY <1>3, <1>6, <2>1, <3>2, <3>3, <3>5, <3>6, OnwardStep DEF Eased
  <2> QED
    BY <1>4, <2>3, <2>4, <2>5
<1> QED
  BY <1>5, <1>6

(* The main loop posts receives, and hands queues to their tasks; a task   *)
(* comes to its end.                                                       *)
LEMMA RoutineTrack ==
  ASSUME Sessions, MainFlush \/ MainSchedule \/ (\E t \in Tasks : TaskEnd(t)),
         NEW d \in Conns, Track(d)
  PROVE  Track(d)'
<1>1. /\ Context /\ conn \in [Conns -> Player] /\ loading[d] \in Nat
  BY ShapeFacts DEF Sessions, Context
<1>2. UNCHANGED <<client, request, response, loading, hist>>
  BY DEF MainFlush, MainSchedule, Schedule, TaskEnd
<1>3. /\ conn'[d].cur = conn[d].cur /\ conn'[d].next = conn[d].next
      /\ conn'[d].pending = conn[d].pending
  <2>1. CASE MainFlush
    <3>1. conn'[d] = conn[d] \/ conn'[d] = [conn[d] EXCEPT !.recv = "posted"]
      BY <2>1 DEF MainFlush
    <3> QED
      BY <1>1, <3>1 DEF Player
  <2>2. CASE MainSchedule \/ \E t \in Tasks : TaskEnd(t)
    BY <2>2 DEF MainSchedule, Schedule, TaskEnd
  <2> QED
    BY <2>1, <2>2
<1>4. Seen(d)' \in {Seen(d), invaild}
  <2>1. \/ main' = main
        \/ main.at = 0 /\ main'.at = 1 /\ main'.seen = main.seen
        \/ main'.at = 0 /\ main'.seen = main.seen
    BY <1>1 DEF MainFlush, MainSchedule, Schedule, TaskEnd, Context
  <2>2. main.at \notin Conns => main.seen = invaild
    BY <1>1 DEF Context
  <2> QED
    BY <2>1, <2>2 DEF Seen, Conns
<1>5. \A t \in Tasks : Pending(t, d)' => Pending(t, d)
  <2> SUFFICES ASSUME NEW t \in Tasks PROVE Pending(t, d)' => Pending(t, d)
    OBVIOUS
  <2>1. CASE MainFlush
    BY <2>1 DEF MainFlush, Pending
  <2>2. CASE MainSchedule
    <3>1. PICK S \in SUBSET Tasks : Schedule(S)
      BY <2>2 DEF MainSchedule
    <3>2. \/ task'[t] = task[t]
          \/ task'[t] = [state |-> "processing", queue |-> task[t].target,
                         target |-> task[t].queue]
      BY <3>1 DEF Schedule
    <3> QED
      BY <3>2 DEF Pending
  <2>3. CASE \E u \in Tasks : TaskEnd(u)
    <3>1. PICK u \in Tasks : task' = [task EXCEPT ![u] = [task[u] EXCEPT !.state = "unused"]]
      BY <1>1, <2>3 DEF TaskEnd, Context
    <3>2. task'[t] = task[t] \/ task'[t] = [task[t] EXCEPT !.state = "unused"]
      BY <1>1, <3>1 DEF Context
    <3>3. task'[t].queue = task[t].queue /\ task'[t].target = task[t].target
      BY <1>1, <3>2 DEF Context
    <3> QED
      BY <3>3 DEF Pending
  <2> QED
    BY <2>1, <2>2, <2>3
<1>6. Steady(d)
  BY <1>1, <1>2, <1>3, <1>4, <1>5 DEF Steady, Placid, Syncing, Track, Path, Extending
<1> QED
  BY <1>2, <1>3, <1>6, EasedStep DEF Eased

(* World::tick reads the state of a player.                                *)
LEMMA MainReadTrack ==
  ASSUME Sessions, MainRead, NEW d \in Conns, Track(d)
  PROVE  Track(d)'
<1> USE DEF invaild, disconnecting, disconnected, ex_handshaked, extension_syncing,
            level_initializing, level_initialized, Leaving
<1>1. Context /\ conn[d].cur \in Nat /\ loading[d] \in Nat
  BY ShapeFacts, StateFacts DEF Sessions, Shapes, Context
<1>2. UNCHANGED <<conn, client, request, response, dups, faults, loading, task, hist>>
  BY DEF MainRead
<1>3. /\ \A t \in Tasks : Pending(t, d)' <=> Pending(t, d)
      /\ Answered(d)' <=> Answered(d)
  BY <1>2 DEF Pending, Answered
<1>4. Seen(d)' \in {Seen(d), invaild, conn[d].cur}
  BY <1>1 DEF MainRead, Seen, Context
<1>5. Once(d)'
  BY <1>1, <1>2, OnceStep DEF Track
<1>6. Path(d)'
  BY <1>1, <1>2, <1>3, <1>4
     DEF Track, Path, Parting, Extending, Levelless, Syncing, Tasks
<1> QED
  BY <1>5, <1>6 DEF Track

(* World::tick acts on the state it has read.                              *)
LEMMA MainActTrack ==
  ASSUME Sessions, MainAct, NEW d \in Conns, Track(d)
  PROVE  Track(d)'
<1>1. /\ Context /\ conn \in [Conns -> Player] /\ hist \in [Conns -> Fates]
      /\ loading[d] \in Nat
  BY ShapeFacts DEF Sessions, Context
<1>2. PICK c \in Conns : c = main.at
  BY DEF MainAct
<1>3. /\ main.seen # invaild /\ main' = [at |-> c + 1, seen |-> invaild]
      /\ UNCHANGED <<request, response, dups, faults, loading>>
  BY <1>2 DEF MainAct
<1>4. Seen(c) = main.seen /\ \A e \in Conns : Seen(e)' = invaild
  BY <1>2, <1>3 DEF Seen
<1>5. /\ conn[c] \in Player /\ hist[c] \in Fates /\ client[c] \in Clients /\ Good(c)
      /\ main.seen \in Nat
  BY <1>1, <1>4, StateFacts DEF Sessions, Shapes, Context
<1>6. PICK x : x = conn[c]
  OBVIOUS
<1>7. \/ UNCHANGED <<conn, hist, client, task>>
      \/ /\ main.seen = ex_handshaked /\ task' = task
         /\ Step(c, PrepareStateTransition(x, extension_syncing, extension_synced))
         /\ client' = [client EXCEPT ![c].offered = TRUE]
      \/ /\ main.seen \in {handshaked, extension_synced}
         /\ Step(c, PrepareStateTransition(x, level_initializing, level_initialized))
         /\ Push("level", c) /\ client' = client
      \/ /\ main.seen = level_initialized
         /\ Step(c, PrepareStateTransition(x, spawning, spawned))
         /\ Push("spawn", c) /\ client' = client
      \/ main.seen = disconnecting /\ Push("disconnect", c) /\ UNCHANGED <<conn, hist, client>>
      \/ Step(c, Disconnect(x)) /\ UNCHANGED <<client, task>>
  BY <1>2, <1>6 DEF MainAct
<1>8. CASE d # c
  <2>1. conn'[d] = conn[d] /\ hist'[d] = hist[d] /\ client'[d] = client[d]
    BY <1>1, <1>7, <1>8 DEF Step, Context
  <2>2. \A t \in Tasks : Pending(t, d)' => Pending(t, d)
    <3>1. \/ task' = task
          \/ \E t \in Tasks : Push(t, c)
      BY <1>7 DEF Tasks
    <3> QED
      BY <1>1, <1>8, <3>1, PushFacts DEF Pending
  <2> QED
    BY <1>3, <1>4, <2>1, <2>2, ElsewhereStep
<1> SUFFICES ASSUME d = c PROVE Track(c)'
  BY <1>8
<1> USE DEF invaild, disconnecting, disconnected, handshaked, ex_handshaked,
            extension_syncing, extension_synced, level_initializing, level_initialized,
            spawning, spawned, Leaving
<1>9. CASE UNCHANGED <<conn, hist, client, task>>
  <2>1. \A t \in Tasks : Pending(t, c)' => Pending(t, c)
    BY <1>9 DEF Pending
  <2> QED
    BY <1>3, <1>4, <1>9, <2>1, ElsewhereStep
<1>10. CASE Step(c, Disconnect(x)) /\ UNCHANGED <<client, task>>
  <2>1. PICK z : z = Disconnect(x)
    OBVIOUS
  <2>2. Eased(conn[c], z) /\ z.pending = conn[c].pending
    BY <1>5, <1>6, <2>1, DisconnectFacts, CalmIsEased, PendingFacts
  <2>3. conn'[c] = z /\ hist'[c] = Record(c, z, hist[c])
    BY <1>1, <1>10, <2>1 DEF Step
  <2>4. /\ hist'[c].level <=> hist[c].level
        /\ hist'[c].reached <=> hist[c].reached \/ z.cur >= handshaked
    BY <1>5, <2>3, LevelFacts, RecordFacts
  <2>5. \A t \in Tasks : Pending(t, c)' => Pending(t, c)
    BY <1>10 DEF Pending
  <2>6. Steady(c)
    BY <1>1, <1>3, <1>4, <1>10, <2>2, <2>3, <2>4, <2>5
       DEF Steady, Placid, Syncing, Track, Path, Extending
  <2> QED
    BY <2>2, <2>3, <2>4, <2>6, EasedStep
<1>11. CASE main.seen = disconnecting /\ Push("disconnect", c) /\ UNCHANGED <<conn, hist, client>>
  <2>1. \A t \in Tasks : t # "disconnect" => (Pending(t, c)' <=> Pending(t, c))
    BY <1>1, <1>11, PushFacts DEF Tasks
  <2>2. Once(c)'
    BY <1>1, <1>3, <1>11, OnceStep DEF Track
  <2>3. conn[c].cur \in Leaving
    BY <1>4, <1>11 DEF Track, Path, Parting
  <2>4. Path(c)'
    BY <1>4, <1>11, <2>1, <2>3
       DEF Track, Path, Parting, Extending, Levelless, Syncing, Tasks
  <2> QED
    BY <2>2, <2>4 DEF Track
<1>12. ASSUME NEW s \in States, NEW u \in States, s \notin Leaving, s # invaild,
              ex_handshaked \notin {s, u},
              Step(c, PrepareStateTransition(x, s, u)),
              main.seen >= handshaked, main.seen # extension_syncing,
              client'[c].offered = client[c].offered \/ s = extension_syncing,
              client'[c].offered \/ client'[c].offered = client[c].offered,
              client'[c].exts = client[c].exts,
              s = extension_syncing \/ ~Syncing(c),
              s = extension_syncing => ~Pending("level", c)' /\ ~Pending("spawn", c)',
              Pending("disconnect", c)' => Pending("disconnect", c),
              ~hist[c].level => /\ s < level_initialized /\ u <= level_initialized
                                /\ u = level_initialized => s = level_initializing
                                /\ ~Pending("spawn", c)'
       PROVE  Track(c)'
  <2>1. PICK y : y = PrepareStateTransition(x, s, u)
    OBVIOUS
  <2>2. y.cur = s /\ y.next = u /\ y.pending = conn[c].pending
    BY <1>5, <1>6, <2>1, PrepareFacts, PendingFacts
  <2>3. conn'[c] = y /\ hist'[c] = Record(c, y, hist[c])
    BY <1>1, <1>12, <2>1 DEF Step
  <2>4. hist'[c].level <=> hist[c].level
    BY <1>5, <2>3, LevelFacts
  <2>5. hist[c].reached
    BY <1>4, <1>5, <1>12 DEF Good, Unreached
  <2>6. Once(c)'
    BY <1>1, <1>3, <2>5, OnceStep DEF Track
  <2>7. ~Pending("disconnect", c)
    BY <1>3, <1>4, <1>12 DEF Track, Path, Parting
  <2>8. Parting(c)'
    BY <1>4, <1>12, <2>2, <2>3, <2>7 DEF Parting
  <2>9. Extending(c)'
    BY <1>4, <1>12, <2>2, <2>3 DEF Track, Path, Extending, Syncing
  <2>10. Levelless(c)'
    BY <1>4, <1>12, <2>2, <2>3, <2>4 DEF Levelless
  <2> QED
    BY <2>6, <2>8, <2>9, <2>10 DEF Track, Path
<1>13. CASE /\ main.seen = ex_handshaked /\ task' = task
            /\ Step(c, PrepareStateTransition(x, extension_syncing, extension_synced))
            /\ client' = [client EXCEPT ![c].offered = TRUE]
  <2>1. client'[c].offered /\ client'[c].exts = client[c].exts
    <3>1. client'[c] = [client[c] EXCEPT !.offered = TRUE]
      BY <1>1, <1>13 DEF Context
    <3> QED
      BY <1>5, <3>1, Zenon DEF Clients
  <2>2. \A t \in Tasks : Pending(t, c)' <=> Pending(t, c)
    BY <1>13 DEF Pending
  <2>3. ~Pending("level", c) /\ ~Pending("spawn", c)
    BY <1>4, <1>13 DEF Track, Path, Extending
  <2> QED
    <3>1. ~Pending("level", c)' /\ ~Pending("spawn", c)'
          /\ (Pending("disconnect", c)' => Pending("disconnect", c))
      BY <2>2, <2>3 DEF Tasks
    <3>2. PICK s \in States, u \in States : s = extension_syncing /\ u = extension_synced
      BY DEF States
    <3>3. /\ s \notin Leaving /\ s # invaild /\ ex_handshaked \notin {s, u}
          /\ main.seen >= handshaked /\ main.seen # extension_syncing
          /\ s < level_initialized /\ u <= level_initialized /\ u # level_initialized
      BY <1>13, <3>2
    <3>4. Step(c, PrepareStateTransition(x, s, u))
      BY <1>13, <3>2
    <3> HIDE DEF invaild, disconnecting, disconnected, handshaked, ex_handshaked,
                 extension_syncing, extension_synced, level_initializing, level_initialized,
                 spawning, spawned, Leaving
    <3> QED
      BY <1>12, <2>1, <3>1, <3>2, <3>3, <3>4
<1>14. CASE /\ main.seen \in {handshaked, extension_synced}
            /\ Step(c, PrepareStateTransition(x, level_initializing, level_initialized))
            /\ Push("level", c) /\ client' = client
  <2>1. ~Syncing(c)
    BY <1>4, <1>14 DEF Track, Path, Extending
  <2>2. \A t \in Tasks : t # "level" => (Pending(t, c)' <=> Pending(t, c))
    BY <1>1, <1>14, PushFacts DEF Tasks
  <2>3. ~hist[c].level => ~Pending("spawn", c)
    BY DEF Track, Path, Levelless
  <2> QED
    BY <1>12, <1>14, <2>1, <2>2, <2>3 DEF States, Tasks
<1>15. CASE /\ main.seen = level_initialized
            /\ Step(c, PrepareStateTransition(x, spawning, spawned))
            /\ Push("spawn", c) /\ client' = client
  <2>1. ~Syncing(c) /\ hist[c].level
    BY <1>4, <1>15 DEF Track, Path, Extending, Levelless
  <2>2. \A t \in Tasks : t # "spawn" => (Pending(t, c)' <=> Pending(t, c))
    BY <1>1, <1>15, PushFacts DEF Tasks
  <2> QED
    BY <1>12, <1>15, <2>1, <2>2 DEF States, Tasks
<1> QED
  BY <1>7, <1>9, <1>10, <1>11, <1>13, <1>14, <1>15

(* A task completes the transition of a player that is still online.       *)
LEMMA ServeTrack ==
  ASSUME Sessions, NEW t \in Tasks, NEW c \in Conns, Working(t, c), Finish(t, c),
         Track(c), NEW h, hist'[c] = h, conn'[c] = TransitState(conn[c]),
         h.level <=> hist[c].level \/ t = "level",
         h.reached <=> hist[c].reached \/ TransitState(conn[c]).cur >= handshaked,
         UNCHANGED <<client, request, response, dups, faults, loading, main>>
  PROVE  Track(c)'
<1>1. /\ Context /\ conn[c] \in Player /\ Pending(t, c) /\ Good(c) /\ loading[c] \in Nat
      /\ conn[c].cur \in Nat
  BY ShapeFacts, StateFacts DEF Sessions, Shapes, Context, Working, Pending
<1>2. PICK z : z = TransitState(conn[c])
  OBVIOUS
<1>3. z.cur = conn[c].next /\ z.next = conn[c].next /\ z.pending = conn[c].pending
  BY <1>1, <1>2, TransitFacts, PendingFacts
<1>4. \A u \in Tasks : Pending(u, c)' => Pending(u, c)
  BY <1>1, FinishFacts
<1>5. Seen(c)' = Seen(c)
  BY DEF Seen
<1>6. Steady(c)
  BY <1>1, <1>2, <1>3, <1>4, <1>5 DEF Steady, Placid, Syncing, Track, Path, Extending
<1>7. Syncing(c)' => conn[c].cur \in Leaving
  <2>1. Syncing(c)' => Syncing(c)
    BY <1>6 DEF Steady, Placid
  <2>2. t = "disconnect" => conn[c].cur \in Leaving
    BY <1>1 DEF Track, Path, Parting
  <2>3. t # "disconnect" => ~Syncing(c)
    BY <1>1 DEF Track, Path, Extending, Tasks
  <2> QED
    BY <2>1, <2>2, <2>3
<1>8. hist'[c].level \/ conn[c].cur # level_initializing
  <2>1. t = "spawn" => hist[c].level
    BY <1>1 DEF Track, Path, Levelless
  <2>2. t = "disconnect" => conn[c].cur # level_initializing
    BY <1>1 DEF Track, Path, Parting, Leaving, level_initializing, disconnecting, disconnected
  <2> QED
    BY <2>1, <2>2 DEF Tasks
<1>9. h.reached => hist[c].reached
  <2>1. hist[c].reached \/ conn[c].next = disconnected
    BY <1>1 DEF Good, Unreached, Tasks
  <2> QED
    BY <1>2, <1>3, <2>1 DEF disconnected, handshaked
<1> QED
  BY <1>2, <1>3, <1>6, <1>7, <1>8, <1>9, OnwardStep DEF Eased

(* The tasks.                                                              *)
LEMMA TaskTrack ==
  ASSUME Sessions, NEW c \in Conns, (\E t \in Tasks : Deliver(t, c)) \/ Teardown(c),
         NEW d \in Conns, Track(d)
  PROVE  Track(d)'
<1>1. /\ Context /\ conn \in [Conns -> Player] /\ hist \in [Conns -> Fates]
      /\ conn[c] \in Player /\ hist[c] \in Fates /\ conn[c].cur \in Nat /\ Good(c)
  BY ShapeFacts, StateFacts DEF Sessions, Shapes, Context
<1>2. PICK t \in Tasks : Working(t, c) /\ Finish(t, c) /\ (Deliver(t, c) \/ t = "disconnect")
  BY DEF Deliver, Teardown, Tasks
<1>3. UNCHANGED <<client, request, response, dups, faults, loading, main>>
  BY DEF Deliver, Teardown
<1>4. Seen(d)' = Seen(d) /\ \A u \in Tasks : Pending(u, d)' => Pending(u, d)
  BY <1>1, <1>2, <1>3, FinishFacts DEF Seen
<1>5. \A e \in Conns : e # c => conn'[e] = conn[e] /\ hist'[e] = hist[e]
  BY <1>1 DEF Deliver, Teardown
<1>6. CASE d # c
  BY <1>3, <1>4, <1>5, <1>6, ElsewhereStep
<1>7. CASE d = c /\ Teardown(c)
  <2>1. CASE ~Online(c)
    BY <1>3, <1>4, <1>7, <2>1, ElsewhereStep DEF Teardown
  <2>2. CASE Online(c)
    <3>1. PICK g : g = Record(c, TransitState(conn[c]), hist[c])
      OBVIOUS
    <3>2. /\ g \in Fates /\ (g.level <=> hist[c].level)
          /\ g.reached <=> hist[c].reached \/ TransitState(conn[c]).cur >= handshaked
      BY <1>1, <3>1, RecordFacts, LevelFacts
    <3>3. PICK h : h = Saved(conn[c], g)
      OBVIOUS
    <3>4. (h.level <=> hist[c].level) /\ (h.reached <=> g.reached)
      BY <1>1, <3>2, <3>3, FateFacts, LevelFacts
    <3>5. conn'[c] = TransitState(conn[c]) /\ hist'[c] = h
      BY <1>1, <1>7, <2>2, <3>1, <3>3 DEF Teardown
    <3>6. Working("disconnect", c) /\ Finish("disconnect", c)
      BY <1>7 DEF Teardown
    <3> QED
      BY <1>3, <1>7, <3>2, <3>4, <3>5, <3>6, ServeTrack DEF Tasks
  <2> QED
    BY <2>1, <2>2
<1>8. CASE d = c /\ \E u \in Tasks : Deliver(u, c)
  <2>1. PICK u \in Tasks : Deliver(u, c)
    BY <1>8
  <2>2. CASE ~Online(c)
    BY <1>3, <1>4, <1>8, <2>1, <2>2, ElsewhereStep DEF Deliver
  <2>3. CASE conn' = conn /\ hist' = [hist EXCEPT ![c].dropped = TRUE]
    <3>1. hist'[c] = [hist[c] EXCEPT !.dropped = TRUE] /\ conn'[c] = conn[c]
      BY <1>1, <2>3
    <3>2. (hist'[c].level <=> hist[c].level) /\ (hist'[c].reached <=> hist[c].reached)
      BY <1>1, <3>1, FateFacts, LevelFacts
    <3>3. Steady(c)
      BY <1>1, <1>3, <1>4, <1>8, <3>1, <3>2
         DEF Steady, Placid, Syncing, Track, Path, Extending, Context
    <3> QED
      BY <1>8, <3>1, <3>2, <3>3, EasedStep DEF Eased
  <2>4. CASE /\ Online(c) /\ conn' = [conn EXCEPT ![c] = TransitState(@)]
             /\ hist' = [hist EXCEPT ![c] = Served(u, Record(c, TransitState(conn[c]), @))]
    <3>1. PICK g : g = Record(c, TransitState(conn[c]), hist[c])
      OBVIOUS
    <3>2. /\ g \in Fates /\ (g.level <=> hist[c].level)
          /\ g.reached <=> hist[c].reached \/ TransitState(conn[c]).cur >= handshaked
      BY <1>1, <3>1, RecordFacts, LevelFacts
    <3>3. PICK h : h = Served(u, g)
      OBVIOUS
    <3>4. (h.level <=> hist[c].level \/ u = "level") /\ (h.reached <=> g.reached)
      BY <1>1, <3>2, <3>3, FateFacts, LevelFacts
    <3>5. conn'[c] = TransitState(conn[c]) /\ hist'[c] = h
      BY <1>1, <2>4, <3>1, <3>3
    <3>6. Working(u, c) /\ Finish(u, c)
      BY <2>1 DEF Deliver
    <3> QED
      BY <1>3, <1>8, <2>1, <3>2, <3>4, <3>5, <3>6, ServeTrack
  <2> QED
    BY <2>1, <2>2, <2>3, <2>4 DEF Deliver
<1> QED
  BY <1>6, <1>7, <1>8

(* Every step keeps every connection on its track.                         *)
LEMMA NextTracks ==
  ASSUME MaxDuplicates = 0, Sessions, Tracks, [Next]_vars
  PROVE  Tracks'
<1> SUFFICES ASSUME NEW d \in Conns PROVE Track(d)'
  BY DEF Tracks
<1>1. Track(d)
  BY DEF Tracks
<1>2. ASSUME NEW c \in Conns,
             \/ Accept(c) \/ Expire(c) \/ Receive(c) \/ ClientLeaves(c)
             \/ Answer(c) \/ LoseMessage(c) \/ Loaded(c)
             \/ \E t \in Tasks : Deliver(t, c)
             \/ Teardown(c)
      PROVE  Track(d)'
  <2>1. CASE Accept(c)
    BY <1>1, <2>1, AcceptTrack
  <2>2. CASE Receive(c) \/ Expire(c)
    BY <1>1, <2>2, HandshakeTrack, ExtEntryTrack, QuietReceiveTrack DEF Receive
  <2>3. CASE ClientLeaves(c) \/ Answer(c) \/ LoseMessage(c)
    BY <1>1, <2>3, OutsideTrack
  <2>4. CASE Loaded(c)
    BY <1>1, <2>4, LoadedTrack
  <2>5. CASE (\E t \in Tasks : Deliver(t, c)) \/ Teardown(c)
    BY <1>1, <2>5, TaskTrack
  <2> QED
    BY <1>2, <2>1, <2>2, <2>3, <2>4, <2>5
<1>3. CASE \E m \in response : HandleResponse(m)
  BY <1>1, <1>3, ResponseTrack
<1>4. CASE MainFlush \/ MainRead \/ MainAct \/ MainSchedule
  BY <1>1, <1>4, RoutineTrack, MainReadTrack, MainActTrack
<1>5. CASE \E t \in Tasks : TaskEnd(t)
  BY <1>1, <1>5, RoutineTrack
<1>6. CASE UNCHANGED vars
  <2>1. UNCHANGED <<conn, client, request, response, dups, faults, loading, task, main, hist>>
    BY <1>6 DEF vars
  <2>2. Seen(d)' = Seen(d) /\ \A t \in Tasks : Pending(t, d)' => Pending(t, d)
    BY <2>1 DEF Seen, Pending
  <2> QED
    BY <1>1, <2>1, <2>2, ElsewhereStep
<1> QED
  BY <1>2, <1>3, <1>4, <1>5, <1>6 DEF Next

(* Nobody has started.                                                     *)
LEMMA InitTracks == Init => Tracks
<1> SUFFICES ASSUME Init, NEW c \in Conns PROVE Track(c)
  BY DEF Tracks
<1> USE DEF invaild, disconnecting, disconnected, ex_handshaked, extension_syncing,
            level_initializing, level_initialized, Leaving
<1>1. conn[c] = NewConn /\ hist[c] = NewHist /\ ~client[c].offered /\ client[c].exts = "none"
  BY DEF Init
<1>2. /\ Seen(c) = invaild /\ loading[c] = 0 /\ ~Answered(c) /\ response = {}
      /\ \A t \in Tasks : ~Pending(t, c)
  BY DEF Init, Seen, Answered, Pending
<1>3. conn[c].cur = invaild /\ conn[c].next = invaild
  BY <1>1 DEF NewConn
<1> QED
  BY <1>1, <1>2, <1>3 DEF Track, Path, Once, Parting, Extending, Levelless, Syncing, Tasks

(* World::sync_block reaches every player in level_initialized or later.   *)
(* Where UDP delivers no login response twice, such a player has its       *)
(* level; a doubled response would complete the transition that the level  *)
(* task was asked for.                                                     *)
THEOREM LevelComesFirst == MaxDuplicates = 0 => (Spec => []LevelBeforeBlocks)
<1> SUFFICES ASSUME MaxDuplicates = 0 PROVE Spec => []LevelBeforeBlocks
  OBVIOUS
<1>1. Init => Sessions /\ Tracks
  BY InitSessions, InitTracks
<1>2. Sessions /\ Tracks /\ [Next]_vars => (Sessions /\ Tracks)'
  BY NextSessions, NextTracks
<1>3. Sessions /\ Tracks => LevelBeforeBlocks
  <2> SUFFICES ASSUME Sessions, Tracks, NEW c \in Conns, conn[c].cur >= level_initialized
               PROVE  hist[c].level
    BY DEF LevelBeforeBlocks
  <2>1. conn[c].cur \in Nat
    BY StateFacts DEF Sessions, Shapes
  <2> QED
    BY <2>1 DEF Tracks, Track, Path, Levelless, level_initialized
<1> QED
  BY <1>1, <1>2, <1>3, PTL DEF Spec

=============================================================================
