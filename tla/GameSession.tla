---------------------------- MODULE GameSession ----------------------------
(***************************************************************************)
(* The life of players on the game server: from the accepted connection    *)
(* through handshake, login, level transfer and spawn to the teardown.     *)
(*                                                                         *)
(* Threads: the I/O threads complete receives (GameServer::handle_packet,  *)
(* Connection::on_complete); the UDP thread handles login responses; the   *)
(* database threads resume the coroutine that loads the game data; the     *)
(* accept thread expires silent connections; the main loop runs            *)
(* World::tick; worker threads run the spawn, level and disconnect tasks.  *)
(* They share the players' states without locks.                           *)
(*                                                                         *)
(* Slots, keys and the destruction of connections are in ConnectionTable;  *)
(* here a connection is "online" exactly while its entry is visible.  A    *)
(* call of prepare_state_transition, transit_state or disconnect is one    *)
(* step; what a thread reads first and uses later (World::tick's switch on *)
(* the state, the coroutine across its co_await, a task's list of players) *)
(* is split.  Timeouts may happen at any time their cause allows.          *)
(***************************************************************************)
EXTENDS PlayerState, FiniteSets

CONSTANTS
    N,              \* connections accepted in a behaviour, in slot order
    Cpe,            \* which clients connect: TRUE with CPE support, FALSE without
    MaxExt,         \* bound: extensions a CPE client announces
    MaxDuplicates,  \* bound: login responses delivered twice by UDP
    MaxFaults,      \* bound: bad packets, losses, departures, untimely expiries
    MayRefuse       \* whether a full send buffer may refuse a packet

ASSUME SessionAssumption ==
    /\ N \in Nat \ {0} /\ MaxExt \in Nat \ {0}
    /\ MaxDuplicates \in Nat /\ MaxFaults \in Nat
    /\ Cpe \subseteq BOOLEAN /\ Cpe # {} /\ MayRefuse \in BOOLEAN

Conns == 1 .. N
None  == 0                               \* no connection key
Tasks == {"level", "spawn", "disconnect"}

VARIABLES
    conn,      \* Connection with its Player and its receive event
    client,    \* the peer: its socket and what it has sent
    request,   \* connections with a handshake on its way to the login server
    response,  \* login responses on their way back
    dups,      \* responses duplicated so far
    faults,    \* faults of the environment so far
    loading,   \* coroutines suspended in get_document, per connection
    task,      \* the three player tasks
    main,      \* where the main loop is and which state World::tick read
    hist       \* what happened to each connection (history)

vars == <<conn, client, request, response, dups, faults, loading, task, main, hist>>

NewConn == [life |-> "none", prev |-> invaild, cur |-> invaild, next |-> invaild,
            type |-> "invalid", pending |-> 0, recv |-> "idle", err |-> FALSE]

NewHist == [reached |-> FALSE, rejected |-> FALSE, saved |-> FALSE,
            logout |-> FALSE, level |-> FALSE, dropped |-> FALSE]

Init ==
    /\ conn = [c \in Conns |-> NewConn]
    /\ client = [c \in Conns |-> [link |-> "active", hello |-> FALSE,
                                  offered |-> FALSE, exts |-> "none"]]
    /\ request = {} /\ response = {} /\ dups = 0 /\ faults = 0
    /\ loading = [c \in Conns |-> 0]
    /\ task = [t \in Tasks |-> [state |-> "unused", queue |-> {}, target |-> {}]]
    /\ main = [at |-> 0, seen |-> invaild]
    /\ hist = [c \in Conns |-> NewHist]

Online(c) == conn[c].life = "online"

(* The environment misbehaves once more, within its bound. *)
Fault == faults < MaxFaults /\ faults' = faults + 1

----------------------------------------------------------------------------
(* Connection::disconnect on connection state x: the world tears a player   *)
(* down, anything else goes offline at once.                                *)
DelegatesAlways(x) == x.cur # invaild   \* mutant
DelegatesTeardown(x) == x.cur >= handshaking

Disconnect(x) ==
    IF x.life # "online" THEN x
    ELSE IF DelegatesTeardown(x)
         THEN PrepareStateTransition(x, disconnecting, disconnected)
         ELSE [x EXCEPT !.life = "offline"]

(* GameServer::on_disconnect, called on the second path only. *)
NotifiesLogout(x) ==
    x.life = "online" /\ ~DelegatesTeardown(x) /\ x.cur >= handshaked

(* History of a step that turns conn into x on connection c. *)
Record(c, x, h) ==
    [h EXCEPT !.reached = h.reached \/ x.cur >= handshaked,
              !.logout = h.logout \/ (x.life = "offline" /\ NotifiesLogout(conn[c]))]

Step(c, x) == /\ conn' = [conn EXCEPT ![c] = x]
              /\ hist' = [hist EXCEPT ![c] = Record(c, x, hist[c])]

----------------------------------------------------------------------------
(* Accept thread.                                                           *)

(* TcpServer::new_connection; slots fill in order. *)
Accept(c) ==
    /\ conn[c].life = "none"
    /\ \A b \in Conns : b < c => conn[b].life # "none"
    /\ conn' = [conn EXCEPT ![c].life = "online"]
    /\ UNCHANGED <<client, request, response, dups, faults, loading, task, main, hist>>

(* cleanup_expired_connection finds the connection expired: a minute of      *)
(* silence, certain when the peer is gone and a fault when it is not.        *)
Expire(c) ==
    /\ Online(c)
    /\ \/ client[c].link = "active" /\ Fault
       \/ client[c].link # "active" /\ faults' = faults
    /\ Step(c, Disconnect(conn[c]))
    /\ UNCHANGED <<client, request, response, dups, loading, task, main>>

----------------------------------------------------------------------------
(* I/O threads: a posted receive completes.                                 *)

(* Connection::on_complete(IoRecvEvent): kicks while last_error_code holds   *)
(* a failure, which nothing resets.                                          *)
RecvComplete(x) == LET y == [x EXCEPT !.recv = "idle"]
                   IN  IF y.err THEN Disconnect(y) ELSE y

(* A packet arrives: try_interact_with_client drops it when offline, else    *)
(* its handler turns the connection into handled.                            *)
RecvPacket(c, handled) ==
    /\ conn[c].recv = "posted" /\ client[c].link = "active"
    /\ Step(c, RecvComplete(IF Online(c) THEN handled ELSE conn[c]))

(* handle_handshake_packet; a client sends it once, first. *)
RecvHandshake(c) ==
    /\ ~client[c].hello
    /\ client' = [client EXCEPT ![c].hello = TRUE]
    /\ \E cpe \in Cpe :
         LET fresh == [conn[c] EXCEPT !.prev = initialized, !.cur = initialized,
                                      !.next = initialized, !.type = "invalid",
                                      !.pending = 0]
         IN  RecvPacket(c, IF cpe
               THEN PrepareStateTransition(fresh, ex_handshaking, ex_handshaked)
               ELSE PrepareStateTransition(fresh, handshaking, handshaked))
    /\ request' = IF Online(c) THEN request \cup {c} ELSE request
    /\ UNCHANGED <<response, dups, faults, loading, task, main>>

(* handle_ext_info_packet; a client answers the server's extension list. *)
RecvExtInfo(c) ==
    /\ client[c].offered /\ client[c].exts = "none"
    /\ client' = [client EXCEPT ![c].exts = "announced"]
    /\ \E n \in 1 .. MaxExt : RecvPacket(c, [conn[c] EXCEPT !.pending = n])
    /\ UNCHANGED <<request, response, dups, faults, loading, task, main>>

RecvAnyExtEntry(c) ==   \* mutant: every entry moves the player on
    /\ client[c].exts = "announced" /\ conn[c].pending > 0
    /\ RecvPacket(c, TransitState([conn[c] EXCEPT !.pending = @ - 1]))
    /\ UNCHANGED <<client, request, response, dups, faults, loading, task, main>>

(* handle_ext_entry_packet; the client sends as many as it announced. *)
RecvExtEntry(c) ==
    /\ client[c].exts = "announced" /\ conn[c].pending > 0
    /\ LET x == [conn[c] EXCEPT !.pending = @ - 1]
       IN  RecvPacket(c, IF x.pending = 0 THEN TransitState(x) ELSE x)
    /\ UNCHANGED <<client, request, response, dups, faults, loading, task, main>>

(* Any other packet, handled without touching this state. *)
RecvOther(c) ==
    /\ client[c].hello
    /\ RecvPacket(c, conn[c])
    /\ UNCHANGED <<client, request, response, dups, faults, loading, task, main>>

(* parse_packet or a handler fails: process_packets keeps the error. *)
RecvBadPacket(c) ==
    /\ Fault
    /\ client[c].hello
    /\ RecvPacket(c, [conn[c] EXCEPT !.err = TRUE])
    /\ UNCHANGED <<client, request, response, dups, loading, task, main>>

(* iocp_signal::eof: on_error; the event stays in processing for good. *)
RecvEof(c) ==
    /\ conn[c].recv = "posted" /\ client[c].link = "closed"
    /\ Step(c, Disconnect([conn[c] EXCEPT !.recv = "stuck"]))
    /\ UNCHANGED <<client, request, response, dups, faults, loading, task, main>>

(* iocp_signal::event_failed: the receive is simply posted again. *)
RecvFailed(c) ==
    /\ conn[c].recv = "posted" /\ client[c].link = "reset"
    /\ Step(c, RecvComplete(conn[c]))
    /\ UNCHANGED <<client, request, response, dups, faults, loading, task, main>>

(* The peer closes its socket, or the connection breaks (external). *)
ClientLeaves(c) ==
    /\ Fault
    /\ conn[c].life # "none" /\ client[c].link = "active"
    /\ \E how \in {"closed", "reset"} : client' = [client EXCEPT ![c].link = how]
    /\ UNCHANGED <<conn, request, response, dups, loading, task, main, hist>>

----------------------------------------------------------------------------
(* The login server answers (external); prev is the key its login session   *)
(* held, if the user was already logged in on this game server.             *)
Answer(c) ==
    /\ c \in request
    /\ request' = request \ {c}
    /\ \E result \in {"guest", "fail", "success"} :
       \E prev \in {None} \cup {b \in Conns \ {c} : hist[b].reached} :
          /\ result # "success" => prev = None
          /\ response' = response \cup {[conn |-> c, result |-> result, prev |-> prev]}
    /\ UNCHANGED <<conn, client, dups, faults, loading, task, main, hist>>

(* UDP loses the request or the response; nobody retries. *)
LoseMessage(c) ==
    /\ Fault
    /\ \/ c \in request /\ request' = request \ {c} /\ response' = response
       \/ \E m \in response : /\ m.conn = c
                              /\ response' = response \ {m} /\ request' = request
    /\ UNCHANGED <<conn, client, dups, loading, task, main, hist>>

(* handle_handshake_response_message up to its co_await. *)
HandleResponse(m) ==
    LET c == m.conn
        kicked == m.prev # None
        logged == [conn[c] EXCEPT !.type = "user"]
    IN
    /\ m \in response
    /\ \/ response' = response \ {m} /\ dups' = dups
       \/ dups < MaxDuplicates /\ dups' = dups + 1 /\ response' = response
    /\ IF ~Online(c)
       THEN /\ loading' = [loading EXCEPT ![c] = @ + 1]
            /\ UNCHANGED <<conn, hist>>
       ELSE \/ /\ m.result = "guest"
               /\ Step(c, TransitState([conn[c] EXCEPT !.type = "guest"]))
               /\ loading' = loading
            \/ /\ m.result = "fail"
               /\ conn' = [conn EXCEPT ![c] = Disconnect(conn[c])]
               /\ hist' = [hist EXCEPT ![c].rejected = TRUE]
               /\ loading' = loading
            \/ /\ m.result = "success" /\ ~kicked
               /\ Step(c, logged)
               /\ loading' = [loading EXCEPT ![c] = @ + 1]
            \/ /\ m.result = "success" /\ kicked
               /\ conn' = [conn EXCEPT ![c] = logged,
                                       ![m.prev] = Disconnect(conn[m.prev])]
               /\ hist' = [hist EXCEPT ![m.prev] =
                              Record(m.prev, Disconnect(conn[m.prev]), @)]
               /\ loading' = [loading EXCEPT ![c] = @ + 1]
    /\ UNCHANGED <<client, request, faults, task, main>>

(* ... and from there, when the game data arrived or could not be read. *)
Loaded(c) ==
    /\ loading[c] > 0
    /\ loading' = [loading EXCEPT ![c] = @ - 1]
    /\ \/ ~Online(c) /\ UNCHANGED <<conn, hist>>
       \/ Online(c) /\ Step(c, TransitState(conn[c]))
       \/ Online(c) /\ Step(c, Disconnect(conn[c]))
    /\ UNCHANGED <<client, request, response, dups, faults, task, main>>

----------------------------------------------------------------------------
(* The main loop: GameServer::tick, then World::tick over the slots, then   *)
(* the tasks.                                                               *)

(* ConnectionIO::flush_receive *)
MainFlush ==
    /\ main.at = 0
    /\ conn' = [c \in Conns |->
                  IF Online(c) /\ conn[c].recv = "idle"
                  THEN [conn[c] EXCEPT !.recv = "posted"] ELSE conn[c]]
    /\ main' = [main EXCEPT !.at = 1]
    /\ UNCHANGED <<client, request, response, dups, faults, loading, task, hist>>

(* for_each_player and the switch on player.state() *)
MainRead ==
    /\ main.at \in Conns /\ main.seen = invaild
    /\ main' = IF Online(main.at) /\ conn[main.at].cur # invaild
               THEN [main EXCEPT !.seen = conn[main.at].cur]
               ELSE [main EXCEPT !.at = @ + 1]
    /\ UNCHANGED <<conn, client, request, response, dups, faults, loading, task, hist>>

PushFirst(t, c) ==      \* mutant: a queue holds one player
    task' = [task EXCEPT ![t].queue = IF @ = {} THEN {c} ELSE @]
Push(t, c) == task' = [task EXCEPT ![t].queue = @ \cup {c}]

(* The case the switch chose, on whatever the player has become since. *)
MainAct ==
    LET c == main.at  s == main.seen  x == conn[c] IN
    /\ c \in Conns /\ s # invaild
    /\ main' = [at |-> c + 1, seen |-> invaild]
    /\ \/ /\ s = ex_handshaked
          /\ Step(c, PrepareStateTransition(x, extension_syncing, extension_synced))
          /\ client' = [client EXCEPT ![c].offered = TRUE]
          /\ task' = task
       \/ /\ s = ex_handshaked /\ MayRefuse
          /\ UNCHANGED <<conn, hist, client, task>>
       \/ /\ s \in {handshaked, extension_synced}
          /\ Step(c, PrepareStateTransition(x, level_initializing, level_initialized))
          /\ Push("level", c)
          /\ client' = client
       \/ /\ s = level_initialized
          /\ Step(c, PrepareStateTransition(x, spawning, spawned))
          /\ Push("spawn", c)
          /\ client' = client
       \/ /\ s = disconnecting
          /\ Push("disconnect", c)
          /\ UNCHANGED <<conn, hist, client>>
       \/ /\ s = disconnected
          /\ Step(c, Disconnect(x))
          /\ UNCHANGED <<client, task>>
       \/ /\ s \notin {ex_handshaked, handshaked, extension_synced,
                       level_initialized, disconnecting, disconnected}
          /\ UNCHANGED <<conn, hist, client, task>>
    /\ UNCHANGED <<request, response, dups, faults, loading>>

(* io::Task::ready: unused, its cooldown over, and somebody queued. *)
Ready(t) == task[t].state = "unused" /\ task[t].queue # {}

ScheduleEmpty(S) ==     \* mutant: the queue is not swapped in
    /\ main.at = N + 1
    /\ task' = [t \in Tasks |-> IF t \in S THEN [task[t] EXCEPT !.state = "processing"]
                                           ELSE task[t]]
    /\ main' = [main EXCEPT !.at = 0]
    /\ UNCHANGED <<conn, client, request, response, dups, faults, loading, hist>>

(* schedule_task runs before_scheduling: the queue becomes the target.  A    *)
(* ready task may still be cooling down, so any of them may be skipped.      *)
Schedule(S) ==
    /\ main.at = N + 1
    /\ task' = [t \in Tasks |->
                  IF t \in S THEN [state |-> "processing", queue |-> task[t].target,
                                   target |-> task[t].queue]
                             ELSE task[t]]
    /\ main' = [main EXCEPT !.at = 0]
    /\ UNCHANGED <<conn, client, request, response, dups, faults, loading, hist>>

MainSchedule == \E S \in SUBSET {t \in Tasks : Ready(t)} : Schedule(S)

----------------------------------------------------------------------------
(* Worker threads: the handler of a task, player by player.                 *)

Working(t, c) == task[t].state = "processing" /\ c \in task[t].target

Finish(t, c) == task' = [task EXCEPT ![t].target = @ \ {c}]

(* History of a player whose packets are out. *)
Served(t, h) == [h EXCEPT !.level = @ \/ t = "level"]

DeliverUnchecked(t, c) ==   \* mutant: the connection is not looked at again
    /\ Working(t, c) /\ t # "disconnect"
    /\ Finish(t, c)
    /\ Step(c, TransitState(conn[c]))
    /\ UNCHANGED <<client, request, response, dups, faults, loading, main>>

(* process_level_wait_player and spawn_player: when the packets fit into the *)
(* send buffer (or the multicast pool) the player moves on.                  *)
Deliver(t, c) ==
    /\ Working(t, c) /\ t # "disconnect"
    /\ Finish(t, c)
    /\ \/ /\ Online(c)
          /\ conn' = [conn EXCEPT ![c] = TransitState(@)]
          /\ hist' = [hist EXCEPT ![c] = Served(t, Record(c, TransitState(conn[c]), @))]
       \/ /\ Online(c) /\ MayRefuse
          /\ conn' = conn
          /\ hist' = [hist EXCEPT ![c].dropped = TRUE]
       \/ /\ ~Online(c) /\ UNCHANGED <<conn, hist>>
    /\ UNCHANGED <<client, request, response, dups, faults, loading, main>>

(* Player::is_support_gamedata_saving *)
SavesGamedata(x) == x.type = "user" \/ x.cur >= handshaked \/ x.prev >= handshaked

(* History of a player whose game data is written. *)
Saved(x, h) == [h EXCEPT !.saved = @ \/ SavesGamedata(x)]

(* disconnect_player: save, then disconnected. *)
Teardown(c) ==
    /\ Working("disconnect", c)
    /\ Finish("disconnect", c)
    /\ IF Online(c)
       THEN /\ conn' = [conn EXCEPT ![c] = TransitState(@)]
            /\ hist' = [hist EXCEPT ![c] = Saved(conn[c], Record(c, TransitState(conn[c]), @))]
       ELSE UNCHANGED <<conn, hist>>
    /\ UNCHANGED <<client, request, response, dups, faults, loading, main>>

(* on_event_complete: clear the target, unused again. *)
TaskEnd(t) ==
    /\ task[t].state = "processing" /\ task[t].target = {}
    /\ task' = [task EXCEPT ![t].state = "unused"]
    /\ UNCHANGED <<conn, client, request, response, dups, faults, loading, main, hist>>

----------------------------------------------------------------------------
Receive(c) == \/ RecvHandshake(c) \/ RecvExtInfo(c) \/ RecvExtEntry(c)
              \/ RecvOther(c) \/ RecvBadPacket(c) \/ RecvEof(c) \/ RecvFailed(c)

Next ==
    \/ \E c \in Conns : \/ Accept(c) \/ Expire(c) \/ Receive(c) \/ ClientLeaves(c)
                        \/ Answer(c) \/ LoseMessage(c) \/ Loaded(c)
                        \/ \E t \in Tasks : Deliver(t, c)
                        \/ Teardown(c)
    \/ \E m \in response : HandleResponse(m)
    \/ MainFlush \/ MainRead \/ MainAct \/ MainSchedule
    \/ \E t \in Tasks : TaskEnd(t)

Spec == Init /\ [][Next]_vars

(* What the runtime guarantees: the main loop and the workers keep running,  *)
(* the database answers, completed receives are dispatched, a cooldown ends, *)
(* and a connection whose peer is gone expires (new clients keep arriving,   *)
(* and every accept runs the cleanup).                                       *)
Fairness ==
    /\ WF_vars(MainFlush) /\ WF_vars(MainRead) /\ WF_vars(MainAct)
    /\ WF_vars(MainSchedule)
    /\ \A t \in Tasks : /\ SF_vars(\E S \in SUBSET {u \in Tasks : Ready(u)} :
                                     t \in S /\ Schedule(S))
                        /\ WF_vars(TaskEnd(t))
    /\ \A c \in Conns : /\ \A t \in Tasks : WF_vars(Deliver(t, c))
                        /\ WF_vars(Teardown(c)) /\ WF_vars(Loaded(c))
                        /\ WF_vars(RecvEof(c))
                        /\ WF_vars(client[c].link # "active" /\ Expire(c))

FairSpec == Spec /\ Fairness

----------------------------------------------------------------------------
(* Properties.                                                              *)

Player == [life : {"none", "online", "offline"},
           prev : States, cur : States, next : States,
           type : {"invalid", "guest", "user"}, pending : 0 .. MaxExt,
           recv : {"idle", "posted", "stuck"}, err : BOOLEAN]

(* The shape of the session state; a task has a target only while it is     *)
(* scheduled, so before_scheduling never swaps a list a worker still reads. *)
TypeOK ==
    /\ conn \in [Conns -> Player]
    /\ client \in [Conns -> [link : {"active", "closed", "reset"},
                             hello : BOOLEAN, offered : BOOLEAN,
                             exts : {"none", "announced"}]]
    /\ request \subseteq Conns
    /\ response \subseteq [conn : Conns, result : {"guest", "fail", "success"},
                           prev : Conns \cup {None}]
    /\ dups \in 0 .. MaxDuplicates /\ faults \in 0 .. MaxFaults
    /\ loading \in [Conns -> Nat]
    /\ task \in [Tasks -> [state : {"unused", "processing"},
                           queue : SUBSET Conns, target : SUBSET Conns]]
    /\ \A t \in Tasks : task[t].state = "unused" => task[t].target = {}
    /\ main \in [at : 0 .. N + 1, seen : States]
    /\ hist \in [Conns -> [reached : BOOLEAN, rejected : BOOLEAN, saved : BOOLEAN,
                           logout : BOOLEAN, level : BOOLEAN, dropped : BOOLEAN]]

Pending(t, c) == c \in task[t].queue \cup task[t].target

(* World::tick prepares the transition and pushes the player in one go, and *)
(* nothing but the task takes it out: an online player waiting for its      *)
(* level or its spawn is on the list of that task, unless a full buffer     *)
(* refused its packets.  Whoever is not is stuck for good.                  *)
WaitingIsQueued ==
    \A c \in Conns : Online(c) /\ ~hist[c].dropped =>
        /\ conn[c].cur = level_initializing => Pending("level", c)
        /\ conn[c].cur = spawning => Pending("spawn", c)

(* Note in World::sync_block: "the client dose not allow to send block      *)
(* datas before level initialization completed".  Block changes go to every *)
(* player in level_initialized or later, so such a player has its level.    *)
LevelBeforeBlocks ==
    \A c \in Conns : Online(c) /\ conn[c].cur >= level_initialized => hist[c].level

(* Connection::kick after a failed login: whatever the interleaving with    *)
(* World::tick and the tasks, the player never gets past the handshake.     *)
RejectedStaysOut ==
    \A c \in Conns : hist[c].rejected => ~hist[c].reached

(* try_acquire_connection before every late transition: once a connection   *)
(* is offline no task, coroutine or packet brings its player into the world *)
(* (a stale World::tick may still queue it, to no effect).                  *)
OfflineNeverEnters ==
    \A c \in Conns : conn[c].life = "offline" =>
        conn[c].cur \notin {level_initialized, spawned}

(* Whoever is in the world was let in: no interleaving brings in a player   *)
(* that was rejected or is gone.                                            *)
OnlyAdmittedEnter == RejectedStaysOut /\ OfflineNeverEnters

(* An error, a closed socket or a broken one: the connection goes offline   *)
(* in the end, if need be through its expiry, even when a state prepared by *)
(* disconnect() was overwritten by World::tick.                             *)
GoneGoesOffline ==
    \A c \in Conns :
        (Online(c) /\ client[c].link # "active") ~> (conn[c].life = "offline")

(* A player that logged in is spawned in the end, unless its connection     *)
(* ends or a full buffer refuses it: no task forgets a player.              *)
LoggedInSpawns ==
    \A c \in Conns :
        (Online(c) /\ conn[c].cur \in {handshaked, extension_synced})
            ~> \/ conn[c].cur \in {spawned, disconnecting, disconnected}
               \/ conn[c].life = "offline" \/ hist[c].dropped

----------------------------------------------------------------------------
(* Statements of the code that the code does not keep.                      *)

(* connection.cpp: "players need some teardown operations before going      *)
(* offline. Delegate to the world".  A player that was logged in has its    *)
(* game data saved before its connection is offline.                        *)
TeardownBeforeOffline ==
    \A c \in Conns : conn[c].life = "offline" /\ hist[c].reached => hist[c].saved

(* game_server.cpp: "notify logout event to the login server." when a       *)
(* logged-in player disconnects.                                            *)
LogoutNotified ==
    \A c \in Conns : conn[c].life = "offline" /\ hist[c].reached => hist[c].logout

=============================================================================
