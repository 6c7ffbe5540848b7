-------------------------- MODULE ConnectionTable --------------------------
(***************************************************************************)
(* The slot table of the game server (net::ConnectionEnvironment), the    *)
(* part of net::Connection that decides when a connection object is alive *)
(* and the accept handler of net::TcpServer, which alone creates and      *)
(* destroys connections.                                                   *)
(*                                                                         *)
(* Three kinds of thread touch the table: the accept thread, the threads  *)
(* that take a connection offline (main loop, I/O threads, the accept     *)
(* thread itself when a connection expires), and the readers that walk    *)
(* the table and leave with raw Player pointers.  Nothing here is locked: *)
(* the code relies on the order of its stores and on waiting              *)
(* REQUIRED_MILLISECONDS_FOR_SECURE_DELETION before destroying an object. *)
(* Stores another thread can observe are therefore separate steps, and    *)
(* time is explicit.                                                       *)
(***************************************************************************)
EXTENDS Integers, FiniteSets

CONSTANTS
    MaxConnections,  \* num_of_max_connections
    Threads,         \* threads that may call Connection::disconnect
    Acceptor,        \* the accept thread, one of Threads
    SecureDeletion,  \* REQUIRED_MILLISECONDS_FOR_SECURE_DELETION
    Expire,          \* REQUIRED_MILLISECONDS_FOR_EXPIRE
    CleanPeriod,     \* period of the clean_connection interval task
    TickModulus,     \* current_monotonic_tick32 wraps here (2^32 in the code)
    MaxStall,        \* timing: longest stay inside set_offline / a table walk
    MaxHold,         \* timing: longest life of a Player pointer in a task
    StartTime,       \* ticks since boot when the server starts
    MaxTime,         \* bound: the clock stops here
    MaxBorn          \* bound: accepts stop here, when there is room

ASSUME TableAssumption ==
    /\ MaxConnections \in Nat \ {0}
    /\ Acceptor \in Threads
    /\ SecureDeletion \in Nat \ {0} /\ Expire \in Nat /\ CleanPeriod \in Nat
    /\ TickModulus \in Nat \ {0}
    /\ MaxStall \in Nat /\ MaxHold \in Nat
    /\ StartTime \in Nat \ {0} /\ MaxTime \in Nat /\ MaxBorn \in Nat

Slots == 0 .. MaxConnections - 1

INVALID_TICK == -1          \* 0xDEADBEEF, not a tick this model can produce
NoId         == 0           \* the null unique_ptr<Connection>

(* A Connection object; id names it for good, whatever slot it is in. *)
Conn == [id : Nat, online : BOOLEAN, offline_at : Nat, last_seen : Nat]
NoConn == [id |-> NoId, online |-> FALSE, offline_at |-> 0, last_seen |-> 0]

Entry == [used : BOOLEAN, will_delete : BOOLEAN, created_at : Int]

(* Where a thread is inside Connection::set_offline. *)
Offlining == [stage : {"none", "flag", "tick", "entry"},
              slot : Slots, id : Nat, at : Nat]
NotOfflining == [stage |-> "none", slot |-> 0, id |-> NoId, at |-> 0]

(* A pointer read from the table: id is the object it points to. *)
NoPointer == [slot |-> -1, id |-> NoId, at |-> 0]
Pointer == [slot : Slots, id : Nat, at : Nat] \cup {NoPointer}

VARIABLES
    now,                 \* util::current_monotonic_tick()
    entry,               \* connection_table, without the pointers
    conn,                \* connection_table[s].connection
    num_of_connections,
    pc,                  \* where the accept thread is
    scan,                \* slot cleanup_expired_connection looks at / new slot
    expired_at,          \* next run of the clean_connection task
    born,                \* connections created so far: the source of ids
    offl,                \* Threads -> Offlining
    reader,              \* a table walk that found will_delete false
    held,                \* a Player pointer sitting in a world task
    keys,                \* every ConnectionKey ever handed out (history)
    early                \* objects destroyed before offline_at was written (history)

acceptVars == <<pc, scan, expired_at, born>>
readVars   == <<reader, held>>
vars == <<now, entry, conn, num_of_connections, acceptVars, offl, readVars,
          keys, early>>

PCs == {"idle", "clean", "cleanOffline", "uncount", "limit", "pick",
        "count", "store", "publish"}

Init ==
    /\ now = StartTime
    /\ entry = [s \in Slots |-> [used |-> FALSE, will_delete |-> TRUE,
                                 created_at |-> INVALID_TICK]]
    /\ conn = [s \in Slots |-> NoConn]
    /\ num_of_connections = 0
    /\ pc = "idle" /\ scan = 0
    /\ expired_at = StartTime + CleanPeriod
    /\ born = 0
    /\ offl = [t \in Threads |-> NotOfflining]
    /\ reader = NoPointer /\ held = NoPointer
    /\ keys = {} /\ early = {}

----------------------------------------------------------------------------
(* Connection::is_safe_delete and Connection::is_expired. *)
DeleteOnline(c) == now >= c.offline_at + SecureDeletion     \* mutant
DeleteAtOnce(c) == ~c.online                                \* mutant
IsSafeDelete(c) == ~c.online /\ now >= c.offline_at + SecureDeletion
IsExpired(c) == now >= c.last_seen + Expire

(* Connection::disconnect by thread t on the connection of slot s, from    *)
(* the online check to the call of set_offline, whose default argument     *)
(* reads the clock.  A connection whose player the world has to tear down  *)
(* first takes the other branch, which leaves this state alone.            *)
BeginOffline(t, s) ==
    offl' = [offl EXCEPT ![t] = [stage |-> "flag", slot |-> s,
                                 id |-> conn[s].id, at |-> now]]

----------------------------------------------------------------------------
(* The accept thread: TcpServer::handle_io_event(IoAcceptEvent).           *)

(* process_tasks(clean_connection): run the cleanup when its period is over *)
AcceptBegin ==
    /\ pc = "idle"
    /\ pc' = IF now < expired_at THEN "limit" ELSE "clean"
    /\ scan' = 0
    /\ UNCHANGED <<now, entry, conn, num_of_connections, expired_at, born,
                   offl, readVars, keys, early>>

CleanSkip ==
    /\ pc = "clean" /\ scan < MaxConnections
    /\ \/ ~entry[scan].used
       \/ ~IsSafeDelete(conn[scan]) /\ ~(IsExpired(conn[scan]) /\ conn[scan].online)
    /\ scan' = scan + 1
    /\ UNCHANGED <<now, entry, conn, num_of_connections, pc, expired_at, born,
                   offl, readVars, keys, early>>

(* entry.connection.reset(): ~Connection runs on_connection_delete, which   *)
(* releases the slot before it decrements the count.                        *)
CleanDelete ==
    /\ pc = "clean" /\ scan < MaxConnections
    /\ entry[scan].used /\ IsSafeDelete(conn[scan])
    /\ conn' = [conn EXCEPT ![scan] = NoConn]
    /\ entry' = [entry EXCEPT ![scan].created_at = INVALID_TICK,
                              ![scan].used = FALSE]
    /\ early' = IF conn[scan].offline_at = 0 THEN early \cup {conn[scan].id}
                                             ELSE early
    /\ pc' = "uncount"
    /\ UNCHANGED <<now, num_of_connections, scan, expired_at, born, offl,
                   readVars, keys>>

CleanNoUncount ==   \* mutant: a destroyed connection still counts
    /\ pc = "uncount"
    /\ pc' = "clean" /\ scan' = scan + 1
    /\ UNCHANGED <<now, entry, conn, num_of_connections, expired_at, born, offl,
                   readVars, keys, early>>

CleanUncount ==
    /\ pc = "uncount"
    /\ num_of_connections' = num_of_connections - 1
    /\ pc' = "clean" /\ scan' = scan + 1
    /\ UNCHANGED <<now, entry, conn, expired_at, born, offl, readVars, keys,
                   early>>

(* An expired connection: disconnect() goes offline here and now, or hands  *)
(* the player to the world and leaves the connection online.                *)
CleanExpire ==
    /\ pc = "clean" /\ scan < MaxConnections
    /\ entry[scan].used /\ ~IsSafeDelete(conn[scan])
    /\ IsExpired(conn[scan]) /\ conn[scan].online
    /\ \/ BeginOffline(Acceptor, scan) /\ pc' = "cleanOffline" /\ scan' = scan
       \/ offl' = offl /\ pc' = pc /\ scan' = scan + 1
    /\ UNCHANGED <<now, entry, conn, num_of_connections, expired_at, born,
                   readVars, keys, early>>

CleanOfflined ==
    /\ pc = "cleanOffline" /\ offl[Acceptor].stage = "none"
    /\ pc' = "clean" /\ scan' = scan + 1
    /\ UNCHANGED <<now, entry, conn, num_of_connections, expired_at, born,
                   offl, readVars, keys, early>>

CleanEnd ==
    /\ pc = "clean" /\ scan = MaxConnections
    /\ expired_at' = now + CleanPeriod
    /\ pc' = "limit" /\ scan' = 0
    /\ UNCHANGED <<now, entry, conn, num_of_connections, born, offl, readVars,
                   keys, early>>

(* client_connection_limit: the accepted socket is closed again. *)
CheckLimit ==
    /\ pc = "limit"
    /\ pc' = IF num_of_connections >= MaxConnections THEN "idle" ELSE "pick"
    /\ UNCHANGED <<now, entry, conn, num_of_connections, scan, expired_at,
                   born, offl, readVars, keys, early>>

(* get_unused_connection_id: the first slot that is not used; MaxConnections *)
(* stands for connection_table.end().                                        *)
FirstUnused(s) ==
    \/ /\ s \in Slots /\ ~entry[s].used
       /\ \A r \in Slots : r < s => entry[r].used
    \/ /\ s = MaxConnections
       /\ \A r \in Slots : entry[r].used

(* TcpServer::new_connection up to the constructor of Connection. *)
PickSlot ==
    /\ pc = "pick" /\ born < MaxBorn
    /\ \E s \in 0 .. MaxConnections :
          /\ FirstUnused(s)
          /\ scan' = s
          /\ keys' = keys \cup {[id |-> born + 1, slot |-> s, at |-> now,
                                 created_at |-> now % TickModulus]}
    /\ born' = born + 1
    /\ pc' = "count"
    /\ UNCHANGED <<now, entry, conn, num_of_connections, expired_at, offl,
                   readVars, early>>

(* ConnectionEnvironment::on_connection_create, store by store.  The clock   *)
(* reading of the key and the object's own last_seen are those of PickSlot.  *)
NewKey(k) == k \in keys /\ k.id = born

CreateVisible ==    \* mutant: will_delete is cleared before the object is stored
    /\ pc = "count"
    /\ num_of_connections' = num_of_connections + 1
    /\ \E k \in keys : NewKey(k) /\
          entry' = [entry EXCEPT ![scan].created_at = k.created_at,
                                 ![scan].will_delete = FALSE]
    /\ pc' = "store"
    /\ UNCHANGED <<now, conn, scan, expired_at, born, offl, readVars, keys, early>>

CreateCount ==
    /\ pc = "count"
    /\ num_of_connections' = num_of_connections + 1
    /\ \E k \in keys : NewKey(k) /\
          entry' = [entry EXCEPT ![scan].created_at = k.created_at]
    /\ pc' = "store"
    /\ UNCHANGED <<now, conn, scan, expired_at, born, offl, readVars, keys, early>>

CreateStore ==
    /\ pc = "store"
    /\ \E k \in keys : NewKey(k) /\
          conn' = [conn EXCEPT ![scan] = [id |-> born, online |-> TRUE,
                                          offline_at |-> 0, last_seen |-> k.at]]
    /\ entry' = [entry EXCEPT ![scan].used = TRUE]
    /\ pc' = "publish"
    /\ UNCHANGED <<now, num_of_connections, scan, expired_at, born, offl,
                   readVars, keys, early>>

CreateHidden ==     \* mutant: a reused slot keeps its will_delete
    /\ pc = "publish"
    /\ pc' = "idle" /\ scan' = 0
    /\ UNCHANGED <<now, entry, conn, num_of_connections, expired_at, born, offl,
                   readVars, keys, early>>

CreatePublish ==
    /\ pc = "publish"
    /\ entry' = [entry EXCEPT ![scan].will_delete = FALSE]
    /\ pc' = "idle" /\ scan' = 0
    /\ UNCHANGED <<now, conn, num_of_connections, expired_at, born, offl,
                   readVars, keys, early>>

----------------------------------------------------------------------------
(* Going offline: Connection::set_offline, three stores.                    *)

(* The connection is reached through the table (main loop) or through the   *)
(* handler pointer of a completed I/O; either way it was published.         *)
Disconnect(t, s) ==
    /\ t # Acceptor
    /\ offl[t].stage = "none"
    /\ conn[s].id # NoId /\ conn[s].online /\ ~entry[s].will_delete
    /\ BeginOffline(t, s)
    /\ UNCHANGED <<now, entry, conn, num_of_connections, acceptVars, readVars,
                   keys, early>>

(* A store through the object pointer: once the object is destroyed it       *)
(* lands in freed memory, outside this state.                                *)
Alive(t) == conn[offl[t].slot].id = offl[t].id

OfflineFlag(t) ==
    /\ offl[t].stage = "flag"
    /\ conn' = IF Alive(t) THEN [conn EXCEPT ![offl[t].slot].online = FALSE]
                           ELSE conn
    /\ offl' = [offl EXCEPT ![t].stage = "tick"]
    /\ UNCHANGED <<now, entry, num_of_connections, acceptVars, readVars, keys,
                   early>>

OfflineTick(t) ==
    /\ offl[t].stage = "tick"
    /\ conn' = IF Alive(t)
               THEN [conn EXCEPT ![offl[t].slot].offline_at = offl[t].at]
               ELSE conn
    /\ offl' = [offl EXCEPT ![t].stage = "entry"]
    /\ UNCHANGED <<now, entry, num_of_connections, acceptVars, readVars, keys,
                   early>>

(* on_connection_offline(_connection_key): the slot number is read from the  *)
(* object, so on a destroyed object the store may also miss the entry.       *)
OfflineEntry(t) ==
    /\ offl[t].stage = "entry"
    /\ \/ entry' = [entry EXCEPT ![offl[t].slot].will_delete = TRUE]
       \/ ~Alive(t) /\ entry' = entry
    /\ offl' = [offl EXCEPT ![t] = NotOfflining]
    /\ UNCHANGED <<now, conn, num_of_connections, acceptVars, readVars, keys,
                   early>>

----------------------------------------------------------------------------
(* Readers and clients.                                                      *)

(* for_each_connection, for_each_player and select_players: test will_delete *)
ReaderCheck(s) ==
    /\ reader = NoPointer
    /\ ~entry[s].will_delete
    /\ reader' = [slot |-> s, id |-> conn[s].id, at |-> now]
    /\ UNCHANGED <<now, entry, conn, num_of_connections, acceptVars, offl,
                   held, keys, early>>

(* ... and dereference entry.connection; World::tick may push the player it  *)
(* finds into a task.                                                        *)
ReaderUse ==
    /\ reader # NoPointer
    /\ \/ held = NoPointer /\ held' = [reader EXCEPT !.id = conn[reader.slot].id,
                                                     !.at = now]
       \/ held' = held
    /\ reader' = NoPointer
    /\ UNCHANGED <<now, entry, conn, num_of_connections, acceptVars, offl,
                   keys, early>>

(* WorldPlayerTask::on_event_complete clears _players_target. *)
TaskDone ==
    /\ held # NoPointer
    /\ held' = NoPointer
    /\ UNCHANGED <<now, entry, conn, num_of_connections, acceptVars, offl,
                   reader, keys, early>>

(* Connection::try_interact_with_client, when a receive completes. *)
Interact(s) ==
    /\ conn[s].id # NoId /\ conn[s].online /\ ~entry[s].will_delete
    /\ conn' = [conn EXCEPT ![s].last_seen = now]
    /\ UNCHANGED <<now, entry, num_of_connections, acceptVars, offl, readVars,
                   keys, early>>

(* Time passes, but no thread sits inside set_offline or between the two     *)
(* steps of a table walk for longer than MaxStall, and a task drops its      *)
(* pointers within MaxHold (world_task_interval plus the handler).           *)
Tick ==
    /\ now < MaxTime
    /\ \A t \in Threads : offl[t].stage # "none" => now < offl[t].at + MaxStall
    /\ reader # NoPointer => now < reader.at + MaxStall
    /\ held # NoPointer => now < held.at + MaxHold
    /\ now' = now + 1
    /\ UNCHANGED <<entry, conn, num_of_connections, acceptVars, offl, readVars,
                   keys, early>>

Next ==
    \/ AcceptBegin \/ CleanSkip \/ CleanDelete \/ CleanUncount \/ CleanExpire
    \/ CleanOfflined \/ CleanEnd \/ CheckLimit \/ PickSlot
    \/ CreateCount \/ CreateStore \/ CreatePublish
    \/ \E t \in Threads, s \in Slots : Disconnect(t, s)
    \/ \E t \in Threads : OfflineFlag(t) \/ OfflineTick(t) \/ OfflineEntry(t)
    \/ \E s \in Slots : ReaderCheck(s) \/ Interact(s)
    \/ ReaderUse \/ TaskDone
    \/ Tick

Spec == Init /\ [][Next]_vars

----------------------------------------------------------------------------
(* Properties.                                                              *)

(* Every variable keeps the shape its C++ counterpart has; between picking  *)
(* a slot and publishing it the accept thread works on a real slot.         *)
TypeOK ==
    /\ now \in Nat
    /\ entry \in [Slots -> Entry]
    /\ conn \in [Slots -> Conn]
    /\ num_of_connections \in Nat
    /\ pc \in PCs /\ scan \in 0 .. MaxConnections
    /\ expired_at \in Nat /\ born \in Nat
    /\ offl \in [Threads -> Offlining]
    /\ reader \in Pointer /\ held \in Pointer
    /\ keys \subseteq [id : Nat, slot : 0 .. MaxConnections, at : Nat,
                       created_at : Int]
    /\ early \subseteq Nat

UsedSlots == {s \in Slots : entry[s].used}

(* The connection counter and the used flags are updated by separate stores *)
(* of on_connection_create / on_connection_delete; they agree except inside *)
(* those two functions, where exactly one store is outstanding.             *)
CountMatchesSlots ==
    num_of_connections =
        Cardinality(UsedSlots) + (IF pc \in {"uncount", "store"} THEN 1 ELSE 0)

(* assert(unused_slot - begin < num_of_max_connections): an accept that     *)
(* passed the limit check finds a free slot, so no connection is ever       *)
(* stored past the end of the table or over a live one.                     *)
NewSlotIsFree ==
    /\ pc = "pick" => UsedSlots # Slots
    /\ pc \in {"count", "store"} =>
          scan \in Slots /\ ~entry[scan].used /\ conn[scan] = NoConn

(* The timing under which secure deletion protects every pointer: offline   *)
(* is stamped at most MaxStall before will_delete is visible, a walk lasts  *)
(* MaxStall more and a task MaxHold more.                                   *)
HoldersAreQuick == 2 * MaxStall + MaxHold < SecureDeletion

(* No object was destroyed inside the window of set_offline in which        *)
(* _is_online is already false and last_offline_tick not yet written.       *)
NoEarlyDelete == early = {}

(* A walk that saw will_delete false dereferences the object it saw: the    *)
(* pointer is neither null nor replaced before it is used.                  *)
WalkFindsObject ==
    NoEarlyDelete /\ reader # NoPointer =>
        reader.id # NoId /\ conn[reader.slot].id = reader.id

(* A Player pointer that World::tick pushed into a task stays valid until   *)
(* the task has run: secure deletion outlasts every holder.                 *)
TaskPointerIsAlive ==
    NoEarlyDelete /\ held # NoPointer =>
        held.id # NoId /\ conn[held.slot].id = held.id

ResolvesAny(k) == k.slot \in Slots /\ ~entry[k.slot].will_delete  \* mutant

(* ConnectionEnvironment::is_expired *)
Resolves(k) == /\ k.slot \in Slots
               /\ ~entry[k.slot].will_delete
               /\ entry[k.slot].created_at = k.created_at

(* try_acquire_connection never returns another connection than the one the *)
(* key was made for, however often the slot was reused, as long as the key  *)
(* is younger than one turn of the 32-bit tick.                             *)
KeyFindsItsConnection ==
    NoEarlyDelete =>
        \A k \in keys : Resolves(k) /\ now - k.at < TickModulus
                           => conn[k.slot].id = k.id

(* Comment of on_connection_offline: "Invoked when connection goes offline. *)
(* (thread-safe)".  It only ever hides the connection that went offline: an *)
(* online, published connection stays reachable through the table.          *)
OnlineIsReachable ==
    \A s \in Slots : conn[s].online /\ ~(pc = "publish" /\ scan = s)
                       => ~entry[s].will_delete

(* The same away from early deletion. *)
OnlineStaysReachable == NoEarlyDelete => OnlineIsReachable

(* The phase of connection object i in the abstract specification. *)
Phase(i) ==
    IF \E s \in Slots : conn[s].id = i
    THEN IF \E s \in Slots : conn[s].id = i /\ conn[s].online
         THEN "online" ELSE "offline"
    ELSE IF i < born \/ (i = born /\ pc \notin {"count", "store"})
         THEN "freed" ELSE "unborn"

Life == INSTANCE ConnectionLife
            WITH Ids <- 1 .. MaxBorn, phase <- [i \in 1 .. MaxBorn |-> Phase(i)]

(* Every connection object follows ConnectionLife: created online, offline  *)
(* once and for good, destroyed only from offline, never recreated.         *)
ImplementsLife == Life!LifeSpec

=============================================================================
