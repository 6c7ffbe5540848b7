----------------------------- MODULE PlayerViews ----------------------------
(***************************************************************************)
(* Who shows whom: the spawn, despawn and position packets of the world's  *)
(* three player tasks.  A task never runs twice at once, but the I/O       *)
(* service has several workers and each task sends to one player after the *)
(* other, so two tasks interleave send by send, with disconnects and with  *)
(* the main loop in between.                                               *)
(***************************************************************************)
EXTENDS PlayerState, FiniteSets

CONSTANTS
    Players,
    MayRefuse,      \* bound: may a full connection refuse a send
    MaxRuns,        \* bound: runs of the position task
    MaxDisconnects  \* bound: calls of disconnect()

VARIABLES
    player,     \* Players -> PlayerState and whether the connection is online
    spawn,      \* spawn_player_task: queue, target, stage, old players, sends left
    leave,      \* disconnect_player_task: queue, target, stage, sends and saves left
    move,       \* sync_player_position_task: stage, whom the packets are about, sends left
    known,      \* client -> players it shows
    missed,     \* pairs <<client, player>>: a spawn or despawn was refused (history)
    skipped,    \* players whose despawn the code skips, see Disconnect (history)
    overlap,    \* pairs <<client, player>> hit by two tasks at once (history)
    stray,      \* pairs <<client, player>>: moved before spawned or after despawned
    runs,       \* runs of the position task
    ends        \* calls of disconnect()

vars == <<player, spawn, leave, move, known, missed, skipped, overlap, stray, runs, ends>>

NoTask == [stage |-> "unused", queue |-> {}, target |-> {}, about |-> {}, todo |-> {}]

Init ==
    /\ player = [p \in Players |-> [prev |-> level_initializing, cur |-> level_initialized,
                                    next |-> level_initialized, online |-> TRUE]]
    /\ spawn = NoTask /\ leave = NoTask /\ move = NoTask
    /\ known = [c \in Players |-> {}]
    /\ missed = {} /\ skipped = {} /\ overlap = {} /\ stray = {}
    /\ runs = 0 /\ ends = 0

Online(p) == player[p].online
InWorld == {p \in Players : Online(p) /\ player[p].cur >= spawned}   \* select_players

History == <<missed, skipped, overlap, stray, runs, ends>>

----------------------------------------------------------------------------
(* Connection::disconnect on a player of the world: it delegates to the    *)
(* world, and a second one takes the connection offline at once.  Nobody   *)
(* is sent a despawn packet when the player was still spawning, or when it *)
(* goes offline before the main loop pushed it to the task.                *)
Disconnect(p) ==
    /\ Online(p) /\ ends < MaxDisconnects
    /\ ends' = ends + 1
    /\ IF player[p].cur >= handshaking
       THEN /\ player' = [player EXCEPT ![p] = PrepareStateTransition(@, disconnecting, disconnected)]
            /\ skipped' = IF player[p].cur < spawned THEN skipped \cup {p} ELSE skipped
       ELSE /\ player' = [player EXCEPT ![p].online = FALSE]
            /\ skipped' = IF player[p].cur = disconnecting /\ p \notin leave.queue \cup leave.target
                          THEN skipped \cup {p} ELSE skipped
    /\ UNCHANGED <<spawn, leave, move, known, missed, overlap, stray, runs>>

(* World::tick, for one player *)
TickSpawn(p) ==
    /\ Online(p) /\ player[p].cur = level_initialized
    /\ player' = [player EXCEPT ![p] = PrepareStateTransition(@, spawning, spawned)]
    /\ spawn' = [spawn EXCEPT !.queue = @ \cup {p}]
    /\ UNCHANGED <<leave, move, known, History>>

TickLeave(p) ==
    /\ Online(p) /\ player[p].cur = disconnecting /\ p \notin leave.queue
    /\ leave' = [leave EXCEPT !.queue = @ \cup {p}]
    /\ UNCHANGED <<player, spawn, move, known, History>>

TickGone(p) ==
    /\ Online(p) /\ player[p].cur = disconnected
    /\ player' = [player EXCEPT ![p].online = FALSE]
    /\ UNCHANGED <<spawn, leave, move, known, History>>

(* A player whose despawn packets are under way or behind it *)
Despawned(p) == \/ p \in leave.about \/ player[p].cur = disconnected
                \/ ~Online(p) /\ p \notin leave.queue \cup leave.target

(* One send of packets about the players of a set to client c: refused,    *)
(* skipped because the connection is gone, or received.                    *)
Refused(c, about) ==
    /\ MayRefuse /\ Online(c)
    /\ missed' = missed \cup ({c} \X about)
    /\ UNCHANGED <<known, overlap>>

Absent(c) == ~Online(c) /\ UNCHANGED <<known, missed, overlap>>

ToldSpawn(c, about) ==
    /\ Online(c)
    /\ known' = [known EXCEPT ![c] = @ \cup about]
    /\ overlap' = overlap \cup {<<c, p>> : p \in {q \in about : Despawned(q)}}
    /\ UNCHANGED missed

ToldDespawn(c, about) ==
    /\ Online(c)
    /\ known' = [known EXCEPT ![c] = @ \ about]
    /\ UNCHANGED <<missed, overlap>>

----------------------------------------------------------------------------
(* World::spawn_player: select the old players and serialize everyone ...  *)
SpawnBegin ==
    /\ spawn.stage = "unused" /\ spawn.queue # {}
    /\ spawn' = [stage |-> "new", queue |-> {}, target |-> spawn.queue,
                 about |-> InWorld, todo |-> spawn.queue]
    /\ UNCHANGED <<player, leave, move, known, History>>

(* ... send the packets of all to each new player, which makes it spawned  *)
(* (it takes whatever transition is prepared by then) ...                  *)
SpawnToNew(c) ==
    /\ spawn.stage = "new" /\ c \in spawn.todo
    /\ spawn' = [spawn EXCEPT !.todo = @ \ {c}]
    /\ \/ /\ ToldSpawn(c, spawn.about \cup spawn.target)
          /\ player' = [player EXCEPT ![c] = TransitState(@)]
       \/ Refused(c, spawn.about \cup spawn.target) /\ UNCHANGED player
       \/ Absent(c) /\ UNCHANGED player
    /\ UNCHANGED <<leave, move, skipped, stray, runs, ends>>

(* ... then the packets of the new players to each old one.                *)
NewPlayersOnly == {}    \* mutant: the old players are not told
OldPlayers == spawn.about

SpawnTurn ==
    /\ spawn.stage = "new" /\ spawn.todo = {}
    /\ spawn' = [spawn EXCEPT !.stage = "old", !.todo = OldPlayers]
    /\ UNCHANGED <<player, leave, move, known, History>>

SpawnToOld(c) ==
    /\ spawn.stage = "old" /\ c \in spawn.todo
    /\ spawn' = [spawn EXCEPT !.todo = @ \ {c}]
    /\ ToldSpawn(c, spawn.target) \/ Refused(c, spawn.target) \/ Absent(c)
    /\ UNCHANGED <<player, leave, move, skipped, stray, runs, ends>>

SpawnEnd ==
    /\ spawn.stage = "old" /\ spawn.todo = {}
    /\ spawn' = [spawn EXCEPT !.stage = "unused", !.target = {}, !.about = {}]
    /\ UNCHANGED <<player, leave, move, known, History>>

----------------------------------------------------------------------------
(* World::disconnect_player: despawn packets for the players that had been *)
(* spawned, to everyone in the world by now ...                            *)
WasSpawnedNow(p) == player[p].cur >= spawned    \* mutant: cur for prev
WasSpawned(p) == player[p].prev >= spawned

LeaveBegin ==
    /\ leave.stage = "unused" /\ leave.queue # {}
    /\ leave' = [stage |-> "despawn", queue |-> {}, target |-> leave.queue,
                 about |-> {p \in leave.queue : WasSpawned(p)}, todo |-> InWorld]
    /\ UNCHANGED <<player, spawn, move, known, History>>

LeaveTell(c) ==
    /\ leave.stage = "despawn" /\ c \in leave.todo
    /\ leave' = [leave EXCEPT !.todo = @ \ {c}]
    /\ ToldDespawn(c, leave.about) \/ Refused(c, leave.about) \/ Absent(c)
    /\ UNCHANGED <<player, spawn, move, skipped, stray, runs, ends>>

(* ... then save each one and make it disconnected.                        *)
LeaveTurn ==
    /\ leave.stage = "despawn" /\ leave.todo = {}
    /\ leave' = [leave EXCEPT !.stage = "save", !.todo = leave.target]
    /\ UNCHANGED <<player, spawn, move, known, History>>

LeaveSave(p) ==
    /\ leave.stage = "save" /\ p \in leave.todo
    /\ leave' = [leave EXCEPT !.todo = @ \ {p}]
    /\ player' = IF Online(p) THEN [player EXCEPT ![p] = TransitState(@)] ELSE player
    /\ UNCHANGED <<spawn, move, known, History>>

LeaveEnd ==
    /\ leave.stage = "save" /\ leave.todo = {}
    /\ leave' = [leave EXCEPT !.stage = "unused", !.target = {}, !.about = {}]
    /\ UNCHANGED <<player, spawn, move, known, History>>

----------------------------------------------------------------------------
(* World::sync_player_position, with every player on the move *)
MoveBegin ==
    /\ move.stage = "unused" /\ InWorld # {} /\ runs < MaxRuns
    /\ move' = [move EXCEPT !.stage = "send", !.about = InWorld, !.todo = InWorld]
    /\ runs' = runs + 1
    /\ UNCHANGED <<player, spawn, leave, known, missed, skipped, overlap, stray, ends>>

MoveTo(c) ==
    /\ move.stage = "send" /\ c \in move.todo
    /\ move' = [move EXCEPT !.todo = @ \ {c}]
    /\ stray' = IF Online(c) THEN stray \cup ({c} \X (move.about \ known[c])) ELSE stray
    /\ overlap' = overlap \cup {<<c, p>> : p \in {q \in move.about :
                                   spawn.stage # "unused" \/ player[q].cur < spawned}}
    /\ UNCHANGED <<player, spawn, leave, known, missed, skipped, runs, ends>>

MoveEnd ==
    /\ move.stage = "send" /\ move.todo = {}
    /\ move' = [move EXCEPT !.stage = "unused", !.about = {}]
    /\ UNCHANGED <<player, spawn, leave, known, History>>

Next ==
    \/ \E p \in Players : \/ Disconnect(p) \/ TickSpawn(p) \/ TickLeave(p) \/ TickGone(p)
                          \/ SpawnToNew(p) \/ SpawnToOld(p) \/ LeaveTell(p) \/ LeaveSave(p)
                          \/ MoveTo(p)
    \/ SpawnBegin \/ SpawnTurn \/ SpawnEnd
    \/ LeaveBegin \/ LeaveTurn \/ LeaveEnd
    \/ MoveBegin \/ MoveEnd

Spec == Init /\ [][Next]_vars

----------------------------------------------------------------------------
(* Properties.                                                              *)

(* Players, tasks and views keep their shape. *)
TypeOK ==
    /\ player \in [Players -> [prev : States, cur : States, next : States, online : BOOLEAN]]
    /\ \A t \in {spawn, leave, move} :
          t \in [stage : {"unused", "new", "old", "despawn", "save", "send"},
                 queue : SUBSET Players, target : SUBSET Players,
                 about : SUBSET Players, todo : SUBSET Players]
    /\ known \in [Players -> SUBSET Players]
    /\ missed \cup overlap \cup stray \subseteq Players \X Players
    /\ skipped \subseteq Players

(* Once the spawn task is through, every spawned player shows every other  *)
(* one, in whatever batches they entered, unless a send was refused.       *)
EveryoneVisible ==
    spawn.stage = "unused" => \A c, p \in InWorld : p \in known[c] \/ <<c, p>> \in missed

(* No ghosts: whom a spawned player shows is in the world, on its way into *)
(* it, or about to be despawned, unless the despawn was refused, skipped,  *)
(* or passed by a spawn packet of a task running at the same time.         *)
NoGhosts ==
    \A c \in InWorld : \A p \in known[c] \ skipped :
        \/ player[p].cur \in {spawning, spawned, disconnecting}
        \/ p \in leave.queue \cup leave.target
        \/ <<c, p>> \in missed \cup overlap

(* A client is told where a player moves only after it was told of the     *)
(* player and before its despawn, unless the position task overlapped the  *)
(* task that sends the one or the other.                                   *)
MovesAreKnown == \A cp \in stray : cp \in missed \cup overlap

=============================================================================
