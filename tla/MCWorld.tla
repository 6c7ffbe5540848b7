------------------------------ MODULE MCWorld ------------------------------
(* Small instances of the tasks that World::tick schedules, and of what the *)
(* world leaves on disk: the players' documents and the files of the map.   *)
(* The parts work on separate state, so a behaviour of this module is a     *)
(* behaviour of one of them (part); the others keep their initial state.    *)
(* The block and the chat task have a buffer each, for which the same       *)
(* variables stand.                                                         *)
EXTENDS WorldFiles, TLC

CONSTANTS Writers, Capacity, SizeMod, MaxRecords,   \* the two buffers
          MapVolume, MapHeader, PosOf,      \* the map
          Players,                          \* of the block, chat and player tasks
          MayRefuse, MaxRuns, MaxDisconnects,
          Travellers, Movers, Targets, SpawnPoint, CoordMod, ByteMod, Threshold,    \* positions
          MaxMoves, MaxFaults               \* documents

VARIABLES
    part,
    input, filled, slots, pusher, pushed, accepted, cut, late, outside,       \* a buffer
    task, handled, map, state, view, missed, committed, sent, cutInto,      \* block task
    chatTask, chunk, told, chatMissed,                                      \* chat task
    player, spawn, leave, move, known, unseen, skipped, overlap, stray, runs, ends,
    entered, latest, transferred, tmp, sync, shown, drift,                  \* positions
    online, account, session, load, queued, doc, saves, moves, earned, slips, faults

(* The records change two blocks; block 2 lies behind the reach of the      *)
(* commit, which compares an index that counts the header with the volume.  *)
ChangedBy == [r \in 1 .. MaxRecords |-> IF r = 3 THEN 2 ELSE r % 2]

(* One player moves, two see it: a position within the threshold of the     *)
(* spawn point, two beyond it on one axis, one that wraps a byte.           *)
Reported == {[x |-> 1, z |-> 0, o |-> 0], [x |-> 1, z |-> 3, o |-> 1],
             [x |-> 4, z |-> 0, o |-> 0], [x |-> 4, z |-> 7, o |-> 0]}
(* A world with, and one without a newline among its volume's bytes.         *)
WorldSizes == {<<10, 10, 10>>, <<10, 16, 16>>}

At == [x |-> 4, z |-> 4, o |-> 0]

Block == INSTANCE BlockSync WITH Volume <- MapVolume, Header <- MapHeader,
            size <- filled, torn <- cutInto
Chat  == INSTANCE ChatTransfer WITH size <- filled, task <- chatTask, missed <- chatMissed
Views == INSTANCE PlayerViews WITH missed <- unseen
Pos   == INSTANCE PositionSync WITH Players <- Travellers, spawned <- entered, view <- shown
Documents == INSTANCE Gamedata WITH Conns <- Players, player <- account

ASSUME WorldAssumption ==
    /\ Block!BufferingAssumption /\ Block!MapAssumption /\ Chat!BufferingAssumption
    /\ Pos!PositionAssumption /\ Documents!GamedataAssumption /\ WorldFilesAssumption

bufferVars == <<input, filled, slots, pusher, pushed, accepted, cut, late, outside>>
blockVars == <<task, handled, map, state, view, missed, committed, sent, cutInto>>
chatVars == <<chatTask, chunk, told, chatMissed>>
viewVars == <<player, spawn, leave, move, known, unseen, skipped, overlap, stray, runs, ends>>
posVars == <<entered, latest, transferred, tmp, sync, shown, drift>>
taskVars == <<bufferVars, blockVars, chatVars, viewVars, posVars>>
documentVars == <<online, account, session, load, queued, doc, saves, moves, earned, slips, faults>>
fileVars == <<size, pc, blocks, metadata, loaded, changes, crashes, torn>>
allVars == <<part, taskVars, documentVars, fileVars>>

WorldInit ==
    /\ part \in {"block", "chat", "views", "positions", "documents", "files"}
    /\ Block!Init /\ Chat!Init /\ Views!Init /\ Pos!Init /\ Documents!Init
    /\ IF part = "files" THEN Init
       ELSE size = <<>> /\ pc = "" /\ blocks = "" /\ metadata = "" /\ loaded = 0
            /\ changes = {} /\ crashes = 0 /\ torn = FALSE

TaskNext ==
    \/ part = "block" /\ Block!Next /\ UNCHANGED <<chatVars, viewVars, posVars>>
    \/ part = "chat" /\ Chat!Next /\ UNCHANGED <<blockVars, viewVars, posVars>>
    \/ part = "views" /\ Views!Next /\ UNCHANGED <<bufferVars, blockVars, chatVars, posVars>>
    \/ part = "positions" /\ Pos!Next /\ UNCHANGED <<bufferVars, blockVars, chatVars, viewVars>>

WorldNext ==
    /\ part' = part
    /\ \/ TaskNext /\ UNCHANGED <<documentVars, fileVars>>
       \/ part = "documents" /\ Documents!Next /\ UNCHANGED <<taskVars, fileVars>>
       \/ part = "files" /\ Next /\ UNCHANGED <<taskVars, documentVars>>

WorldSpec == WorldInit /\ [][WorldNext]_allVars

Symmetric == Permutations(Writers) \cup Permutations(Players)

----------------------------------------------------------------------------
(* The properties of the parts.                                             *)

(* An accepted block change waits in a buffer until it is applied, once. *)
AcceptedIsApplied == part = "block" => Block!AcceptedIsApplied
(* The players with a level show the blocks of the map. *)
ViewsMatchMap == part = "block" => Block!ViewsMatchMap

(* A chat message waits in a buffer until every player was sent it. *)
ChatReachesEveryone == part = "chat" => Chat!ChatReachesEveryone
(* The spawned players show each other. *)
EveryoneVisible == part = "views" => Views!EveryoneVisible
(* A client shows no player that is gone, and is told no moves of players   *)
(* that it does not show.                                                   *)
ViewsAreCurrent == part = "views" => Views!NoGhosts /\ Views!MovesAreKnown
(* A client shows a player where the server last transferred it. *)
ViewFollows == part = "positions" => Pos!ViewFollows

(* A user's latest move is in the document once the user has left. *)
MovesAreKept == part = "documents" => Documents!MovesAreKept

=============================================================================
