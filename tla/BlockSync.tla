----------------------------- MODULE BlockSync ------------------------------
(***************************************************************************)
(* The world's block map and what the players are told of it: block        *)
(* changes pushed by packet handlers (DoubleBuffering), BlockSyncTask that *)
(* the main loop schedules, and World::sync_block, which a worker runs:    *)
(* commit the changes to the map, multicast them to the players that have  *)
(* the level, then send the level to the players that wait for it.         *)
(*                                                                         *)
(* A block is the number of the record that last changed it.               *)
(***************************************************************************)
EXTENDS DoubleBuffering

CONSTANTS
    Players,
    Volume,     \* WorldMetadata::volume, blocks of the map
    Header,     \* block_file_header_size
    PosOf       \* Records -> the position the record changes

MapAssumption ==
    /\ Volume \in Nat /\ Header \in Nat
    /\ PosOf \in [Records -> 0 .. Volume - 1]

VARIABLES
    task,       \* Task::_state, and where the worker is in the handler
    handled,    \* records the handler committed and multicast: two sizes
    map,        \* positions -> the blocks of the mapped file
    state,      \* Players -> out, queue, target, level (level_initialized)
    view,       \* Players -> positions -> what the player was told
    missed,     \* players a full connection refused a multicast to (history)
    committed,  \* records committed to the map, with multiplicity (history)
    sent,       \* records multicast, with multiplicity (history)
    torn        \* a slip of the buffer reached map or players (history)

taskVars == <<task, handled, map, state, view, missed, committed, sent, torn>>
vars == <<bufferVars, taskVars>>

Positions == 0 .. Volume - 1
Unknown == -1

(* coordinate_to_block_map_index adds the header of the file ... *)
IndexOf(pos) == Header + pos

(* ... but commit_block_changes compares with the volume alone, and the    *)
(* level packet reads the file from its header on for volume bytes: the    *)
(* last Header blocks are out of the reach of both.                        *)
IsCommitted(pos) == IndexOf(pos) < Volume
Reached == {pos \in Positions : IsCommitted(pos)}

Init ==
    /\ BufferInit
    /\ task = "unused"
    /\ handled = 0
    /\ map = [pos \in Positions |-> NoRecord]
    /\ state = [p \in Players |-> "out"]
    /\ view = [p \in Players |-> [pos \in Positions |-> Unknown]]
    /\ missed = {}
    /\ committed = [r \in Records |-> 0] /\ sent = [r \in Records |-> 0]
    /\ torn = FALSE

----------------------------------------------------------------------------
(* try_change_block, from a packet handler *)
ChangeBlock(w) == PushStep(w) /\ UNCHANGED taskVars

(* World::tick: the player is handshaked and asks for the level. *)
WaitForLevel(p) ==
    /\ state[p] = "out"
    /\ state' = [state EXCEPT ![p] = "queue"]
    /\ UNCHANGED <<bufferVars, task, handled, map, view, missed, committed, sent, torn>>

In(s) == {p \in Players : state[p] = s}

(* BlockSyncTask::ready *)
ReadyAlways == HasLiveData \/ In("queue") # {}      \* mutant: a busy task is ready
Ready == task = "unused" /\ (HasLiveData \/ In("queue") # {})

(* before_scheduling, and schedule_task posts the task to a worker. *)
Schedule ==
    /\ ~outside /\ Ready
    /\ Snapshot
    /\ state' = [p \in Players |-> IF state[p] = "queue" THEN "target" ELSE state[p]]
    /\ task' = "scheduled"
    /\ UNCHANGED <<size, slots, pusher, pushed, accepted, late, outside,
                   handled, map, view, missed, committed, sent, torn>>

(* sync_block: if (block_change_history.size()) ... *)
LookSize ==
    /\ ~outside /\ task = "scheduled"
    /\ task' = IF size[Output] # 0 THEN "commit" ELSE "level"
    /\ UNCHANGED <<bufferVars, handled, map, state, view, missed, committed, sent, torn>>

(* The last of the records that change a position, in their order *)
Last(recs, pos, old) ==
    LET hits == {i \in DOMAIN recs : recs[i] # NoRecord /\ PosOf[recs[i]] = pos}
    IN  IF hits = {} THEN old
        ELSE recs[CHOOSE i \in hits : \A j \in hits : j <= i]

Tally(count, recs) ==
    [r \in Records |-> LET n == count[r] + Cardinality({i \in DOMAIN recs : recs[i] = r})
                       IN  IF n > 2 THEN 2 ELSE n]

(* commit_block_changes reads the size again; more than the buffer holds   *)
(* fails the assertion of get_record, or reads what lies behind it.        *)
CommittedButLast(n) == Snapshotted(n - 1)   \* mutant
Committed(n) == Snapshotted(n)

Commit ==
    LET n == size[Output]  recs == Committed(n) IN
    /\ ~outside /\ task = "commit"
    /\ IF n > Capacity
       THEN outside' = TRUE /\ UNCHANGED <<task, handled, map, committed, torn>>
       ELSE /\ map' = [pos \in Positions |->
                         IF IsCommitted(pos) THEN Last(recs, pos, map[pos]) ELSE map[pos]]
            /\ committed' = Tally(committed, recs)
            /\ handled' = n
            /\ torn' = (torn \/ Uncopied(n))
            /\ task' = "multicast"
            /\ UNCHANGED outside
    /\ UNCHANGED <<input, size, slots, pusher, pushed, accepted, cut, late,
                   state, view, missed, sent>>

(* get_snapshot_data reads the size once more; the copy goes to every      *)
(* player from level_initialized on, except those it is refused to.        *)
Multicast ==
    LET n == size[Output]  recs == Snapshotted(n) IN
    /\ ~outside /\ task = "multicast"
    /\ IF n > Capacity
       THEN outside' = TRUE /\ UNCHANGED <<task, view, missed, sent, torn>>
       ELSE /\ \E told \in SUBSET In("level") :
                 /\ view' = [p \in Players |-> IF p \in told
                               THEN [pos \in Positions |-> Last(recs, pos, view[p][pos])]
                               ELSE view[p]]
                 /\ missed' = missed \cup (In("level") \ told)
            /\ sent' = Tally(sent, recs)
            /\ torn' = (torn \/ Uncopied(n) \/ n # handled)
            /\ task' = "level"
            /\ UNCHANGED outside
    /\ UNCHANGED <<input, size, slots, pusher, pushed, accepted, cut, late,
                   handled, map, state, committed>>

(* process_level_wait_player: one packet of the map for all that wait.  A  *)
(* player it is refused to stays in level_initializing.                    *)
SendLevel ==
    /\ ~outside /\ task = "level"
    /\ \E told \in SUBSET In("target") :
         /\ view' = [p \in Players |-> IF p \in told
                       THEN [pos \in Positions |-> IF pos \in Reached THEN map[pos] ELSE Unknown]
                       ELSE view[p]]
         /\ state' = [p \in Players |-> IF p \in told THEN "level"
                                        ELSE IF state[p] = "target" THEN "refused" ELSE state[p]]
    /\ task' = "clear"
    /\ UNCHANGED <<bufferVars, handled, map, missed, committed, sent, torn>>

(* on_event_complete: clear_snapshot ... *)
Clear ==
    /\ ~outside /\ task = "clear"
    /\ ClearSnapshot
    /\ task' = "finish"
    /\ UNCHANGED <<input, slots, pusher, pushed, accepted, cut, outside,
                   handled, map, state, view, missed, committed, sent, torn>>

(* ... then set_state(unused). *)
Finish ==
    /\ task = "finish"
    /\ task' = "unused" /\ handled' = 0
    /\ UNCHANGED <<bufferVars, map, state, view, missed, committed, sent, torn>>

Next ==
    \/ \E w \in Writers : ChangeBlock(w)
    \/ \E p \in Players : WaitForLevel(p)
    \/ Schedule \/ LookSize \/ Commit \/ Multicast \/ SendLevel \/ Clear \/ Finish

Spec == Init /\ [][Next]_vars

----------------------------------------------------------------------------
(* Properties.                                                              *)

(* Buffer, task, map and views keep their shape. *)
TypeOK ==
    /\ BufferTypeOK
    /\ task \in {"unused", "scheduled", "commit", "multicast", "level", "clear", "finish"}
    /\ handled \in 0 .. Capacity
    /\ map \in [Positions -> Records \cup {NoRecord}]
    /\ state \in [Players -> {"out", "queue", "target", "level", "refused"}]
    /\ view \in [Players -> [Positions -> Records \cup {NoRecord, Unknown}]]
    /\ missed \subseteq Players
    /\ committed \in [Records -> 0 .. 2] /\ sent \in [Records -> 0 .. 2]
    /\ torn \in BOOLEAN

(* Where an accepted record can be before the world is told of it *)
Holds(b, r) == \E i \in Offsets : i < size[b] /\ slots[b][i] = r

Pending(r) == \/ Holds(input, r)
              \/ task \in {"scheduled", "commit"} /\ Holds(Output, r)

(* A change that push accepted, and that no snapshot overlapped, is in one *)
(* of the buffers until it is committed and multicast (add_record's true   *)
(* means that the handler does not revert the client's block), whatever    *)
(* pushes a snapshot overlaps, unless one outlives the clear of its buffer *)
(* (late); it is applied twice only when one overlaps the handler's reads. *)
AcceptedIsApplied ==
    ~outside /\ ~late => \A r \in accepted \ cut :
        /\ committed[r] = 0 => Pending(r)
        /\ sent[r] = 0 => Pending(r) \/ (task = "multicast" /\ Holds(Output, r))
        /\ ~torn => committed[r] <= 1 /\ sent[r] <= committed[r]

(* "to achieve block data synchronization": outside the handler's commit   *)
(* and multicast, a player with the level has been told of every block of  *)
(* the map the level packet reaches, unless a full connection refused it a *)
(* multicast or a push overlapped the handler's reads (torn), or has       *)
(* outlived the clear of its buffer (late), so that a later push takes a   *)
(* slot the handler has committed and not multicast yet.                   *)
ViewsMatchMap ==
    (task # "multicast" /\ ~torn /\ ~late /\ ~outside) =>
        \A p \in In("level") \ missed : \A pos \in Reached : view[p][pos] = map[pos]

(* history_buffer.h:39: assert(index < capacity / history_data_unit_size). *)
(* The code does not keep this: size() counts a push about to be refused.  *)
RecordIndexInRange == task = "commit" => size[Output] <= Capacity

=============================================================================
