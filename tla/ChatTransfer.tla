---------------------------- MODULE ChatTransfer ----------------------------
(***************************************************************************)
(* Common chat: packet handlers add messages to the chat history           *)
(* (DoubleBuffering), the main loop schedules CommonChatTask, and a worker *)
(* multicasts a copy of the snapshot to the spawned players.  The handler  *)
(* reads the size once, so here an impossible size reaches operator new,   *)
(* whose exception the event loop swallows.                                *)
(***************************************************************************)
EXTENDS DoubleBuffering

CONSTANT Players    \* the spawned players

VARIABLES
    task,       \* Task::_state, and where the worker is in the handler
    chunk,      \* size of the byte_view the handler was given
    told,       \* Players -> messages it was sent, with multiplicity (history)
    missed      \* Players -> messages whose multicast it refused (history)

taskVars == <<task, chunk, told, missed>>
vars == <<bufferVars, taskVars>>

Init ==
    /\ BufferInit
    /\ task = "unused" /\ chunk = 0
    /\ told = [p \in Players |-> [r \in Records |-> 0]]
    /\ missed = [p \in Players |-> {}]

(* try_add_common_chat, from a packet handler *)
AddChat(w) == PushStep(w) /\ UNCHANGED taskVars

(* CommonChatTask::ready and before_scheduling *)
Schedule ==
    /\ ~outside /\ task = "unused" /\ HasLiveData
    /\ Snapshot
    /\ task' = "scheduled"
    /\ UNCHANGED <<size, slots, pusher, pushed, accepted, late, outside, chunk, told, missed>>

(* on_event_complete: get_snapshot_data *)
Capture ==
    /\ ~outside /\ task = "scheduled"
    /\ chunk' = size[Output]
    /\ task' = "transfer"
    /\ UNCHANGED <<bufferVars, told, missed>>

(* A size that wrapped below zero is one operator new cannot serve. *)
Wrapped(n) == n > SizeMod \div 2

(* common_chat_transfer: clone() allocates and copies chunk bytes and      *)
(* multicasts them.                                                        *)
Transfer ==
    /\ ~outside /\ task = "transfer" /\ ~Wrapped(chunk)
    /\ IF chunk > Capacity
       THEN outside' = TRUE /\ UNCHANGED <<task, told, missed>>
       ELSE \E to \in SUBSET Players :
              LET recs == Snapshotted(chunk)
                  Count(r) == Cardinality({i \in DOMAIN recs : recs[i] = r})
              IN  /\ told' = [p \in Players |-> [r \in Records |->
                                IF p \in to /\ Count(r) > 0 THEN told[p][r] + Count(r)
                                                            ELSE told[p][r]]]
                  /\ missed' = [p \in Players |-> IF p \in to THEN missed[p]
                                    ELSE missed[p] \cup {recs[i] : i \in DOMAIN recs}]
                  /\ task' = "clear"
                  /\ UNCHANGED outside
    /\ UNCHANGED <<input, size, slots, pusher, pushed, accepted, cut, late, chunk>>

(* ... or throws bad_alloc: invoke_event_handler's caller catches it, and  *)
(* neither clear_snapshot nor set_state(unused) runs.                      *)
Throw ==
    /\ ~outside /\ task = "transfer" /\ Wrapped(chunk)
    /\ task' = "stuck"
    /\ UNCHANGED <<bufferVars, chunk, told, missed>>

Clear ==
    /\ ~outside /\ task = "clear"
    /\ ClearSnapshot
    /\ task' = "finish"
    /\ UNCHANGED <<input, slots, pusher, pushed, accepted, cut, outside, chunk, told, missed>>

Finish ==
    /\ task = "finish"
    /\ task' = "unused" /\ chunk' = 0
    /\ UNCHANGED <<bufferVars, told, missed>>

Next ==
    \/ \E w \in Writers : AddChat(w)
    \/ Schedule \/ Capture \/ Transfer \/ Throw \/ Clear \/ Finish

Spec == Init /\ [][Next]_vars

----------------------------------------------------------------------------
(* Properties.                                                              *)

(* Buffer and task keep their shape. *)
TypeOK ==
    /\ BufferTypeOK
    /\ task \in {"unused", "scheduled", "transfer", "clear", "finish", "stuck"}
    /\ chunk \in 0 .. SizeMod - 1
    /\ told \in [Players -> [Records -> Nat]]
    /\ missed \in [Players -> SUBSET (Records \cup {NoRecord})]

Holds(b, r) == \E i \in Offsets : i < size[b] /\ slots[b][i] = r

(* A message the history accepted, and that no snapshot overlapped, waits  *)
(* in a buffer until every spawned player was sent it, or refused it,      *)
(* unless a push outlived the clear of its buffer.                         *)
ChatReachesEveryone ==
    ~outside /\ ~late => \A r \in accepted \ cut, p \in Players :
        \/ told[p][r] > 0 \/ r \in missed[p]
        \/ Holds(input, r)
        \/ task \in {"scheduled", "transfer"} /\ Holds(Output, r)

=============================================================================
