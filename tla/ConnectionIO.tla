---------------------------- MODULE ConnectionIO ----------------------------
(***************************************************************************)
(* net::ConnectionIO: what the world's tasks send to one client.  A small  *)
(* packet goes into the send buffer; one that is too large for it, or that *)
(* meets a full buffer, takes a multicast event from the connection's pool *)
(* (win::ObjectPool) and waits in ready_multicast_events.  The main loop   *)
(* flushes both to the request queue of the socket, which RegisteredIO     *)
(* created for one outstanding send; I/O threads complete what was sent.   *)
(*                                                                         *)
(* The send buffer is abstracted to whole packets: SendBuffer shows its    *)
(* stores.  The pool's bitmap is kept, because an event is allocated under *)
(* multicast_event_lock and freed without it.                              *)
(***************************************************************************)
EXTENDS Integers, Sequences, FiniteSets

CONSTANTS
    Posters,    \* tasks that send; Leveler is the block task
    Leveler,    \* its first packet is the level
    Events,     \* places of multicast_event_pool
    Capacity,   \* of the send buffer
    Small, Big, \* sizes of a packet
    MaxPosts,   \* bound: packets a poster sends
    MaxEofs     \* bound: sends that complete with eof

IOAssumption ==
    /\ Leveler \in Posters /\ Events # {} /\ "none" \notin Events /\ "send" \notin Events
    /\ Capacity \in Nat /\ Small \in Nat \ {0} /\ Big \in Nat \ {0}
    /\ MaxPosts \in Nat /\ MaxEofs \in Nat

VARIABLES
    buf,        \* packets in the send buffer
    tail,       \* data_tail
    sending,    \* the send event: idle, posted or handled, and its packets
    slot,       \* the outstanding send of the request queue
    bits,       \* free_storage_bitmaps: events marked free
    event,      \* Events -> stage, packet, and the bits a free has loaded
    ready,      \* ready_multicast_events
    main,       \* where flush_send is, and the list it swapped out
    poster,     \* Posters -> where post_multicast_event is
    due,        \* tasks World::tick scheduled that have not sent yet
    posted,     \* Posters -> packets posted so far
    received,   \* what arrived at the client
    fate,       \* packets by what happened to them: refused, waited for an event,
                \* dropped by a flush or an error (history)
    clash,      \* an event was constructed over one in use (history)
    eofs

ioVars == <<buf, tail, sending, slot, bits, event, ready, main, poster, due, posted,
            received, fate, clash, eofs>>

Packet == [by : Posters, n : 1 .. MaxPosts]
NoPacket == [by |-> Leveler, n |-> 0]

Unused == [stage |-> "free", packet |-> NoPacket, seen |-> {}]
Resting == [stage |-> "idle", packet |-> NoPacket, event |-> "none", seen |-> {}]

Init ==
    /\ buf = <<>> /\ tail = 0
    /\ sending = [stage |-> "idle", packets |-> <<>>]
    /\ slot = "none"
    /\ bits = Events
    /\ event = [e \in Events |-> Unused]
    /\ ready = <<>>
    /\ main = [stage |-> "send", list |-> <<>>]
    /\ poster = [p \in Posters |-> Resting]
    /\ due = {}
    /\ posted = [p \in Posters |-> 0]
    /\ received = <<>> /\ clash = FALSE /\ eofs = 0
    /\ fate = [refused |-> {}, waited |-> {}, dropped |-> {}]

Dropped(e) == [fate EXCEPT !.dropped = @ \cup {event[e].packet}]

Elements(list) == {list[i] : i \in DOMAIN list}

----------------------------------------------------------------------------
(* post_multicast_event.  The level comes first and is large, and a player *)
(* whose level was refused is sent no blocks.                              *)
Post(p, size) ==
    LET packet == [by |-> p, n |-> posted[p] + 1] IN
    /\ p \in due /\ poster[p].stage = "idle" /\ posted[p] < MaxPosts
    /\ p = Leveler /\ posted[p] = 0 => size = Big
    /\ [by |-> Leveler, n |-> 1] \in fate.refused => p # Leveler
    /\ posted' = [posted EXCEPT ![p] = @ + 1]
    /\ IF 2 * size < Capacity - tail
       THEN /\ buf' = Append(buf, packet) /\ tail' = tail + size
            /\ due' = due \ {p}
            /\ UNCHANGED poster
       ELSE /\ poster' = [poster EXCEPT ![p] = [Resting EXCEPT !.stage = "lock", !.packet = packet]]
            /\ UNCHANGED <<buf, tail, due>>
    /\ UNCHANGED <<sending, slot, bits, event, ready, main, received, fate, clash, eofs>>

NeverLocked == FALSE    \* mutant: no lock
Locked == \E p \in Posters : poster[p].stage = "store"

(* Take the lock, search the bitmap, construct the event.  (A pool that is *)
(* full up to its maximum does not extend.)                                *)
PoolTake(p) ==
    /\ poster[p].stage = "lock" /\ ~Locked /\ bits # {}
    /\ \E e \in bits :
         /\ poster' = [poster EXCEPT ![p].stage = "store", ![p].event = e, ![p].seen = bits]
         /\ clash' = (clash \/ event[e].stage # "free")
         /\ event' = [event EXCEPT ![e] = [stage |-> "ready", packet |-> poster[p].packet, seen |-> {}]]
    /\ UNCHANGED <<buf, tail, sending, slot, bits, ready, main, due, posted, received, fate, eofs>>

(* transition_to_ready is a load and a store; then the event is ready.     *)
PoolTaken(p) ==
    LET e == poster[p].event IN
    /\ poster[p].stage = "store"
    /\ bits' = poster[p].seen \ {e}
    /\ ready' = Append(ready, e)
    /\ poster' = [poster EXCEPT ![p] = Resting] /\ due' = due \ {p}
    /\ fate' = [fate EXCEPT !.waited = @ \cup {poster[p].packet}]
    /\ UNCHANGED <<buf, tail, sending, slot, event, main, posted, received, clash, eofs>>

PoolEmpty(p) ==
    /\ poster[p].stage = "lock" /\ ~Locked /\ bits = {}
    /\ poster' = [poster EXCEPT ![p] = Resting] /\ due' = due \ {p}
    /\ fate' = [fate EXCEPT !.refused = @ \cup {poster[p].packet}]
    /\ UNCHANGED <<buf, tail, sending, slot, bits, event, ready, main, posted, received, clash, eofs>>

(* free_multicast_event, without the lock: the object is destroyed and the *)
(* bitmap loaded, then stored.                                             *)
FreeBegin(e) == [event EXCEPT ![e] = [stage |-> "freed", packet |-> NoPacket, seen |-> bits]]

FreeEnd(e) ==
    /\ event[e].stage = "freed"
    /\ bits' = event[e].seen \cup {e}
    /\ event' = [event EXCEPT ![e] = Unused]
    /\ UNCHANGED <<buf, tail, sending, slot, ready, main, poster, due, posted, received, fate, clash, eofs>>

----------------------------------------------------------------------------
(* flush_send, for this connection: RIOSend fails while another send is    *)
(* outstanding.                                                            *)
FlushSend ==
    /\ main.stage = "send"
    /\ main' = [main EXCEPT !.stage = "swap"]
    /\ IF sending.stage = "idle" /\ buf # <<>> /\ slot = "none"
       THEN /\ sending' = [stage |-> "posted", packets |-> buf]
            /\ slot' = "send"
       ELSE UNCHANGED <<sending, slot>>
    /\ UNCHANGED <<buf, tail, bits, event, ready, poster, due, posted, received, fate, clash, eofs>>

(* flush_multicast_send: swap the list under the lock ...                  *)
FlushSwap ==
    /\ main.stage = "swap" /\ ~Locked
    /\ main' = [stage |-> "post", list |-> ready]
    /\ ready' = <<>>
    /\ UNCHANGED <<buf, tail, sending, slot, bits, event, poster, due, posted, received, fate, clash, eofs>>

(* ... post each event ... *)
FlushPost ==
    LET e == Head(main.list) IN
    /\ main.stage = "post" /\ main.list # <<>> /\ slot = "none"
    /\ slot' = e
    /\ event' = [event EXCEPT ![e].stage = "posted"]
    /\ main' = [main EXCEPT !.list = Tail(@)]
    /\ UNCHANGED <<buf, tail, sending, bits, ready, poster, due, posted, received, fate, clash, eofs>>

(* ... and free the ones that could not be posted: their packet is lost.   *)
FlushKeep ==    \* mutant: the event is not returned
    LET e == Head(main.list) IN
    /\ main.stage = "post" /\ main.list # <<>> /\ slot # "none"
    /\ fate' = Dropped(e)
    /\ main' = [main EXCEPT !.list = Tail(@)]
    /\ UNCHANGED <<buf, tail, sending, slot, bits, event, ready, poster, due, posted, received, clash, eofs>>

FlushFree ==
    LET e == Head(main.list) IN
    /\ main.stage = "post" /\ main.list # <<>> /\ slot # "none"
    /\ fate' = Dropped(e)
    /\ event' = FreeBegin(e)
    /\ main' = [stage |-> "free", list |-> main.list]
    /\ UNCHANGED <<buf, tail, sending, slot, bits, ready, poster, due, posted, received, clash, eofs>>

FlushFreed ==
    /\ main.stage = "free" /\ event[Head(main.list)].stage # "freed"
    /\ main' = [stage |-> "post", list |-> Tail(main.list)]
    /\ UNCHANGED <<buf, tail, sending, slot, bits, event, ready, poster, due, posted,
                   received, fate, clash, eofs>>

(* World::tick follows and schedules the tasks that have work and do not   *)
(* run; each sends this client one packet.                                 *)
FlushEnd ==
    /\ main.stage = "post" /\ main.list = <<>>
    /\ main' = [main EXCEPT !.stage = "send"]
    /\ \E tasks \in SUBSET Posters : due' = due \cup tasks
    /\ UNCHANGED <<buf, tail, sending, slot, bits, event, ready, poster, posted,
                   received, fate, clash, eofs>>

----------------------------------------------------------------------------
(* RioEvent::on_event_complete dequeues the completion, which makes room   *)
(* in the request queue, and then runs the handler of the event.  A send   *)
(* that failed is tried again, a failed multicast is lost.                 *)
SendCompletes ==
    /\ slot = "send"
    /\ slot' = "none"
    /\ sending' = [sending EXCEPT !.stage = "handled"]
    /\ received' = received \o sending.packets
    /\ UNCHANGED <<buf, tail, bits, event, ready, main, poster, due, posted, fate, clash, eofs>>

SendFails ==
    /\ slot = "send"
    /\ slot' = "none"
    /\ sending' = [stage |-> "handled", packets |-> <<>>]
    /\ UNCHANGED <<buf, tail, bits, event, ready, main, poster, due, posted, received, fate, clash, eofs>>

(* pop, with the rewind of an empty buffer, and on_complete                *)
SendPopsAll ==      \* mutant: what was pushed during the send goes with it
    /\ sending.stage = "handled"
    /\ buf' = <<>> /\ tail' = 0
    /\ sending' = [stage |-> "idle", packets |-> <<>>]
    /\ UNCHANGED <<slot, bits, event, ready, main, poster, due, posted, received, fate, clash, eofs>>

SendHandled ==
    /\ sending.stage = "handled"
    /\ buf' = SubSeq(buf, Len(sending.packets) + 1, Len(buf))
    /\ tail' = IF buf' = <<>> THEN 0 ELSE tail
    /\ sending' = [stage |-> "idle", packets |-> <<>>]
    /\ UNCHANGED <<slot, bits, event, ready, main, poster, due, posted, received, fate, clash, eofs>>

MulticastCompletes(e) ==
    /\ slot = e
    /\ slot' = "none"
    /\ received' = Append(received, event[e].packet)
    /\ event' = [event EXCEPT ![e].stage = "handled"]
    /\ UNCHANGED <<buf, tail, sending, bits, ready, main, poster, due, posted, fate, clash, eofs>>

MulticastFails(e) ==
    /\ slot = e
    /\ slot' = "none"
    /\ fate' = Dropped(e)
    /\ event' = [event EXCEPT ![e].stage = "handled"]
    /\ UNCHANGED <<buf, tail, sending, bits, ready, main, poster, due, posted, received, clash, eofs>>

MulticastHandled(e) ==
    /\ event[e].stage = "handled"
    /\ event' = FreeBegin(e)
    /\ UNCHANGED <<buf, tail, sending, slot, bits, ready, main, poster, due, posted,
                   received, fate, clash, eofs>>

(* eof: on_error disconnects, but the event is neither freed nor made idle. *)
CompletesWithEof ==
    /\ slot # "none" /\ eofs < MaxEofs
    /\ eofs' = eofs + 1
    /\ slot' = "none"
    /\ IF slot = "send"
       THEN sending' = [sending EXCEPT !.stage = "over"] /\ UNCHANGED <<event, fate>>
       ELSE /\ event' = [event EXCEPT ![slot].stage = "over"]
            /\ fate' = Dropped(slot)
            /\ UNCHANGED sending
    /\ UNCHANGED <<buf, tail, bits, ready, main, poster, due, posted, received, clash>>

PostAny(p) == \E size \in {Small, Big} : Post(p, size)
Flush == FlushSend \/ FlushSwap \/ FlushPost \/ FlushFree \/ FlushFreed \/ FlushEnd
Complete == \/ SendCompletes \/ SendFails \/ SendHandled \/ CompletesWithEof
            \/ \E e \in Events : MulticastCompletes(e) \/ MulticastFails(e) \/ MulticastHandled(e)

Next ==
    \/ \E p \in Posters : PostAny(p) \/ PoolTake(p) \/ PoolTaken(p) \/ PoolEmpty(p)
    \/ Flush \/ Complete
    \/ \E e \in Events : FreeEnd(e)

Spec == Init /\ [][Next]_ioVars

(* The main loop goes on, what was posted completes, and a send that is    *)
(* tried again and again succeeds in the end.                              *)
FairSpec ==
    /\ Spec
    /\ WF_ioVars(Flush)
    /\ \A p \in Posters : WF_ioVars(PoolTake(p) \/ PoolEmpty(p)) /\ WF_ioVars(PoolTaken(p))
    /\ WF_ioVars(SendHandled) /\ SF_ioVars(SendCompletes)
    /\ \A e \in Events : /\ WF_ioVars(MulticastCompletes(e)) /\ WF_ioVars(MulticastHandled(e))
                         /\ WF_ioVars(FreeEnd(e))

----------------------------------------------------------------------------
(* Properties.                                                              *)

(* Buffer, queue, pool and posters keep their shape. *)
TypeOK ==
    /\ Elements(buf) \subseteq Packet /\ Elements(received) \subseteq Packet
    /\ tail \in 0 .. Capacity
    /\ sending.stage \in {"idle", "posted", "handled", "over"}
    /\ Elements(sending.packets) \subseteq Packet
    /\ slot \in Events \cup {"none", "send"}
    /\ bits \subseteq Events
    /\ event \in [Events -> [stage : {"free", "ready", "posted", "handled", "freed", "over"},
                             packet : Packet \cup {NoPacket}, seen : SUBSET Events]]
    /\ Elements(ready) \cup Elements(main.list) \subseteq Events
    /\ main.stage \in {"send", "swap", "post", "free"}
    /\ poster \in [Posters -> [stage : {"idle", "lock", "store"}, packet : Packet \cup {NoPacket},
                               event : Events \cup {"none"}, seen : SUBSET Events]]
    /\ due \subseteq Posters
    /\ posted \in [Posters -> 0 .. MaxPosts]
    /\ fate \in [refused : SUBSET Packet, waited : SUBSET Packet, dropped : SUBSET Packet]
    /\ clash \in BOOLEAN /\ eofs \in 0 .. MaxEofs

(* An event is never handed out while it is in use, and a freed one can be *)
(* handed out again, although the free does not take the lock: with the    *)
(* one event that num_of_multicast_events gives each connection.           *)
PoolIsConsistent ==
    /\ ~clash
    /\ \A e \in Events :
         /\ e \in bits => event[e].stage = "free" \/ \E p \in Posters : poster[p].event = e
         /\ event[e].stage = "free" => e \in bits

Waiting(packet) ==
    \/ \E p \in Posters : poster[p].packet = packet
    \/ \E e \in Events : event[e].stage \in {"ready", "posted"} /\ event[e].packet = packet

(* A packet arrives once, was refused, was dropped, or still waits, and no *)
(* two of these, through every mix of both ways, failures and eofs.        *)
NothingVanishes ==
    \A p \in Posters : \A n \in 1 .. posted[p] :
        LET packet == [by |-> p, n |-> n]
            arrived == {i \in DOMAIN received : received[i] = packet}
            inBuffer == /\ packet \in Elements(buf)
                        /\ ~(sending.stage = "handled" /\ packet \in Elements(sending.packets))
        IN  Cardinality(arrived) + Cardinality({k \in {"refused", "dropped"} : packet \in fate[k]})
              + (IF inBuffer THEN 1 ELSE 0) + (IF Waiting(packet) THEN 1 ELSE 0) = 1

(* world.cpp:184-185: "the client dose not allow to send block datas       *)
(* before level initialization completed".  The code does not keep this    *)
(* for what reaches the client.                                            *)
LevelArrivesFirst ==
    \A i \in DOMAIN received :
        received[i].by = Leveler /\ received[i].n > 1
            => \E j \in 1 .. i - 1 : received[j] = [by |-> Leveler, n |-> 1]

(* Whatever a client does short of ending the connection, its event comes  *)
(* back and the next level, block or chat multicast finds one.             *)
EventComesBack ==
    \A e \in Events : []<>(event[e].stage \in {"free", "over"})

=============================================================================
