---------------------------- MODULE ReceivePath ----------------------------
(***************************************************************************)
(* What one client sends, up to the packet handlers.  TCP delivers a byte  *)
(* stream cut anywhere; the main loop posts one receive at a time into the *)
(* free end of the receive buffer; an I/O thread takes the completion,     *)
(* handles the whole packets of the buffer in place and moves what is left *)
(* of the last one to the front, before it clears is_processing and the    *)
(* main loop may post again.                                               *)
(*                                                                         *)
(* A byte is <<i, j>>: byte j of the i-th packet the client sent.          *)
(***************************************************************************)
EXTENDS Integers, Sequences, FiniteSets

CONSTANTS
    Kinds,          \* packets a client sends; "junk" has an unknown id
    Size,           \* protocol_db: the size of a packet, 0 of an unknown id
    Capacity,       \* tcp_recv_buffer_size
    Room,           \* max_size_of_packet_struct(), less than the largest packet
    Counts,         \* extension counts a client announces
    CountMod,       \* values of the unsigned pending_extension_count
    MaxPackets,     \* bound: packets the client sends
    MaxFailures     \* bound: receives that end with eof or an error

Lengths == {Size[k] : k \in Kinds}

ReceiveAssumption ==
    /\ Size \in [Kinds -> Nat]
    /\ Capacity \in Nat /\ Room \in 1 .. Capacity
    /\ \A n \in Lengths : n > 0 => n - 1 + Room <= Capacity
    /\ CountMod \in Nat \ {0} /\ Counts \subseteq Int
    /\ MaxPackets \in Nat /\ MaxFailures \in Nat

(* A client announces fewer extensions than the counter has values, and     *)
(* does not send more entries than it takes to count around the counter.   *)
CountsFit ==
    \A c \in Counts \cup {0} : MaxPackets - CountMod < c /\ c < CountMod

VARIABLES
    sent,       \* packets the client has sent
    wire,       \* bytes on their way
    mem,        \* the receive buffer's memory
    size,       \* its _size
    busy,       \* is_processing
    op,         \* the posted receive: none, posted, arrived or over; where
                \* it writes and how much it wrote
    handler,    \* the I/O thread with the completion, what it has consumed
    err,        \* last_error_code: success, insufficient, invalid
    life,       \* online, leaving (the world tears the player down), offline
    player,     \* the player of the connection
    handled,    \* first bytes of the packets handled, in their order
    failures

receiveVars == <<sent, wire, mem, size, busy, op, handler, err, life, player, handled, failures>>

NoReceive == [stage |-> "none", at |-> 0, n |-> 0]
NoPlayer == [known |-> FALSE, pending |-> 0, registered |-> FALSE, synced |-> FALSE]

Init ==
    /\ sent = <<>> /\ wire = <<>>
    /\ mem = [i \in 1 .. Capacity |-> <<0, 0>>] /\ size = 0
    /\ busy = FALSE /\ op = NoReceive /\ handler = [stage |-> "idle", cur |-> 0]
    /\ err = "success" /\ life = "online"
    /\ player = NoPlayer /\ handled = <<>> /\ failures = 0

(* A client says hello, pings, announces its extensions or sends an entry, *)
(* or a byte that begins no packet (external).                             *)
Content == [kind : Kinds \ {"info"}, count : {0}] \cup [kind : {"info"} \cap Kinds, count : Counts]

Width(kind) == IF Size[kind] = 0 THEN 1 ELSE Size[kind]

ClientSends(packet) ==
    /\ Len(sent) < MaxPackets
    /\ sent' = Append(sent, packet)
    /\ wire' = wire \o [j \in 1 .. Width(packet.kind) |-> <<Len(sent) + 1, j>>]
    /\ UNCHANGED <<mem, size, busy, op, handler, err, life, player, handled, failures>>

----------------------------------------------------------------------------
(* flush_receive and IoRecvEvent::post_rio_event: the receive goes to the  *)
(* end of the data, as far as the buffer reaches.                          *)
PostReceive ==
    /\ ~busy /\ Capacity - size >= Room
    /\ busy' = TRUE
    /\ op' = [stage |-> "posted", at |-> size, n |-> 0]
    /\ UNCHANGED <<sent, wire, mem, size, handler, err, life, player, handled, failures>>

(* Some bytes arrive (external): a socket writes at most what was offered. *)
Arrives(n) ==
    /\ op.stage = "posted" /\ n \in 1 .. Len(wire) /\ n <= Capacity - op.at
    /\ mem' = [i \in 1 .. Capacity |-> IF i \in op.at + 1 .. op.at + n
                                       THEN wire[i - op.at] ELSE mem[i]]
    /\ wire' = SubSeq(wire, n + 1, Len(wire))
    /\ op' = [op EXCEPT !.stage = "arrived", !.n = n]
    /\ UNCHANGED <<sent, size, busy, handler, err, life, player, handled, failures>>

(* on_event_complete: the size grows and process_packets starts at begin(); *)
(* the data of an offline connection stays where it is.                    *)
HandleBegin ==
    /\ op.stage = "arrived" /\ handler.stage = "idle"
    /\ size' = size + op.n
    /\ op' = NoReceive
    /\ handler' = [stage |-> IF life = "offline" THEN "popped" ELSE "parse", cur |-> 0]
    /\ UNCHANGED <<sent, wire, mem, busy, err, life, player, handled, failures>>

----------------------------------------------------------------------------
(* The handlers of GameServer, as far as they keep state of the player: a  *)
(* handshake makes a new one, whoever was there before.                    *)
Greeted == [NoPlayer EXCEPT !.known = TRUE]

(* set_extension_count takes the signed count of the packet for unsigned.  *)
ExtensionsAnnounced(count) == [player EXCEPT !.pending = count % CountMod]

CountEntryLate ==   \* mutant: tested before it is decreased
    [player EXCEPT !.pending = (@ - 1) % CountMod, !.registered = TRUE,
                   !.synced = @ \/ player.pending = 0]

CountEntry ==
    [player EXCEPT !.pending = (@ - 1) % CountMod, !.registered = TRUE,
                   !.synced = @ \/ (player.pending - 1) % CountMod = 0]

HandlePacket(packet) ==
    CASE packet.kind = "hello"                -> Greeted
      [] packet.kind = "info" /\ player.known  -> ExtensionsAnnounced(packet.count)
      [] packet.kind = "entry" /\ player.known -> CountEntry
      [] OTHER                                -> player

(* parse_packet looks at the byte under the cursor alone.                  *)
AtCursor == mem[handler.cur + 1]
KindAtCursor == sent[AtCursor[1]].kind

FitsAny(kind) == TRUE   \* mutant: a packet that was cut is handled
Fits(kind) == Size[kind] <= size - handler.cur

(* process_packets: one turn of its loop, and what ends it.                *)
HandleOne ==
    /\ handler.stage = "parse" /\ handler.cur < size
    /\ Size[KindAtCursor] > 0 /\ Fits(KindAtCursor)
    /\ player' = HandlePacket(sent[AtCursor[1]])
    /\ handled' = Append(handled, AtCursor)
    /\ handler' = [handler EXCEPT !.cur = @ + Size[KindAtCursor]]
    /\ UNCHANGED <<sent, wire, mem, size, busy, op, err, life, failures>>

HandleEndEarly ==   \* mutant: the event is free before the data has moved
    /\ handler.stage = "parse" /\ handler.cur < size
    /\ Size[KindAtCursor] > 0 /\ ~Fits(KindAtCursor)
    /\ handler' = [handler EXCEPT !.stage = "pop"]
    /\ err' = "insufficient" /\ busy' = FALSE
    /\ UNCHANGED <<sent, wire, mem, size, op, life, player, handled, failures>>

HandleEnd ==
    /\ handler.stage = "parse"
    /\ \/ handler.cur = size /\ err' = err
       \/ handler.cur < size /\ Size[KindAtCursor] = 0 /\ err' = "invalid"
       \/ /\ handler.cur < size /\ Size[KindAtCursor] > 0 /\ ~Fits(KindAtCursor)
          /\ err' = "insufficient"
    /\ handler' = [handler EXCEPT !.stage = "pop"]
    /\ UNCHANGED <<sent, wire, mem, size, busy, op, life, player, handled, failures>>

(* pop: what is left moves to the front.                                   *)
LeftInPlace(n) == mem   \* mutant: it stays where it is
MovedAhead(n) == [i \in 1 .. Capacity |-> IF i <= size - n THEN mem[i + n] ELSE mem[i]]

Pop ==
    /\ handler.stage = "pop"
    /\ mem' = MovedAhead(handler.cur)
    /\ size' = size - handler.cur
    /\ handler' = [stage |-> "popped", cur |-> 0]
    /\ UNCHANGED <<sent, wire, busy, op, err, life, player, handled, failures>>

(* Connection::disconnect: a player whose handshake has begun is left to   *)
(* the world, which turns the connection offline later (GameSession).      *)
Disconnect ==
    IF life = "online"
    THEN life' \in IF player.known THEN {"leaving", "offline"} ELSE {"offline"}
    ELSE life' = life

(* on_complete: an error kicks, and stays in last_error_code.              *)
Complete ==
    /\ handler.stage = "popped"
    /\ busy' = FALSE
    /\ handler' = [stage |-> "idle", cur |-> 0]
    /\ IF err = "invalid" THEN Disconnect /\ err' = err
                          ELSE err' = "success" /\ life' = life
    /\ UNCHANGED <<sent, wire, mem, size, op, player, handled, failures>>

(* A failed receive completes without data; eof disconnects and leaves the *)
(* event busy.                                                             *)
ReceiveFails ==
    /\ op.stage = "posted" /\ handler.stage = "idle" /\ failures < MaxFailures
    /\ failures' = failures + 1
    /\ op' = NoReceive
    /\ handler' = [stage |-> "popped", cur |-> 0]
    /\ UNCHANGED <<sent, wire, mem, size, busy, err, life, player, handled>>

ReceiveEof ==
    /\ op.stage = "posted" /\ failures < MaxFailures
    /\ failures' = failures + 1
    /\ op' = [op EXCEPT !.stage = "over"]
    /\ Disconnect
    /\ UNCHANGED <<sent, wire, mem, size, busy, handler, err, player, handled>>

(* Another thread kicks the client: a timeout, or its login elsewhere.     *)
Kicked ==
    /\ life = "online" /\ failures < MaxFailures
    /\ failures' = failures + 1
    /\ Disconnect
    /\ UNCHANGED <<sent, wire, mem, size, busy, op, handler, err, player, handled>>

TurnsOffline ==
    /\ life = "leaving" /\ life' = "offline"
    /\ UNCHANGED <<sent, wire, mem, size, busy, op, handler, err, player, handled, failures>>

Deliver == \E n \in 1 .. Capacity : Arrives(n)
Handle == HandleBegin \/ HandleOne \/ HandleEnd \/ Pop \/ Complete

Next ==
    \/ \E packet \in Content : ClientSends(packet)
    \/ PostReceive \/ Deliver \/ Handle
    \/ ReceiveFails \/ ReceiveEof \/ Kicked \/ TurnsOffline

Spec == Init /\ [][Next]_receiveVars

(* The main loop keeps flushing receives, TCP delivers and I/O threads run. *)
FairSpec ==
    /\ Spec
    /\ WF_receiveVars(PostReceive) /\ WF_receiveVars(Deliver) /\ WF_receiveVars(Handle)

----------------------------------------------------------------------------
(* Properties.                                                             *)

(* The buffer, the event and the player keep their shape; the size never   *)
(* passes the capacity, which push only asserts (io_event.cpp:171).        *)
TypeOK ==
    /\ \A i \in DOMAIN sent : sent[i] \in Content
    /\ Len(sent) <= MaxPackets
    /\ size \in 0 .. Capacity /\ DOMAIN mem = 1 .. Capacity
    /\ busy \in BOOLEAN
    /\ op.stage \in {"none", "posted", "arrived", "over"}
    /\ op.at \in 0 .. Capacity /\ op.n \in 0 .. Capacity - op.at
    /\ handler.stage \in {"idle", "parse", "pop", "popped"} /\ handler.cur \in 0 .. size
    /\ err \in {"success", "insufficient", "invalid"}
    /\ life \in {"online", "leaving", "offline"}
    /\ player \in [known : BOOLEAN, pending : 0 .. CountMod - 1, registered : BOOLEAN,
                   synced : BOOLEAN]

(* However the stream is cut, each packet is handled once, in the order it *)
(* was sent, from its first byte on, and none after an unknown id.         *)
HandledInOrder ==
    /\ \A k \in DOMAIN handled : handled[k] = <<k, 1>> /\ Size[sent[k].kind] > 0

(* A receive that is under way writes behind the data: what the handler    *)
(* moves ahead is never overwritten, and nothing moves under a receive.    *)
WritesBehindData == op.stage \in {"posted", "arrived"} => op.at = size

(* When the event is free a receive can be posted: the cut packet that is  *)
(* left over never uses up the room that post_rio_event asks for.          *)
NeverStarved ==
    ~busy /\ err # "invalid" /\ life # "offline" => Capacity - size >= Room

(* extension_synced is entered when as many entries as the client had      *)
(* announced have come, and never by counting down from zero, which wraps. *)
KindOf(k) == sent[handled[k][1]].kind
Announced(k) == sent[handled[k][1]].count
SyncedWhenAnnounced ==
    player.synced <=>
        \E i \in DOMAIN handled :
            /\ KindOf(i) = "info" /\ Announced(i) > 0
            /\ \E h \in 1 .. i : KindOf(h) = "hello"
            /\ \A h \in i .. Len(handled) : KindOf(h) # "hello"
            /\ \E j \in i .. Len(handled) :
                 /\ \A k \in i + 1 .. j : KindOf(k) # "info"
                 /\ Cardinality({k \in i + 1 .. j : KindOf(k) = "entry"}) = Announced(i)

(* What a well-behaved client sends is handled in the end: the handler     *)
(* catches up with it again and again, until something goes wrong.         *)
Disturbed == failures > 0 \/ \E i \in DOMAIN sent : Size[sent[i].kind] = 0
EverythingHandled == []<>(Disturbed \/ Len(handled) = Len(sent))

=============================================================================
