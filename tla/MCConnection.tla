---------------------------- MODULE MCConnection ----------------------------
(* Small instances of what moves the bytes of one connection: its send      *)
(* buffer (buffer), its send and multicast events with the pool they come   *)
(* from (io), and its receives (receive).  The three work on separate       *)
(* state, ConnectionIO with the buffer abstracted to whole packets, so a    *)
(* behaviour of this module is a behaviour of one of them; the others keep  *)
(* their initial state.                                                     *)
EXTENDS SendBuffer, Sequences

CONSTANTS Posters, Leveler, Events, MaxPosts, MaxEofs,      \* io
          Kinds, Size, Room, Counts, CountMod,              \* receive
          MaxPackets, MaxFailures

VARIABLES
    part,
    buf, ioTail, sending, slot, bits, event, ready, main, poster, due, ioPosted, received,
    fate, clash, eofs,
    clientSent, wire, mem, size, busy, op, handler, err, life, player, handled, failures

IO == INSTANCE ConnectionIO WITH Small <- 1, Big <- 3, tail <- ioTail, posted <- ioPosted
Receive == INSTANCE ReceivePath WITH sent <- clientSent

(* The values of the small instance: the sizes of the packets, with a junk  *)
(* byte that begins none, and the counts a client announces.                *)
SizeOf == [k \in Kinds |-> CASE k = "hello" -> 3 [] k = "ping" -> 1 [] k = "junk" -> 0
                             [] OTHER -> 2]
CountValues == {-1, 1}

ASSUME ConnectionAssumption == IO!IOAssumption /\ Receive!ReceiveAssumption
ASSUME CountAssumption == Receive!CountsFit

ioVars == <<buf, ioTail, sending, slot, bits, event, ready, main, poster, due, ioPosted,
            received, fate, clash, eofs>>
receiveVars == <<clientSent, wire, mem, size, busy, op, handler, err, life, player, handled,
                 failures>>
allVars == <<part, vars, ioVars, receiveVars>>

ConnectionInit == part \in {"buffer", "io", "receive"} /\ Init /\ IO!Init /\ Receive!Init

OnBuffer(A) == part = "buffer" /\ A /\ UNCHANGED <<part, ioVars, receiveVars>>
OnIO(A) == part = "io" /\ A /\ UNCHANGED <<part, vars, receiveVars>>
OnReceive(A) == part = "receive" /\ A /\ UNCHANGED <<part, vars, ioVars>>

ConnectionNext == OnBuffer(Next) \/ OnIO(IO!Next) \/ OnReceive(Receive!Next)

(* The fairness of the parts, as their FairSpecs state it.                  *)
ConnectionSpec ==
    /\ ConnectionInit /\ [][ConnectionNext]_allVars
    /\ WF_vars(OnBuffer(Post)) /\ SF_vars(OnBuffer(PopHead))
    /\ WF_vars(OnBuffer(PopReset)) /\ WF_vars(OnBuffer(PopRewind))
    /\ WF_vars(OnBuffer(OnComplete))
    /\ WF_ioVars(OnIO(IO!Flush)) /\ WF_ioVars(OnIO(IO!SendHandled))
    /\ SF_ioVars(OnIO(IO!SendCompletes))
    /\ \A p \in Posters : /\ WF_ioVars(OnIO(IO!PoolTake(p) \/ IO!PoolEmpty(p)))
                          /\ WF_ioVars(OnIO(IO!PoolTaken(p)))
    /\ \A e \in Events : /\ WF_ioVars(OnIO(IO!MulticastCompletes(e)))
                         /\ WF_ioVars(OnIO(IO!MulticastHandled(e)))
                         /\ WF_ioVars(OnIO(IO!FreeEnd(e)))
    /\ WF_receiveVars(OnReceive(Receive!PostReceive))
    /\ WF_receiveVars(OnReceive(Receive!Deliver)) /\ WF_receiveVars(OnReceive(Receive!Handle))

----------------------------------------------------------------------------
(* The properties of the parts; those of SendBuffer are named as they are.  *)

(* An event of the pool is marked free exactly while nobody uses it. *)
PoolIsConsistent == part = "io" => IO!PoolIsConsistent
(* A packet is in the client's hands, under way, or accounted for. *)
NothingVanishes == part = "io" => IO!NothingVanishes
(* A multicast's event comes back to the pool. *)
EventComesBack == IO!EventComesBack

(* The packets handled are those sent, whole and in order. *)
HandledInOrder == part = "receive" => Receive!HandledInOrder
(* A receive always has room to make progress. *)
NeverStarved == part = "receive" => Receive!NeverStarved
(* A player counts as synced after the entries it announced. *)
SyncedWhenAnnounced == part = "receive" => Receive!SyncedWhenAnnounced
(* What a well-behaved client sends is handled in the end. *)
EverythingHandled == Receive!EverythingHandled

=============================================================================
