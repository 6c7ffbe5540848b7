---------------------------- MODULE PositionSync ----------------------------
(***************************************************************************)
(* Player positions: what the clients of spawned players are told of each  *)
(* other by the spawn packets and by World::sync_player_position, which    *)
(* sends a position as it is (absolute) or as its difference to the last   *)
(* transferred one (relative).                                             *)
(*                                                                         *)
(* A position has two coordinates and an orientation; the third coordinate *)
(* of the code is treated as x is.  Widths are scaled down: a coordinate   *)
(* is an integer modulo CoordMod (16 bits), a relative one modulo ByteMod  *)
(* (8 bits), and the code's threshold of 32 is Threshold: a relative x of  *)
(* at most that fits a byte.                                               *)
(***************************************************************************)
EXTENDS Integers, FiniteSets

CONSTANTS
    Players,
    Movers,     \* bound: the players whose clients report positions
    Targets,    \* positions a client may report
    SpawnPoint, \* spawn_position()
    CoordMod, ByteMod, Threshold

Zero == [x |-> 0, z |-> 0, o |-> 0]
Coord == 0 .. CoordMod - 1
Position == [x : Coord, z : Coord, o : 0 .. 1]

PositionAssumption ==
    /\ CoordMod \in Nat \ {0} /\ ByteMod \in Nat \ {0} /\ Threshold \in Nat
    /\ 2 * Threshold < ByteMod
    /\ Targets \subseteq Position /\ SpawnPoint \in Position

VARIABLES
    spawned,        \* players in state spawned
    latest,         \* _gamedata.latest_pos
    transferred,    \* _last_transferred_pos
    tmp,            \* _last_transferred_pos_tmp
    sync,           \* the position task: its packets and who has yet to get them
    view,           \* client -> player -> where the client shows it
    drift           \* pairs <<client, player>> that lost track, by a named cause

vars == <<spawned, latest, transferred, tmp, sync, view, drift>>

Unseen == [x |-> -1, z |-> -1, o |-> -1]
NoSync == [to |-> {}, packets |-> <<>>, got |-> {}]

Init ==
    /\ spawned = {}
    /\ latest = [p \in Players |-> Zero]
    /\ transferred = [p \in Players |-> Zero]
    /\ tmp = [p \in Players |-> Zero]
    /\ sync = NoSync
    /\ view = [c \in Players |-> [p \in Players |-> Unseen]]
    /\ drift = {}

----------------------------------------------------------------------------
(* The representative of n modulo m next to zero: a signed integer         *)
Signed(n, m) == ((n + m \div 2) % m) - m \div 2
Magnitude(n) == IF n < 0 THEN -n ELSE n

(* PlayerPosition::operator- *)
Minus(a, b) == [x |-> Signed(a.x - b.x, CoordMod), z |-> Signed(a.z - b.z, CoordMod),
                o |-> (a.o - b.o) % 2]

(* The test for an absolute move asks for x, y and y again: never for z.   *)
Far(d) == Magnitude(d.x) > Threshold

(* PacketSetPlayerPosition::serialize, for one player; cut says that a     *)
(* byte did not hold the relative z (history).                             *)
Packet(now, last) ==
    LET d == Minus(now, last)
        coordinate == d.x # 0 \/ d.z # 0
        Made(kind, pos) == [kind |-> kind, pos |-> pos,
                            cut |-> kind \in {"position", "coordinate"} /\ Signed(d.z, ByteMod) # d.z]
        relative == [x |-> d.x % ByteMod, z |-> d.z % ByteMod, o |-> now.o]
    IN  CASE Far(d)                             -> Made("absolute", now)
          [] ~Far(d) /\ coordinate /\ d.o # 0   -> Made("position", relative)
          [] ~Far(d) /\ coordinate /\ d.o = 0   -> Made("coordinate", relative)
          [] ~coordinate /\ d.o # 0             -> Made("orientation", now)
          [] ~coordinate /\ d.o = 0             -> Made("none", now)

(* A client applies a packet to what it shows. *)
Apply(v, packet) ==
    LET moved == [x |-> (v.x + Signed(packet.pos.x, ByteMod)) % CoordMod,
                  z |-> (v.z + Signed(packet.pos.z, ByteMod)) % CoordMod, o |-> v.o]
    IN  IF v = Unseen THEN v ELSE
        CASE packet.kind = "absolute"      -> packet.pos
          [] packet.kind = "position"      -> [moved EXCEPT !.o = packet.pos.o]
          [] packet.kind = "coordinate"    -> moved
          [] packet.kind = "orientation"   -> [v EXCEPT !.o = packet.pos.o]
          [] packet.kind = "none"          -> v

----------------------------------------------------------------------------
(* handle_player_position_packet: the client reports where it is. *)
Move(p, pos) ==
    /\ p \in spawned /\ latest[p] # pos
    /\ latest' = [latest EXCEPT ![p] = pos]
    /\ UNCHANGED <<spawned, transferred, tmp, sync, view, drift>>

(* PacketSpawnPlayer::serialize: where a spawn packet shows a player; a    *)
(* position whose bits are all zero counts as none.                        *)
ShownAt(p) == IF latest[p] = Zero THEN SpawnPoint ELSE latest[p]

(* World::spawn_player.  A new player the packets are refused to is not    *)
(* spawned, but the others are told of it all the same; an old player they *)
(* are refused to does not learn of the new ones.                          *)
Spawn(new) ==
    /\ new # {} /\ new \subseteq Players \ spawned
    /\ \E entered \in SUBSET new, informed \in SUBSET spawned :
         LET learns(c, p) == \/ c \in entered /\ p \in spawned \cup new
                             \/ c \in informed /\ p \in new
             told == {cp \in Players \X Players : learns(cp[1], cp[2])}
         IN  /\ spawned' = spawned \cup entered
             /\ view' = [c \in Players |-> [p \in Players |->
                           IF <<c, p>> \in told THEN ShownAt(p) ELSE view[c][p]]]
             \* the next difference is taken to another position, or from one
             \* that the task running now may yet replace
             /\ drift' = (drift \ told) \cup
                         {cp \in told : ShownAt(cp[2]) # transferred[cp[2]] \/ sync # NoSync}
    /\ UNCHANGED <<latest, transferred, tmp, sync>>

(* World::sync_player_position: select and serialize ... *)
Serialize ==
    /\ sync = NoSync /\ spawned # {}
    /\ sync' = [to |-> spawned, got |-> {},
                packets |-> [p \in spawned |-> Packet(latest[p], transferred[p])]]
    /\ tmp' = [p \in Players |-> IF p \in spawned THEN latest[p] ELSE tmp[p]]
    /\ UNCHANGED <<spawned, latest, transferred, view, drift>>

(* ... then, player by player, multicast; a success commits the position   *)
(* of the player that received the packets.                                *)
Received(c) == view' = [view EXCEPT ![c] = [p \in Players |->
                          IF p \in DOMAIN sync.packets THEN Apply(view[c][p], sync.packets[p])
                                                       ELSE view[c][p]]]

CommitLatest(c) == transferred' = [transferred EXCEPT ![c] = latest[c]]     \* mutant
CommitTmp(c) == transferred' = [transferred EXCEPT ![c] = tmp[c]]

MulticastTo(c) ==
    /\ c \in sync.to
    /\ CommitTmp(c)
    /\ Received(c)
    /\ sync' = [sync EXCEPT !.to = @ \ {c}, !.got = @ \cup {c}]
    /\ UNCHANGED <<spawned, latest, tmp, drift>>

MulticastRefused(c) ==
    /\ c \in sync.to
    /\ sync' = [sync EXCEPT !.to = @ \ {c}]
    /\ UNCHANGED <<spawned, latest, transferred, tmp, view, drift>>

(* The end of the task.  A pair loses track when the packet moved one of   *)
(* the two only (the client missed it, or the player itself did and its    *)
(* next difference starts again from the old position), and when a byte    *)
(* cut off its z; an absolute packet brings it back.                       *)
SyncEnd ==
    LET moved == {p \in DOMAIN sync.packets : sync.packets[p].kind # "none"}
        Lost(c, p) == /\ p \in moved
                      /\ \/ (c \in sync.got) # (p \in sync.got)
                         \/ c \in sync.got /\ sync.packets[p].cut
        Found(c, p) == /\ p \in moved /\ sync.packets[p].kind = "absolute"
                       /\ c \in sync.got /\ p \in sync.got
    IN  /\ sync # NoSync /\ sync.to = {}
        /\ drift' = {cp \in drift : ~Found(cp[1], cp[2])}
                      \cup {cp \in Players \X Players : Lost(cp[1], cp[2])}
        /\ sync' = NoSync
        /\ UNCHANGED <<spawned, latest, transferred, tmp, view>>

Next ==
    \/ \E p \in Movers, pos \in Targets : Move(p, pos)
    \/ \E new \in SUBSET Players : Spawn(new)
    \/ Serialize \/ SyncEnd
    \/ \E c \in Players : MulticastTo(c) \/ MulticastRefused(c)

Spec == Init /\ [][Next]_vars

----------------------------------------------------------------------------
(* Properties.                                                              *)

(* Positions, packets and views keep their shape. *)
TypeOK ==
    /\ spawned \subseteq Players
    /\ latest \in [Players -> Position]
    /\ transferred \in [Players -> Position] /\ tmp \in [Players -> Position]
    /\ sync.to \subseteq DOMAIN sync.packets /\ sync.got \subseteq DOMAIN sync.packets
    /\ DOMAIN sync.packets \subseteq Players
    /\ \A p \in DOMAIN sync.packets :
          sync.packets[p] \in [kind : {"absolute", "position", "coordinate", "orientation", "none"},
                              pos : Position, cut : BOOLEAN]
    /\ view \in [Players -> [Players -> Position \cup {Unseen}]]
    /\ drift \subseteq Players \X Players

(* Between two runs of the task a client shows a player where the server   *)
(* last transferred it, through every mixture of absolute and relative     *)
(* packets, moves, refused multicasts and new players, unless one of the   *)
(* named causes of drift hit the pair since the last absolute packet.      *)
ViewFollows ==
    sync = NoSync => \A c, p \in Players :
        \/ view[c][p] \in {Unseen, transferred[p]}
        \/ <<c, p>> \in drift

=============================================================================
