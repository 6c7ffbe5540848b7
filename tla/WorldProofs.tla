----------------------------- MODULE WorldProofs ----------------------------
(***************************************************************************)
(* The world of the game server, for any number of players and of steps of *)
(* its tasks: what the server finds after a crash, for worlds of every     *)
(* size and any number of crashes; who shows whom while the tasks of the   *)
(* world interleave with each other and with disconnects; and what becomes *)
(* of the records that packet handlers push into the double buffers of the *)
(* block and the chat task; where clients show players while packets carry *)
(* their positions and the differences between them; and what becomes of a *)
(* user's game data while logins, kicks, loads and saves interleave.       *)
(***************************************************************************)
EXTENDS MCWorld, FiniteSetTheorems, TLAPS

----------------------------------------------------------------------------
(* The files.                                                              *)
Fresh == [i \in Spots |-> FlatWorld(i)]
Current == [i \in Spots |-> IF i \in changes THEN "changed" ELSE FlatWorld(i)]

(* How far the two files have come, by the step of the server.  A crash    *)
(* that leaves an empty metadata file is the one that is not made good;    *)
(* as long as there is none, the block file is whole whenever there is     *)
(* metadata.                                                               *)
Progress ==
    /\ pc \in {"down", "blocks", "fill", "metadata", "write", "load", "serve"}
    /\ metadata \in {"absent", "empty", "whole"} /\ torn \in BOOLEAN
    /\ size \in Sizes /\ changes \subseteq Spots
    /\ blocks = [made |-> blocks.made, header |-> blocks.header, cells |-> blocks.cells]
    /\ torn => metadata = "empty"
    /\ metadata = "empty" => torn \/ pc = "write"
    /\ pc = "write" => metadata = "empty" /\ ~torn
    /\ pc \in {"blocks", "fill", "metadata"} => metadata = "absent"
    /\ pc \in {"load", "serve"} => metadata # "absent"
    /\ metadata # "whole" => changes = {}
    /\ pc = "metadata" \/ metadata # "absent" => blocks.cells = Current
    /\ loaded = IF pc = "serve" /\ metadata = "whole" THEN Volume ELSE 0

(* Progress holds when there are no files. *)
LEMMA InitProgress == Init => Progress
<1> SUFFICES ASSUME Init PROVE Progress
  OBVIOUS
<1> QED
  BY DEF Init, Progress, NoFile

(* Products of positive numbers are positive. *)
LEMMA PositiveProduct == \A a, b \in Nat \ {0} : a * b \in Nat \ {0}
  OBVIOUS

(* The followed blocks lie in the world. *)
LEMMA SpotsAreNumbers ==
  ASSUME WorldFilesAssumption, size \in Sizes
  PROVE  Spots \subseteq Nat
<1>1. \A i \in 1 .. 3 : size[i] \in Nat \ {0}
  BY DEF WorldFilesAssumption
<1>2. size[1] * size[2] \in Nat \ {0} /\ Plane \in Nat \ {0}
  BY <1>1, PositiveProduct DEF Plane
<1>3. Volume \in Nat \ {0}
  BY <1>1, <1>2, PositiveProduct DEF Volume
<1>4. size[2] \div 2 \in Nat
  BY <1>1
<1>5. Dirt \in Nat
  BY <1>2, <1>4 DEF Dirt
<1> QED
  BY <1>2, <1>3, <1>5 DEF Spots

(* Every step keeps the files in step with the server. *)
LEMMA NextProgress ==
  ASSUME WorldFilesAssumption, Progress, [Next]_vars
  PROVE  Progress'
<1> USE DEF Progress
<1>0. ASSUME UNCHANGED size
      PROVE  /\ Spots' = Spots /\ Volume' = Volume
             /\ changes' = changes => Current' = Current
             /\ changes = {} => Current = Fresh
  BY <1>0 DEF Spots, Volume, Plane, Dirt, FlatWorld, Current, Fresh
<1>1. CASE Start
  BY <1>0, <1>1 DEF Start
<1>2. CASE OpenBlocks
  BY <1>0, <1>2 DEF OpenBlocks, NoFile
<1>3. CASE FillBlocks
  BY <1>0, <1>3 DEF FillBlocks, Fresh
<1>4. CASE OpenMetadata
  BY <1>0, <1>4 DEF OpenMetadata
<1>5. CASE WriteMetadata
  BY <1>0, <1>5 DEF WriteMetadata
<1>6. CASE LoadWorld
  BY <1>0, <1>6 DEF LoadWorld
<1>7. ASSUME NEW i \in Spots, ChangeBlock(i) PROVE Progress'
  <2>1. Spots' = Spots /\ Volume' = Volume /\ metadata # "absent"
    BY <1>0, <1>7 DEF ChangeBlock
  <2>2. metadata = "whole"
    BY <1>7, SpotsAreNumbers DEF ChangeBlock, HeaderSize
  <2>3. Current' = [Current EXCEPT ![i] = "changed"]
    BY <1>7, <2>1 DEF ChangeBlock, Current, FlatWorld, Plane, Dirt
  <2>4. blocks'.cells = [blocks.cells EXCEPT ![i] = "changed"]
    BY <1>7 DEF ChangeBlock
  <2> QED
    BY <1>7, <2>1, <2>2, <2>3, <2>4 DEF ChangeBlock
<1>8. CASE Crash
  BY <1>0, <1>8 DEF Crash
<1>9. CASE UNCHANGED vars
  BY <1>0, <1>9 DEF vars
<1> QED
  BY <1>1, <1>2, <1>3, <1>4, <1>5, <1>6, <1>7, <1>8, <1>9 DEF Next

(* What the server serves after any number of crashes is the whole world   *)
(* with every change, unless a crash left an empty metadata file; then it  *)
(* serves a world without volume.                                          *)
THEOREM WorldIsServedWhole ==
  ASSUME WorldFilesAssumption PROVE Spec => []WorldSurvives
<1>1. Progress => WorldSurvives
  BY DEF Progress, WorldSurvives, Current
<1> QED
  BY InitProgress, NextProgress, <1>1, PTL DEF Spec

----------------------------------------------------------------------------
(* The views.  A player that is on its way out.                            *)
Gone(p) == player[p].cur \in {Views!disconnecting, Views!disconnected}

(* What a client shows of a player, but for a refused send.                *)
Shown(c, p) == p \in known[c] \/ <<c, p>> \in unseen

(* An old player is yet to be told of a new one.                           *)
Pending(c, p) ==
    /\ c \in spawn.about /\ p \in spawn.target
    /\ spawn.stage = "new" \/ (spawn.stage = "old" /\ c \in spawn.todo)

(* The way of a player through its states, and what the queues hold.       *)
Lives ==
    \A p \in Players :
        /\ player[p].cur \in {Views!level_initialized, Views!spawning, Views!spawned} \/ Gone(p)
        /\ Gone(p) => player[p].next = Views!disconnected
        /\ ~Gone(p) => /\ player[p].online
                       /\ player[p].next = IF player[p].cur = Views!level_initialized
                                           THEN Views!level_initialized ELSE Views!spawned
        /\ player[p].cur \in {Views!level_initialized, Views!spawning} => known[p] = {}
        /\ player[p].cur = Views!disconnecting /\ p \notin skipped
               => player[p].prev = Views!spawned
        /\ p \in spawn.queue => player[p].cur = Views!spawning \/ (Gone(p) /\ p \in skipped)
        /\ p \in leave.queue \cup leave.target => Gone(p)

(* Whom the tasks work on.                                                 *)
Turns ==
    /\ spawn.stage \in {"unused", "new", "old"} /\ leave.stage \in {"unused", "despawn", "save"}
    /\ \A p \in spawn.target : player[p].cur \in {Views!spawning, Views!spawned} \/ Gone(p)
    /\ \A p \in spawn.about : player[p].cur = Views!spawned \/ Gone(p)
    /\ spawn.queue \cap spawn.target = {}
    /\ spawn.stage = "unused" => spawn.target = {} /\ spawn.about = {}
    /\ spawn.stage = "new" => \A p \in spawn.todo :
          p \in spawn.target /\ (player[p].cur = Views!spawning \/ (Gone(p) /\ p \in skipped))
    /\ spawn.stage = "old" => spawn.todo \subseteq spawn.about
    /\ spawn.stage # "unused" => Views!InWorld \subseteq spawn.about \cup spawn.target
    /\ leave.stage = "unused" => leave.target = {}
    /\ \A p \in leave.target \ leave.about : p \in skipped \/ player[p].cur = Views!disconnected
    /\ leave.stage = "save" => leave.todo \subseteq leave.target
    /\ leave.about \subseteq leave.target

(* Spawned players show each other, or are about to; and so do those that  *)
(* were when the position task began.                                      *)
Seen ==
    /\ \A c \in Views!InWorld : \A p \in Players :
          p \in Views!InWorld \/ (p \in spawn.target /\ ~Gone(p))
              => Shown(c, p) \/ Pending(c, p)
    /\ \A c \in move.todo, p \in move.about : Views!Online(c) /\ ~Gone(p)
           => Shown(c, p) \/ Pending(c, p)

(* Client c is yet to be told that p has left.                             *)
Leaving(c, p) ==
    \/ /\ p \notin leave.target /\ player[p].prev = Views!spawned
       /\ (Views!Online(p) /\ player[p].cur = Views!disconnecting) \/ p \in leave.queue
    \/ p \in leave.about /\ leave.stage = "despawn" /\ c \in leave.todo

Departing ==
    \A c \in Views!InWorld : \A p \in known[c] \ skipped :
        <<c, p>> \notin unseen \cup overlap =>
            player[p].cur \in {Views!spawning, Views!spawned} \/ (Gone(p) /\ Leaving(c, p))

Strays == \A cp \in stray : cp \in unseen \cup overlap

Watching == Views!TypeOK /\ Lives /\ Turns /\ Seen /\ Departing /\ Strays

----------------------------------------------------------------------------
(* The states, and the two operations on them.                             *)
LEMMA StateFacts ==
  /\ Views!disconnecting = 1 /\ Views!disconnected = 2 /\ Views!handshaking = 4
  /\ Views!level_initializing = 10 /\ Views!level_initialized = 11 /\ Views!spawning = 12
  /\ Views!spawned = 13
  /\ Views!States = 0 .. 13
  BY DEF Views!disconnecting, Views!disconnected, Views!handshaking, Views!level_initializing,
         Views!level_initialized, Views!spawning, Views!spawned, Views!States, Views!invaild

Player == [prev : Views!States, cur : Views!States, next : Views!States, online : BOOLEAN]
Work == [stage : {"unused", "new", "old", "despawn", "save", "send"},
         queue : SUBSET Players, target : SUBSET Players,
         about : SUBSET Players, todo : SUBSET Players]

(* What the types of the views say, variable by variable.                  *)
LEMMA ViewTypes ==
  ASSUME Views!TypeOK
  PROVE  /\ player \in [Players -> Player] /\ known \in [Players -> SUBSET Players]
         /\ spawn \in Work /\ leave \in Work /\ move \in Work
         /\ unseen \subseteq Players \X Players /\ overlap \subseteq Players \X Players
         /\ stray \subseteq Players \X Players /\ skipped \subseteq Players
  BY DEF Views!TypeOK, Player, Work

(* ... and back.                                                           *)
LEMMA ViewTyped ==
  ASSUME player \in [Players -> Player], known \in [Players -> SUBSET Players],
         spawn \in Work, leave \in Work, move \in Work,
         unseen \subseteq Players \X Players, overlap \subseteq Players \X Players,
         stray \subseteq Players \X Players, skipped \subseteq Players
  PROVE  Views!TypeOK
  BY DEF Views!TypeOK, Player, Work

(* PlayerState::prepare_state_transition remembers the current state.      *)
LEMMA PrepareFacts ==
  ASSUME NEW s \in Player, NEW x \in Views!States, NEW y \in Views!States
  PROVE  /\ Views!PrepareStateTransition(s, x, y) \in Player
         /\ Views!PrepareStateTransition(s, x, y).prev = s.cur
         /\ Views!PrepareStateTransition(s, x, y).cur = x
         /\ Views!PrepareStateTransition(s, x, y).next = y
         /\ Views!PrepareStateTransition(s, x, y).online = s.online
<1>1. PICK r : r = Views!PrepareStateTransition(s, x, y)
  OBVIOUS
<1>2. r = [prev |-> s.cur, cur |-> x, next |-> y, online |-> s.online]
  BY <1>1 DEF Views!PrepareStateTransition, Player
<1>3. s.cur \in Views!States /\ s.online \in BOOLEAN
  BY DEF Player
<1>4. /\ r \in Player
      /\ r.prev = s.cur
      /\ r.cur = x
      /\ r.next = y
      /\ r.online = s.online
  BY <1>2, <1>3 DEF Player
<1> QED
  BY <1>1, <1>4

(* PlayerState::transit_state takes the prepared state.                    *)
LEMMA TransitFacts ==
  ASSUME NEW s \in Player
  PROVE  /\ Views!TransitState(s) \in Player
         /\ Views!TransitState(s).prev = s.cur
         /\ Views!TransitState(s).cur = s.next
         /\ Views!TransitState(s).next = s.next
         /\ Views!TransitState(s).online = s.online
<1>1. PICK r : r = Views!TransitState(s)
  OBVIOUS
<1>2. r = [prev |-> s.cur, cur |-> s.next, next |-> s.next, online |-> s.online]
  BY <1>1 DEF Views!TransitState, Player
<1>3. s.cur \in Views!States /\ s.next \in Views!States /\ s.online \in BOOLEAN
  BY DEF Player
<1>4. /\ r \in Player
      /\ r.prev = s.cur
      /\ r.cur = s.next
      /\ r.next = s.next
      /\ r.online = s.online
  BY <1>2, <1>3 DEF Player
<1> QED
  BY <1>1, <1>4

(* A connection that goes offline leaves the state of its player.          *)
LEMMA OfflineFacts ==
  ASSUME NEW s \in Player
  PROVE  /\ [s EXCEPT !.online = FALSE] \in Player
         /\ [s EXCEPT !.online = FALSE].prev = s.prev
         /\ [s EXCEPT !.online = FALSE].cur = s.cur
         /\ [s EXCEPT !.online = FALSE].next = s.next
         /\ ~[s EXCEPT !.online = FALSE].online
<1>1. PICK r : r = [s EXCEPT !.online = FALSE]
  OBVIOUS
<1>2. r = [prev |-> s.prev, cur |-> s.cur, next |-> s.next, online |-> FALSE]
  BY <1>1 DEF Player
<1>3. s.cur \in Views!States /\ s.next \in Views!States /\ s.prev \in Views!States
  BY DEF Player
<1>4. /\ r \in Player
      /\ r.prev = s.prev
      /\ r.cur = s.cur
      /\ r.next = s.next
      /\ ~r.online
  BY <1>2, <1>3 DEF Player
<1> QED
  BY <1>1, <1>4

(* One player's record replaced.                                           *)
LEMMA OneChanges ==
  ASSUME player \in [Players -> Player], NEW q \in Players, NEW r \in Player,
         player' = [player EXCEPT ![q] = r]
  PROVE  /\ player' \in [Players -> Player] /\ player'[q] = r
         /\ \A p \in Players : p # q => player'[p] = player[p]
  OBVIOUS

(* Everyone is about to enter the world and shows no one.                  *)
LEMMA InitWatching == Views!Init => Watching
<1> SUFFICES ASSUME Views!Init PROVE Watching
  OBVIOUS
<1>1. Views!TypeOK
  BY StateFacts DEF Views!Init, Views!NoTask, Views!TypeOK
<1>2. \A p \in Players : /\ player[p].cur = Views!level_initialized
                         /\ player[p].next = Views!level_initialized
                         /\ player[p].online /\ known[p] = {}
  BY DEF Views!Init
<1>3. \A p \in Players : ~Gone(p) /\ p \notin Views!InWorld
  BY <1>2, StateFacts DEF Gone, Views!InWorld
<1>4. /\ spawn.queue = {} /\ spawn.target = {} /\ spawn.about = {} /\ spawn.todo = {}
      /\ spawn.stage = "unused" /\ leave.stage = "unused"
      /\ leave.queue = {} /\ leave.target = {} /\ leave.about = {} /\ leave.todo = {}
      /\ move.todo = {} /\ stray = {}
  BY DEF Views!Init, Views!NoTask
<1>5. Lives
  BY <1>2, <1>3, <1>4, StateFacts DEF Lives
<1>6. Turns
  BY <1>4 DEF Turns
<1>7. Seen /\ Departing /\ Strays
  BY <1>3, <1>4 DEF Seen, Departing, Strays, Views!InWorld
<1> QED
  BY <1>1, <1>5, <1>6, <1>7 DEF Watching

----------------------------------------------------------------------------
(* Steps that leave the players alone, or the tasks.                       *)
LEMMA PlayersStay ==
  ASSUME UNCHANGED player
  PROVE  /\ Views!InWorld' = Views!InWorld
         /\ \A p : (Gone(p)' <=> Gone(p)) /\ (Views!Online(p)' <=> Views!Online(p))
  BY DEF Views!InWorld, Gone, Views!Online

(* Who is in the world: the spawned ones, all of them online.              *)
LEMMA WorldFacts ==
  ASSUME Views!TypeOK, Lives
  PROVE  \A p \in Players : /\ p \in Views!InWorld <=> player[p].cur = Views!spawned
                            /\ p \in Views!InWorld => ~Gone(p) /\ Views!Online(p)
                            /\ player[p].cur \in Nat /\ player[p].online \in BOOLEAN
  BY ViewTypes, StateFacts DEF Views!InWorld, Lives, Gone, Views!Online, Player

(* World::tick pushes a player to a task.                                  *)
LEMMA TickLeaveStep ==
  ASSUME Watching, NEW q \in Players, Views!TickLeave(q)
  PROVE  Watching'
<1> USE DEF Watching
<1>1. /\ leave'.stage = leave.stage /\ leave'.queue = leave.queue \cup {q}
      /\ leave'.target = leave.target /\ leave'.about = leave.about /\ leave'.todo = leave.todo
      /\ leave' \in Work
      /\ UNCHANGED <<player, spawn, move, known, unseen, skipped, overlap, stray>>
  BY ViewTypes DEF Views!TickLeave, Views!History, Work
<1>2. Gone(q)
  BY DEF Views!TickLeave, Gone
<1>3. Views!TypeOK'
  BY <1>1, ViewTypes DEF Views!TypeOK, Player, Work
<1>4. Lives'
  BY <1>1, <1>2, PlayersStay DEF Lives
<1>5. Turns'
  BY <1>1, PlayersStay DEF Turns
<1>6. Seen'
  BY <1>1, PlayersStay DEF Seen, Shown, Pending
<1>7. Departing'
  BY <1>1, PlayersStay DEF Departing, Leaving
<1>8. Strays'
  BY <1>1 DEF Strays
<1> QED
  BY <1>3, <1>4, <1>5, <1>6, <1>7, <1>8

(* ... a new player to the spawn task, which it awaits spawning.           *)
LEMMA TickSpawnStep ==
  ASSUME Watching, NEW q \in Players, Views!TickSpawn(q)
  PROVE  Watching'
<1> USE DEF Watching
<1>1. /\ spawn'.stage = spawn.stage /\ spawn'.queue = spawn.queue \cup {q}
      /\ spawn'.target = spawn.target /\ spawn'.about = spawn.about /\ spawn'.todo = spawn.todo
      /\ spawn' \in Work
      /\ UNCHANGED <<leave, move, known, unseen, skipped, overlap, stray>>
  BY ViewTypes DEF Views!TickSpawn, Views!History, Work
<1>2. /\ player[q].cur = Views!level_initialized /\ Views!Online(q)
      /\ player' = [player EXCEPT ![q] =
                      Views!PrepareStateTransition(@, Views!spawning, Views!spawned)]
  BY DEF Views!TickSpawn
<1>3. Views!spawning \in Views!States /\ Views!spawned \in Views!States
      /\ player \in [Players -> Player]
  BY StateFacts, ViewTypes
<1>4. /\ player' \in [Players -> Player]
      /\ player'[q].cur = Views!spawning /\ player'[q].next = Views!spawned
      /\ player'[q].online = player[q].online
      /\ \A p \in Players : p # q => player'[p] = player[p]
  <2>1. PICK r : r = Views!PrepareStateTransition(player[q], Views!spawning, Views!spawned)
    OBVIOUS
  <2>2. player[q] \in Player
    BY <1>3
  <2>3. r \in Player /\ r.cur = Views!spawning /\ r.next = Views!spawned
        /\ r.online = player[q].online
    BY <2>1, <2>2, <1>3, PrepareFacts
  <2>4. player' = [player EXCEPT ![q] = r]
    BY <1>2, <2>1
  <2> QED
    BY <1>3, <2>3, <2>4, OneChanges
<1>5. /\ ~Gone(q) /\ ~Gone(q)' /\ q \notin Views!InWorld /\ Views!InWorld' = Views!InWorld
      /\ \A p \in Players : (Gone(p)' <=> Gone(p)) /\ (Views!Online(p)' <=> Views!Online(p))
  <2>1. \A p \in Players : /\ player'[p].online = player[p].online
                           /\ p # q => player'[p].cur = player[p].cur
    BY <1>4
  <2>2. ~(player[q].cur >= Views!spawned) /\ ~(player'[q].cur >= Views!spawned)
    BY <1>2, <1>4, StateFacts
  <2>3. Views!InWorld' = Views!InWorld
    BY <2>1, <2>2 DEF Views!InWorld, Views!Online
  <2>4. ~Gone(q) /\ ~Gone(q)'
    BY <1>2, <1>4, StateFacts DEF Gone
  <2>5. \A p \in Players : (Gone(p)' <=> Gone(p)) /\ (Views!Online(p)' <=> Views!Online(p))
    BY <2>1, <2>4 DEF Gone, Views!Online
  <2> QED
    BY <2>2, <2>3, <2>4, <2>5 DEF Views!InWorld
<1>6. Views!TypeOK'
  BY <1>1, <1>4, ViewTypes DEF Views!TypeOK, Player, Work
<1>7. Lives'
  BY <1>1, <1>2, <1>4, <1>5, StateFacts DEF Lives, Views!Online
<1>8. Turns'
  <2>1. \A p \in spawn.target \cup spawn.about \cup leave.target : p # q
    BY <1>2, <1>5, StateFacts DEF Turns, Lives
  <2>2. \A p \in spawn.todo : spawn.stage = "new" => p # q
    BY <1>2, <1>5, StateFacts DEF Turns
  <2>3. \A p \in Players : p # q => (player'[p].cur = player[p].cur)
    BY <1>4
  <2>5. (spawn.queue \cup {q}) \cap spawn.target = {}
    BY <2>1 DEF Turns
  <2>4. /\ spawn.target \subseteq Players /\ spawn.about \subseteq Players
        /\ spawn.todo \subseteq Players /\ leave.target \subseteq Players
    BY ViewTypes DEF Work
  <2> QED
    BY <1>1, <2>1, <2>2, <2>3, <2>4, <2>5, <1>5 DEF Turns
<1>9. Seen'
  BY <1>1, <1>5, ViewTypes DEF Seen, Shown, Pending, Work
<1>10. Departing'
  <2> SUFFICES ASSUME NEW c \in Views!InWorld, NEW p \in known[c] \ skipped,
                      <<c, p>> \notin unseen \cup overlap
               PROVE  player'[p].cur \in {Views!spawning, Views!spawned}
                      \/ (Gone(p)' /\ Leaving(c, p)')
    BY <1>1, <1>5 DEF Departing
  <2>1. p \in Players /\ c \in Players
    BY ViewTypes DEF Views!InWorld
  <2>2. player[p].cur \in {Views!spawning, Views!spawned} \/ (Gone(p) /\ Leaving(c, p))
    BY DEF Departing
  <2>3. CASE p = q
    BY <1>4, <2>3
  <2>4. CASE p # q
    <3>1. player'[p] = player[p]
      BY <1>4, <2>1, <2>4
    <3> QED
      BY <1>1, <1>5, <2>1, <2>2, <3>1 DEF Leaving
  <2> QED
    BY <2>3, <2>4
<1>11. Strays'
  BY <1>1 DEF Strays
<1> QED
  BY <1>6, <1>7, <1>8, <1>9, <1>10, <1>11

(* The stages of the spawn task.                                           *)
LEMMA SpawnBeginStep ==
  ASSUME Watching, Views!SpawnBegin
  PROVE  Watching'
<1> USE DEF Watching
<1>1. /\ spawn.stage = "unused" /\ spawn'.stage = "new" /\ spawn'.queue = {}
      /\ spawn'.target = spawn.queue /\ spawn'.about = Views!InWorld
      /\ spawn'.todo = spawn.queue
      /\ UNCHANGED <<player, leave, move, known, unseen, skipped, overlap, stray>>
  BY DEF Views!SpawnBegin, Views!History
<1>2. spawn' \in Work /\ Views!InWorld \subseteq Players
  BY ViewTypes DEF Views!SpawnBegin, Work, Views!InWorld
<1>3. Views!TypeOK'
  BY <1>1, <1>2, ViewTypes DEF Views!TypeOK, Player, Work
<1>4. Lives'
  BY <1>1, PlayersStay DEF Lives
<1>5. Turns'
  <2>1. \A p \in spawn.queue : player[p].cur = Views!spawning \/ (Gone(p) /\ p \in skipped)
    BY ViewTypes DEF Lives, Work
  <2>2. \A p \in Views!InWorld : player[p].cur = Views!spawned
    BY WorldFacts DEF Views!InWorld
  <2> QED
    BY <1>1, <2>1, <2>2, PlayersStay DEF Turns
<1>6. spawn.target = {} /\ \A c, p : ~Pending(c, p)
  BY <1>1 DEF Turns, Pending
<1>7. Seen'
  BY <1>1, <1>6, PlayersStay DEF Seen, Shown, Pending
<1>8. Departing'
  BY <1>1, PlayersStay DEF Departing, Leaving
<1>9. Strays'
  BY <1>1 DEF Strays
<1> QED
  BY <1>3, <1>4, <1>5, <1>7, <1>8, <1>9

(* The new players are through: the old ones are next.                     *)
LEMMA SpawnTurnStep ==
  ASSUME Watching, Views!SpawnTurn
  PROVE  Watching'
<1> USE DEF Watching
<1>1. /\ spawn.stage = "new" /\ spawn'.stage = "old" /\ spawn'.queue = spawn.queue
      /\ spawn'.target = spawn.target /\ spawn'.about = spawn.about /\ spawn'.todo = spawn.about
      /\ spawn' \in Work
      /\ UNCHANGED <<player, leave, move, known, unseen, skipped, overlap, stray>>
  <2>1. PICK w : w = spawn.about
    OBVIOUS
  <2>2. spawn' = [spawn EXCEPT !.stage = "old", !.todo = w] /\ w \subseteq Players
    BY <2>1, ViewTypes DEF Views!SpawnTurn, Views!OldPlayers, Work
  <2> QED
    BY <2>1, <2>2, ViewTypes DEF Views!SpawnTurn, Views!History, Work
<1>2. Views!TypeOK'
  BY <1>1, ViewTypes DEF Views!TypeOK, Player, Work
<1>3. Lives'
  BY <1>1, PlayersStay DEF Lives
<1>4. Turns'
  BY <1>1, PlayersStay DEF Turns
<1>5. Seen'
  BY <1>1, PlayersStay DEF Seen, Shown, Pending
<1>6. Departing'
  BY <1>1, PlayersStay DEF Departing, Leaving
<1>7. Strays'
  BY <1>1 DEF Strays
<1> QED
  BY <1>2, <1>3, <1>4, <1>5, <1>6, <1>7

(* Nobody is left to be told.                                              *)
LEMMA SpawnEndStep ==
  ASSUME Watching, Views!SpawnEnd
  PROVE  Watching'
<1> USE DEF Watching
<1>1. /\ spawn.stage = "old" /\ spawn.todo = {} /\ spawn'.stage = "unused"
      /\ spawn'.queue = spawn.queue
      /\ spawn'.target = {} /\ spawn'.about = {} /\ spawn'.todo = {}
      /\ spawn' \in Work
      /\ UNCHANGED <<player, leave, move, known, unseen, skipped, overlap, stray>>
  BY ViewTypes DEF Views!SpawnEnd, Views!History, Work
<1>2. Views!TypeOK'
  BY <1>1, ViewTypes DEF Views!TypeOK, Player, Work
<1>3. Lives'
  BY <1>1, PlayersStay DEF Lives
<1>4. Turns'
  BY <1>1, PlayersStay DEF Turns
<1>5. \A c, p : ~Pending(c, p)
  BY <1>1 DEF Pending
<1>6. Seen'
  BY <1>1, <1>5, PlayersStay DEF Seen, Shown
<1>7. Departing'
  BY <1>1, PlayersStay DEF Departing, Leaving
<1>8. Strays'
  BY <1>1 DEF Strays
<1> QED
  BY <1>2, <1>3, <1>4, <1>6, <1>7, <1>8

(* The stages of the disconnect task.                                      *)
LEMMA LeaveBeginStep ==
  ASSUME Watching, Views!LeaveBegin
  PROVE  Watching'
<1> USE DEF Watching
<1>1. /\ leave.stage = "unused" /\ leave'.stage = "despawn" /\ leave'.queue = {}
      /\ leave'.target = leave.queue
      /\ leave'.about = {p \in leave.queue : player[p].prev >= Views!spawned}
      /\ leave'.todo = Views!InWorld
      /\ UNCHANGED <<player, spawn, move, known, unseen, skipped, overlap, stray>>
  BY DEF Views!LeaveBegin, Views!History, Views!WasSpawned
<1>2. leave' \in Work /\ Views!InWorld \subseteq Players
  BY ViewTypes DEF Views!LeaveBegin, Work, Views!InWorld
<1>3. Views!TypeOK'
  BY <1>1, <1>2, ViewTypes DEF Views!TypeOK, Player, Work
<1>4. leave.queue \subseteq Players /\ leave.target = {}
  BY <1>1, ViewTypes DEF Turns, Work
<1>5. Lives'
  BY <1>1, <1>4, PlayersStay DEF Lives
<1>6. Turns'
  <2>1. \A p \in leave'.target \ leave'.about :
          p \in skipped \/ player[p].cur = Views!disconnected
    <3> SUFFICES ASSUME NEW p \in leave.queue, ~(player[p].prev >= Views!spawned),
                        p \notin skipped
                 PROVE  player[p].cur = Views!disconnected
      BY <1>1
    <3>1. player[p].prev # Views!spawned
      BY StateFacts
    <3>2. Gone(p) /\ player[p].cur # Views!disconnecting
      BY <1>4, <3>1 DEF Lives
    <3> QED
      BY <3>2 DEF Gone
  <2> QED
    BY <1>1, <2>1, PlayersStay DEF Turns
<1>7. Seen'
  BY <1>1, PlayersStay DEF Seen, Shown, Pending
<1>8. Departing'
  <2> SUFFICES ASSUME NEW c \in Views!InWorld, NEW p \in known[c] \ skipped, Gone(p),
                      Leaving(c, p)
               PROVE  Leaving(c, p)'
    BY <1>1, PlayersStay DEF Departing
  <2>1. /\ player[p].prev = Views!spawned
        /\ (Views!Online(p) /\ player[p].cur = Views!disconnecting) \/ p \in leave.queue
    BY <1>1 DEF Leaving
  <2>2. CASE p \in leave.queue
    BY <1>1, <2>1, <2>2, StateFacts DEF Leaving
  <2>3. CASE p \notin leave.queue
    BY <1>1, <2>1, <2>3, PlayersStay DEF Leaving
  <2> QED
    BY <2>2, <2>3
<1>9. Strays'
  BY <1>1 DEF Strays
<1> QED
  BY <1>3, <1>5, <1>6, <1>7, <1>8, <1>9

(* Everyone was told, the saves begin.                                     *)
LEMMA LeaveTurnStep ==
  ASSUME Watching, Views!LeaveTurn
  PROVE  Watching'
<1> USE DEF Watching
<1>1. /\ leave.stage = "despawn" /\ leave.todo = {}
      /\ leave'.stage = "save" /\ leave'.queue = leave.queue
      /\ leave'.target = leave.target /\ leave'.about = leave.about
      /\ leave'.todo = leave.target
      /\ leave' \in Work
      /\ UNCHANGED <<player, spawn, move, known, unseen, skipped, overlap, stray>>
  <2>1. PICK w : w = leave.target
    OBVIOUS
  <2>2. leave' = [leave EXCEPT !.stage = "save", !.todo = w] /\ w \subseteq Players
    BY <2>1, ViewTypes DEF Views!LeaveTurn, Work
  <2> QED
    BY <2>1, <2>2, ViewTypes DEF Views!LeaveTurn, Views!History, Work
<1>2. Views!TypeOK'
  BY <1>1, ViewTypes DEF Views!TypeOK, Player, Work
<1>3. Lives'
  BY <1>1, PlayersStay DEF Lives
<1>4. Turns'
  BY <1>1, PlayersStay DEF Turns
<1>5. Seen'
  BY <1>1, PlayersStay DEF Seen, Shown, Pending
<1>6. Departing'
  BY <1>1, PlayersStay DEF Departing, Leaving
<1>7. Strays'
  BY <1>1 DEF Strays
<1> QED
  BY <1>2, <1>3, <1>4, <1>5, <1>6, <1>7

(* The disconnect task is through.                                         *)
LEMMA LeaveEndStep ==
  ASSUME Watching, Views!LeaveEnd
  PROVE  Watching'
<1> USE DEF Watching
<1>1. /\ leave.stage = "save" /\ leave'.stage = "unused" /\ leave'.queue = leave.queue
      /\ leave'.target = {} /\ leave'.about = {} /\ leave'.todo = leave.todo
      /\ leave' \in Work
      /\ UNCHANGED <<player, spawn, move, known, unseen, skipped, overlap, stray>>
  BY ViewTypes DEF Views!LeaveEnd, Views!History, Work
<1>2. Views!TypeOK'
  BY <1>1, ViewTypes DEF Views!TypeOK, Player, Work
<1>3. Lives'
  BY <1>1, PlayersStay DEF Lives
<1>4. Turns'
  BY <1>1, PlayersStay DEF Turns
<1>5. Seen'
  BY <1>1, PlayersStay DEF Seen, Shown, Pending
<1>6. Departing'
  BY <1>1, PlayersStay DEF Departing, Leaving
<1>7. Strays'
  BY <1>1 DEF Strays
<1> QED
  BY <1>2, <1>3, <1>4, <1>5, <1>6, <1>7

(* The stages of the position task.                                        *)
LEMMA MoveBeginStep ==
  ASSUME Watching, Views!MoveBegin
  PROVE  Watching'
<1> USE DEF Watching
<1>1. /\ move'.about = Views!InWorld /\ move'.todo = Views!InWorld /\ move' \in Work
      /\ UNCHANGED <<player, spawn, leave, known, unseen, skipped, overlap, stray>>
  <2>1. PICK w : w = Views!InWorld
    OBVIOUS
  <2>2. /\ move' = [move EXCEPT !.stage = "send", !.about = w, !.todo = w]
        /\ w \subseteq Players
        /\ UNCHANGED <<player, spawn, leave, known, unseen, skipped, overlap, stray>>
    BY <2>1, ViewTypes DEF Views!MoveBegin, Views!InWorld
  <2> QED
    BY <2>1, <2>2, ViewTypes DEF Work
<1>2. Views!TypeOK'
  BY <1>1, ViewTypes DEF Views!TypeOK, Player, Work
<1>3. Lives'
  BY <1>1, PlayersStay DEF Lives
<1>4. Turns'
  BY <1>1, PlayersStay DEF Turns
<1>5. Seen'
  BY <1>1, PlayersStay DEF Seen, Shown, Pending, Views!InWorld
<1>6. Departing'
  BY <1>1, PlayersStay DEF Departing, Leaving
<1>7. Strays'
  BY <1>1 DEF Strays
<1> QED
  BY <1>2, <1>3, <1>4, <1>5, <1>6, <1>7

(* The position task is through.                                           *)
LEMMA MoveEndStep ==
  ASSUME Watching, Views!MoveEnd
  PROVE  Watching'
<1> USE DEF Watching
<1>1. /\ move'.about = {} /\ move'.todo = {} /\ move' \in Work
      /\ UNCHANGED <<player, spawn, leave, known, unseen, skipped, overlap, stray>>
  BY ViewTypes DEF Views!MoveEnd, Views!History, Work
<1>2. Views!TypeOK'
  BY <1>1, ViewTypes DEF Views!TypeOK, Player, Work
<1>3. Lives'
  BY <1>1, PlayersStay DEF Lives
<1>4. Turns'
  BY <1>1, PlayersStay DEF Turns
<1>5. Seen'
  BY <1>1, PlayersStay DEF Seen, Shown, Pending
<1>6. Departing'
  BY <1>1, PlayersStay DEF Departing, Leaving
<1>7. Strays'
  BY <1>1 DEF Strays
<1> QED
  BY <1>2, <1>3, <1>4, <1>5, <1>6, <1>7

(* A send of the position task: whom it is about is shown already, unless  *)
(* a send was refused or another task is under way.                        *)
LEMMA MoveToStep ==
  ASSUME Watching, NEW c \in Players, Views!MoveTo(c)
  PROVE  Watching'
<1> USE DEF Watching
<1>1. /\ c \in move.todo /\ move'.about = move.about /\ move'.todo = move.todo \ {c}
      /\ move' \in Work
      /\ UNCHANGED <<player, spawn, leave, known, unseen, skipped>>
  BY ViewTypes DEF Views!MoveTo, Work
<1>2. /\ stray' \subseteq stray \cup (IF Views!Online(c)
                                      THEN {c} \X (move.about \ known[c]) ELSE {})
      /\ overlap' = overlap \cup {<<c, p>> : p \in {q \in move.about :
                                     spawn.stage # "unused" \/ player[q].cur < Views!spawned}}
  BY DEF Views!MoveTo
<1>3. move.about \subseteq Players
  BY ViewTypes DEF Work
<1>4. stray' \subseteq Players \X Players /\ overlap' \subseteq Players \X Players
      /\ overlap \subseteq overlap'
  BY <1>2, <1>3, ViewTypes
<1>5. Views!TypeOK'
  BY <1>1, <1>4, ViewTypes DEF Views!TypeOK, Player, Work
<1>6. Lives'
  BY <1>1, PlayersStay DEF Lives
<1>7. Turns'
  BY <1>1, PlayersStay DEF Turns
<1>8. Seen'
  BY <1>1, PlayersStay DEF Seen, Shown, Pending
<1>9. Departing'
  BY <1>1, <1>4, PlayersStay DEF Departing, Leaving
<1>10. Strays'
  <2> SUFFICES ASSUME NEW cp \in stray' PROVE cp \in unseen \cup overlap'
    BY <1>1 DEF Strays
  <2>1. CASE cp \in stray
    BY <2>1, <1>4 DEF Strays
  <2>2. CASE cp \notin stray
    <3>1. Views!Online(c)
      BY <1>2, <2>2
    <3>2. PICK p \in move.about : cp = <<c, p>> /\ p \notin known[c]
      BY <1>2, <2>2, <3>1
    <3>3. p \in Players
      BY <3>2, <1>3
    <3>4. CASE spawn.stage # "unused" \/ player[p].cur < Views!spawned
      BY <3>4, <1>2, <3>2
    <3>5. CASE spawn.stage = "unused" /\ ~(player[p].cur < Views!spawned)
      <4>1. ~Gone(p)
        BY <3>5, StateFacts DEF Gone
      <4>2. ~Pending(c, p)
        BY <3>5 DEF Pending, Turns
      <4>3. Shown(c, p)
        BY <1>1, <3>1, <3>2, <4>1, <4>2 DEF Seen
      <4> QED
        BY <4>3, <3>2 DEF Shown
    <3> QED
      BY <3>4, <3>5
  <2> QED
    BY <2>1, <2>2
<1> QED
  BY <1>5, <1>6, <1>7, <1>8, <1>9, <1>10

(* A departing player that a client is told of now, and that is not        *)
(* despawned yet, will be.                                                 *)
LEMMA ToldStays ==
  ASSUME Lives, Turns, NEW c, NEW p \in Players, p \notin skipped, Gone(p), ~Views!Despawned(p)
  PROVE  Leaving(c, p)
<1>1. player[p].cur = Views!disconnecting /\ p \notin leave.about
  BY DEF Gone, Views!Despawned
<1>2. player[p].prev = Views!spawned
  BY <1>1 DEF Lives
<1>3. player[p].cur # Views!disconnected
  BY <1>1, StateFacts
<1>4. p \notin leave.target
  BY <1>1, <1>3 DEF Turns
<1>5. Views!Online(p) \/ p \in leave.queue
  BY <1>4 DEF Views!Despawned
<1> QED
  BY <1>1, <1>2, <1>4, <1>5 DEF Leaving

(* A send of the spawn task.                                               *)
LEMMA ToldFacts ==
  ASSUME Views!TypeOK, NEW c \in Players, NEW about \in SUBSET Players,
         Views!ToldSpawn(c, about)
  PROVE  /\ known' \in [Players -> SUBSET Players] /\ known'[c] = known[c] \cup about
         /\ \A d \in Players : d # c => known'[d] = known[d]
         /\ overlap' \subseteq Players \X Players /\ overlap \subseteq overlap'
         /\ \A p \in about : Views!Despawned(p) => <<c, p>> \in overlap'
         /\ UNCHANGED unseen /\ Views!Online(c)
<1>1. /\ known' = [known EXCEPT ![c] = @ \cup about] /\ UNCHANGED unseen /\ Views!Online(c)
      /\ overlap' = overlap \cup {<<c, p>> : p \in {q \in about : Views!Despawned(q)}}
  BY DEF Views!ToldSpawn
<1> QED
  BY <1>1, ViewTypes

(* A refused send is remembered.                                           *)
LEMMA RefusedFacts ==
  ASSUME Views!TypeOK, NEW c \in Players, NEW about \in SUBSET Players, Views!Refused(c, about)
  PROVE  /\ UNCHANGED <<known, overlap>> /\ unseen' \subseteq Players \X Players
         /\ unseen \subseteq unseen' /\ \A p \in about : <<c, p>> \in unseen'
<1>1. unseen' = unseen \cup ({c} \X about) /\ UNCHANGED <<known, overlap>>
  BY DEF Views!Refused
<1> QED
  BY <1>1, ViewTypes

(* An old player is told of the new ones.                                  *)
LEMMA SpawnToOldStep ==
  ASSUME Watching, NEW c \in Players, Views!SpawnToOld(c)
  PROVE  Watching'
<1> USE DEF Watching
<1>1. /\ spawn.stage = "old" /\ c \in spawn.todo /\ spawn'.todo = spawn.todo \ {c}
      /\ spawn'.stage = "old" /\ spawn'.queue = spawn.queue
      /\ spawn'.target = spawn.target /\ spawn'.about = spawn.about
      /\ spawn' \in Work
      /\ UNCHANGED <<player, leave, move, skipped, stray>>
  BY ViewTypes DEF Views!SpawnToOld, Work
<1>2. spawn.target \in SUBSET Players /\ c \in spawn.about
  BY <1>1, ViewTypes DEF Work, Turns
<1>3. player[c].cur = Views!spawned \/ Gone(c)
  BY <1>2 DEF Turns
<1>4. Turns'
  BY <1>1, PlayersStay DEF Turns
<1>5. \A d, p : Pending(d, p)' <=> Pending(d, p) /\ d # c
  BY <1>1 DEF Pending
<1>6. \A p : Pending(c, p) => p \in spawn.target
  BY DEF Pending
<1>7. CASE Views!ToldSpawn(c, spawn.target)
  <2>1. /\ known' \in [Players -> SUBSET Players] /\ known'[c] = known[c] \cup spawn.target
        /\ \A d \in Players : d # c => known'[d] = known[d]
        /\ overlap' \subseteq Players \X Players /\ overlap \subseteq overlap'
        /\ \A p \in spawn.target : Views!Despawned(p) => <<c, p>> \in overlap'
        /\ UNCHANGED unseen
    BY <1>2, <1>7, ToldFacts
  <2>2. Views!TypeOK'
    BY <1>1, <2>1, ViewTypes DEF Views!TypeOK, Player, Work
  <2>3. Lives'
    <3>1. player[c].cur \notin {Views!level_initialized, Views!spawning}
      BY <1>3, StateFacts DEF Gone
    <3> QED
      BY <1>1, <2>1, <3>1, PlayersStay DEF Lives
  <2>4. \A d \in Players, p \in Players : Shown(d, p) \/ Pending(d, p)
            => Shown(d, p)' \/ Pending(d, p)'
    BY <2>1, <1>5, <1>6 DEF Shown
  <2>5. move.todo \subseteq Players /\ move.about \subseteq Players
        /\ Views!InWorld \subseteq Players
    BY ViewTypes DEF Work, Views!InWorld
  <2>6. Seen'
    BY <1>1, <2>4, <2>5, PlayersStay DEF Seen
  <2>7. Departing'
    <3> SUFFICES ASSUME NEW d \in Views!InWorld, NEW p \in known'[d] \ skipped,
                        <<d, p>> \notin unseen \cup overlap'
                 PROVE  player[p].cur \in {Views!spawning, Views!spawned}
                        \/ (Gone(p) /\ Leaving(d, p))
      BY <1>1, <2>1, PlayersStay DEF Departing, Leaving
    <3>1. CASE p \in known[d]
      BY <3>1, <2>1 DEF Departing
    <3>2. CASE p \notin known[d]
      <4>1. d = c /\ p \in spawn.target
        BY <3>2, <2>1, <2>5
      <4>2. p \in Players /\ ~Views!Despawned(p)
        BY <4>1, <2>1, <1>2
      <4>3. CASE Gone(p)
        BY <4>2, <4>3, ToldStays
      <4>4. CASE ~Gone(p)
        BY <4>1, <4>4 DEF Turns
      <4> QED
        BY <4>3, <4>4
    <3> QED
      BY <3>1, <3>2
  <2>8. Strays'
    BY <1>1, <2>1 DEF Strays
  <2> QED
    BY <1>4, <2>2, <2>3, <2>6, <2>7, <2>8
<1>8. CASE Views!Refused(c, spawn.target)
  <2>1. /\ UNCHANGED <<known, overlap>> /\ unseen' \subseteq Players \X Players
        /\ unseen \subseteq unseen' /\ \A p \in spawn.target : <<c, p>> \in unseen'
    BY <1>2, <1>8, RefusedFacts
  <2>2. Views!TypeOK'
    BY <1>1, <2>1, ViewTypes DEF Views!TypeOK, Player, Work
  <2>3. Lives'
    BY <1>1, <2>1, PlayersStay DEF Lives
  <2>4. \A d, p : Shown(d, p) \/ Pending(d, p) => Shown(d, p)' \/ Pending(d, p)'
    BY <2>1, <1>5, <1>6 DEF Shown
  <2>5. Seen'
    BY <1>1, <2>4, PlayersStay DEF Seen
  <2>6. Departing'
    BY <1>1, <2>1, PlayersStay DEF Departing, Leaving
  <2>7. Strays'
    BY <1>1, <2>1 DEF Strays
  <2> QED
    BY <1>4, <2>2, <2>3, <2>5, <2>6, <2>7
<1>9. CASE Views!Absent(c)
  <2>1. ~Views!Online(c) /\ UNCHANGED <<known, unseen, overlap>>
    BY <1>9 DEF Views!Absent
  <2>2. Views!TypeOK'
    BY <1>1, <2>1, ViewTypes DEF Views!TypeOK, Player, Work
  <2>3. Lives'
    BY <1>1, <2>1, PlayersStay DEF Lives
  <2>4. c \notin Views!InWorld
    BY <2>1 DEF Views!InWorld
  <2>5. \A d, p : d # c /\ (Shown(d, p) \/ Pending(d, p)) => Shown(d, p)' \/ Pending(d, p)'
    BY <2>1, <1>5 DEF Shown
  <2>6. Seen'
    BY <1>1, <2>1, <2>4, <2>5, PlayersStay DEF Seen
  <2>7. Departing'
    BY <1>1, <2>1, PlayersStay DEF Departing, Leaving
  <2>8. Strays'
    BY <1>1, <2>1 DEF Strays
  <2> QED
    BY <1>4, <2>2, <2>3, <2>6, <2>7, <2>8
<1> QED
  BY <1>7, <1>8, <1>9 DEF Views!SpawnToOld

(* A send of the disconnect task.                                          *)
LEMMA LeaveTellStep ==
  ASSUME Watching, NEW c \in Players, Views!LeaveTell(c)
  PROVE  Watching'
<1> USE DEF Watching
<1>1. /\ leave.stage = "despawn" /\ leave'.todo = leave.todo \ {c}
      /\ leave'.stage = "despawn" /\ leave'.queue = leave.queue
      /\ leave'.target = leave.target /\ leave'.about = leave.about
      /\ leave' \in Work
      /\ UNCHANGED <<player, spawn, move, skipped, stray>>
  BY ViewTypes DEF Views!LeaveTell, Work
<1>2. leave.about \in SUBSET Players /\ Views!InWorld \subseteq Players
  BY <1>1, ViewTypes DEF Work, Views!InWorld
<1>3. \A p \in leave.about : Gone(p) /\ p \notin Views!InWorld
  BY <1>2, WorldFacts DEF Lives, Turns
<1>4. Turns'
  BY <1>1, PlayersStay DEF Turns
<1>5. \A d, p : Pending(d, p)' <=> Pending(d, p)
  BY <1>1 DEF Pending
<1>6. \A d, p : Leaving(d, p) /\ (d # c \/ p \notin leave.about) => Leaving(d, p)'
  BY <1>1, PlayersStay DEF Leaving
<1>7. CASE Views!ToldDespawn(c, leave.about)
  <2>1. /\ known' \in [Players -> SUBSET Players] /\ known'[c] = known[c] \ leave.about
        /\ \A d \in Players : d # c => known'[d] = known[d]
        /\ UNCHANGED <<unseen, overlap>>
    BY <1>7, ViewTypes DEF Views!ToldDespawn
  <2>2. Views!TypeOK'
    BY <1>1, <2>1, ViewTypes DEF Views!TypeOK, Player, Work
  <2>3. Lives'
    BY <1>1, <2>1, PlayersStay DEF Lives
  <2>4. \A d \in Players : \A p : p \notin leave.about /\ (Shown(d, p) \/ Pending(d, p))
                                  => Shown(d, p)' \/ Pending(d, p)'
    BY <2>1, <1>5 DEF Shown
  <2>5. move.todo \subseteq Players
    BY ViewTypes DEF Work
  <2>6. Seen'
    BY <1>1, <1>2, <1>3, <2>4, <2>5, PlayersStay DEF Seen
  <2>7. Departing'
    <3> SUFFICES ASSUME NEW d \in Views!InWorld, NEW p \in known'[d] \ skipped,
                        <<d, p>> \notin unseen \cup overlap,
                        ~(player[p].cur \in {Views!spawning, Views!spawned})
                 PROVE  Gone(p) /\ Leaving(d, p)'
      BY <1>1, <2>1, PlayersStay DEF Departing
    <3>1. p \in known[d] /\ (d # c \/ p \notin leave.about)
      BY <2>1, <1>2
    <3> QED
      BY <3>1, <1>6 DEF Departing
  <2>8. Strays'
    BY <1>1, <2>1 DEF Strays
  <2> QED
    BY <1>4, <2>2, <2>3, <2>6, <2>7, <2>8
<1>8. CASE Views!Refused(c, leave.about)
  <2>1. /\ UNCHANGED <<known, overlap>> /\ unseen' \subseteq Players \X Players
        /\ unseen \subseteq unseen' /\ \A p \in leave.about : <<c, p>> \in unseen'
    BY <1>2, <1>8, RefusedFacts
  <2>2. Views!TypeOK'
    BY <1>1, <2>1, ViewTypes DEF Views!TypeOK, Player, Work
  <2>3. Lives'
    BY <1>1, <2>1, PlayersStay DEF Lives
  <2>5. Seen'
    BY <1>1, <1>5, <2>1, PlayersStay DEF Seen, Shown
  <2>6. Departing'
    BY <1>1, <1>6, <2>1, PlayersStay DEF Departing
  <2>7. Strays'
    BY <1>1, <2>1 DEF Strays
  <2> QED
    BY <1>4, <2>2, <2>3, <2>5, <2>6, <2>7
<1>9. CASE Views!Absent(c)
  <2>1. ~Views!Online(c) /\ UNCHANGED <<known, unseen, overlap>>
    BY <1>9 DEF Views!Absent
  <2>2. Views!TypeOK'
    BY <1>1, <2>1, ViewTypes DEF Views!TypeOK, Player, Work
  <2>3. Lives'
    BY <1>1, <2>1, PlayersStay DEF Lives
  <2>4. c \notin Views!InWorld
    BY <2>1 DEF Views!InWorld
  <2>6. Seen'
    BY <1>1, <1>5, <2>1, PlayersStay DEF Seen, Shown
  <2>7. Departing'
    BY <1>1, <1>6, <2>1, <2>4, PlayersStay DEF Departing
  <2>8. Strays'
    BY <1>1, <2>1 DEF Strays
  <2> QED
    BY <1>4, <2>2, <2>3, <2>6, <2>7, <2>8
<1> QED
  BY <1>7, <1>8, <1>9 DEF Views!LeaveTell

(* One player's record replaced, what the world makes of it.               *)
LEMMA MovedOn ==
  ASSUME Views!TypeOK, NEW q \in Players, NEW r \in Player, player' = [player EXCEPT ![q] = r],
         r.cur # Views!spawned, player[q].cur # Views!spawned,
         r.cur <= Views!spawned, player[q].cur <= Views!spawned
  PROVE  Views!InWorld' = Views!InWorld
<1>1. /\ player'[q] = r /\ \A p \in Players : p # q => player'[p] = player[p]
      /\ player[q].cur \in Views!States /\ r.cur \in Views!States
  BY ViewTypes, OneChanges DEF Player
<1>2. ~(player'[q].cur >= Views!spawned) /\ ~(player[q].cur >= Views!spawned)
  BY <1>1, StateFacts
<1> QED
  BY <1>1, <1>2 DEF Views!InWorld, Views!Online

(* World::tick drops the object of a disconnected player.                  *)
LEMMA TickGoneStep ==
  ASSUME Watching, NEW q \in Players, Views!TickGone(q)
  PROVE  Watching'
<1> USE DEF Watching
<1>1. /\ player[q].cur = Views!disconnected /\ Views!Online(q)
      /\ UNCHANGED <<spawn, leave, move, known, unseen, skipped, overlap, stray>>
  BY DEF Views!TickGone, Views!History
<1>2. PICK r : r = [player[q] EXCEPT !.online = FALSE]
  OBVIOUS
<1>3. player \in [Players -> Player] /\ player[q] \in Player
  BY ViewTypes
<1>4. /\ r \in Player /\ r.prev = player[q].prev /\ r.cur = player[q].cur
      /\ r.next = player[q].next /\ ~r.online
  BY <1>2, <1>3, OfflineFacts
<1>5. player' = [player EXCEPT ![q] = r]
  BY <1>2 DEF Views!TickGone
<1>6. /\ player' \in [Players -> Player] /\ player'[q] = r
      /\ \A p \in Players : p # q => player'[p] = player[p]
  BY <1>3, <1>4, <1>5, OneChanges
<1>7. Views!InWorld' = Views!InWorld
  <2>1. Views!TypeOK /\ r.cur # Views!spawned /\ player[q].cur # Views!spawned
        /\ r.cur <= Views!spawned /\ player[q].cur <= Views!spawned
    BY <1>1, <1>4, StateFacts
  <2> QED
    BY <1>4, <1>5, <2>1, MovedOn
<1>8. /\ Gone(q) /\ \A p \in Players :
           (Gone(p)' <=> Gone(p)) /\ (Views!Online(p)' => Views!Online(p))
      /\ \A p \in Players : /\ player'[p].cur = player[p].cur
                            /\ player'[p].prev = player[p].prev
                            /\ player'[p].next = player[p].next
                            /\ p # q => player'[p].online = player[p].online
  BY <1>1, <1>4, <1>6 DEF Gone, Views!Online
<1>9. Views!TypeOK'
  BY <1>1, <1>6, ViewTypes DEF Views!TypeOK, Player, Work
<1>10. Lives'
  BY <1>1, <1>8 DEF Lives
<1>11. Turns'
  <2>1. /\ spawn.target \subseteq Players /\ spawn.about \subseteq Players
        /\ spawn.todo \subseteq Players /\ leave.target \subseteq Players
    BY ViewTypes DEF Work
  <2> QED
    BY <1>1, <1>7, <1>8, <2>1 DEF Turns
<1>12. move.todo \subseteq Players /\ move.about \subseteq Players
  BY ViewTypes DEF Work
<1>13. Seen'
  BY <1>1, <1>7, <1>8, <1>12, ViewTypes DEF Seen, Shown, Pending, Work
<1>14. Departing'
  <2> SUFFICES ASSUME NEW c \in Views!InWorld, NEW p \in known[c] \ skipped,
                      <<c, p>> \notin unseen \cup overlap
               PROVE  player'[p].cur \in {Views!spawning, Views!spawned}
                      \/ (Gone(p)' /\ Leaving(c, p)')
    BY <1>1, <1>7 DEF Departing
  <2>1. p \in Players
    BY ViewTypes DEF Views!InWorld
  <2>2. player[p].cur \in {Views!spawning, Views!spawned} \/ (Gone(p) /\ Leaving(c, p))
    BY DEF Departing
  <2>3. player[q].cur # Views!disconnecting
    BY <1>1, StateFacts
  <2> QED
    BY <1>1, <1>8, <2>1, <2>2, <2>3 DEF Leaving, Views!Online
<1>15. Strays'
  BY <1>1 DEF Strays
<1> QED
  BY <1>9, <1>10, <1>11, <1>13, <1>14, <1>15

(* The disconnect task makes a player disconnected.                        *)
LEMMA LeaveSaveStep ==
  ASSUME Watching, NEW q \in Players, Views!LeaveSave(q)
  PROVE  Watching'
<1> USE DEF Watching
<1>1. /\ leave.stage = "save" /\ q \in leave.todo /\ leave'.todo = leave.todo \ {q}
      /\ leave'.stage = "save" /\ leave'.queue = leave.queue
      /\ leave'.target = leave.target /\ leave'.about = leave.about
      /\ leave' \in Work
      /\ UNCHANGED <<spawn, move, known, unseen, skipped, overlap, stray>>
  BY ViewTypes DEF Views!LeaveSave, Work, Views!History
<1>2. q \in leave.target /\ Gone(q) /\ player[q].next = Views!disconnected
  BY <1>1 DEF Turns, Lives
<1>3. PICK r : r = IF Views!Online(q) THEN Views!TransitState(player[q]) ELSE player[q]
  OBVIOUS
<1>4. player \in [Players -> Player] /\ player[q] \in Player
  BY ViewTypes
<1>5. /\ r \in Player /\ r.next = player[q].next /\ r.online = player[q].online
      /\ r.cur = Views!disconnected \/ r = player[q]
  BY <1>2, <1>3, <1>4, TransitFacts
<1>6. player' = [player EXCEPT ![q] = r]
  BY <1>3, <1>4 DEF Views!LeaveSave
<1>7. /\ player' \in [Players -> Player] /\ player'[q] = r
      /\ \A p \in Players : p # q => player'[p] = player[p]
  BY <1>4, <1>5, <1>6, OneChanges
<1>8. r.cur \in {Views!disconnecting, Views!disconnected}
  BY <1>2, <1>5 DEF Gone
<1>9. Views!InWorld' = Views!InWorld
  <2>1. Views!TypeOK /\ r.cur # Views!spawned /\ player[q].cur # Views!spawned
        /\ r.cur <= Views!spawned /\ player[q].cur <= Views!spawned
    BY <1>2, <1>8, StateFacts DEF Gone
  <2> QED
    BY <1>5, <1>6, <2>1, MovedOn
<1>10. /\ Gone(q)' /\ \A p \in Players :
            (Gone(p)' <=> Gone(p)) /\ (Views!Online(p)' <=> Views!Online(p))
       /\ \A p \in Players : /\ player'[p].online = player[p].online
                             /\ player'[p].next = player[p].next
                             /\ player[p].cur = Views!disconnected
                                    => player'[p].cur = Views!disconnected
                             /\ ~Gone(p) => player'[p] = player[p]
  BY <1>2, <1>5, <1>7, <1>8 DEF Gone, Views!Online
<1>11. Views!TypeOK'
  BY <1>1, <1>7, ViewTypes DEF Views!TypeOK, Player, Work
<1>12. Lives'
  <2> SUFFICES ASSUME NEW p \in Players
               PROVE  /\ \/ player'[p].cur \in {Views!level_initialized, Views!spawning, Views!spawned}
                         \/ Gone(p)'
                      /\ Gone(p)' => player'[p].next = Views!disconnected
                      /\ ~Gone(p)' => /\ player'[p].online
                                      /\ player'[p].next =
                                           IF player'[p].cur = Views!level_initialized
                                           THEN Views!level_initialized ELSE Views!spawned
                      /\ player'[p].cur \in {Views!level_initialized, Views!spawning}
                             => known[p] = {}
                      /\ player'[p].cur = Views!disconnecting /\ p \notin skipped
                             => player'[p].prev = Views!spawned
                      /\ p \in spawn.queue
                             => player'[p].cur = Views!spawning \/ (Gone(p)' /\ p \in skipped)
                      /\ p \in leave.queue \cup leave.target => Gone(p)'
    BY <1>1 DEF Lives
  <2>1. CASE player'[p] = player[p]
    BY <1>10, <2>1 DEF Lives
  <2>2. CASE player'[p] # player[p]
    <3>1. p = q /\ player'[q].cur = Views!disconnected
      BY <1>5, <1>7, <2>2
    <3>2. player'[q].cur \notin {Views!disconnecting, Views!level_initialized, Views!spawning}
      BY <3>1, StateFacts
    <3>3. q \in spawn.queue => q \in skipped
      BY <1>2, StateFacts DEF Lives, Gone
    <3> QED
      BY <1>2, <1>10, <3>1, <3>2, <3>3
  <2> QED
    BY <2>1, <2>2
<1>13. Turns'
  <2>1. /\ spawn.target \subseteq Players /\ spawn.about \subseteq Players
        /\ spawn.todo \subseteq Players /\ leave.target \subseteq Players
    BY ViewTypes DEF Work
  <2>2. \A p \in spawn.target : player'[p].cur \in {Views!spawning, Views!spawned} \/ Gone(p)'
    BY <1>10, <2>1 DEF Turns
  <2>3. \A p \in spawn.about : player'[p].cur = Views!spawned \/ Gone(p)'
    BY <1>10, <2>1 DEF Turns
  <2>4. spawn.stage = "new" => \A p \in spawn.todo :
          p \in spawn.target /\ (player'[p].cur = Views!spawning \/ (Gone(p)' /\ p \in skipped))
    <3>1. \A p \in Players : Gone(p) => player[p].cur # Views!spawning
      BY StateFacts DEF Gone
    <3> QED
      BY <1>10, <2>1, <3>1 DEF Turns
  <2>5. \A p \in leave.target \ leave.about :
          p \in skipped \/ player'[p].cur = Views!disconnected
    BY <1>10, <2>1 DEF Turns
  <2> QED
    BY <1>1, <1>9, <2>2, <2>3, <2>4, <2>5 DEF Turns
<1>14. move.todo \subseteq Players /\ move.about \subseteq Players
       /\ spawn.target \subseteq Players
  BY ViewTypes DEF Work
<1>15. Seen'
  BY <1>1, <1>9, <1>10, <1>14 DEF Seen, Shown, Pending
<1>16. Departing'
  <2> SUFFICES ASSUME NEW c \in Views!InWorld, NEW p \in known[c] \ skipped,
                      <<c, p>> \notin unseen \cup overlap
               PROVE  player'[p].cur \in {Views!spawning, Views!spawned}
                      \/ (Gone(p)' /\ Leaving(c, p)')
    BY <1>1, <1>9 DEF Departing
  <2>1. p \in Players
    BY ViewTypes DEF Views!InWorld
  <2>2. player[p].cur \in {Views!spawning, Views!spawned} \/ (Gone(p) /\ Leaving(c, p))
    BY DEF Departing
  <2>3. p # q
    <3>1. ~Leaving(c, q)
      BY <1>1, <1>2 DEF Leaving
    <3>2. player[q].cur \notin {Views!spawning, Views!spawned}
      BY <1>2, StateFacts DEF Gone
    <3> QED
      BY <2>2, <3>1, <3>2
  <2>4. player'[p] = player[p]
    BY <1>7, <2>1, <2>3
  <2> QED
    BY <1>1, <1>10, <2>1, <2>2, <2>4 DEF Leaving, Views!Online
<1>17. Strays'
  BY <1>1 DEF Strays
<1> QED
  BY <1>11, <1>12, <1>13, <1>15, <1>16, <1>17

(* Connection::disconnect.  The first one makes a player of the world      *)
(* disconnecting, whatever it was; the second takes it offline.            *)
LEMMA DisconnectStep ==
  ASSUME Watching, NEW q \in Players, Views!Disconnect(q)
  PROVE  Watching'
<1> USE DEF Watching
<1>1. Views!Online(q) /\ UNCHANGED <<spawn, leave, move, known, unseen, overlap, stray>>
  BY DEF Views!Disconnect
<1>2. /\ player \in [Players -> Player] /\ player[q] \in Player
      /\ Views!disconnecting \in Views!States /\ Views!disconnected \in Views!States
      /\ spawn.target \subseteq Players /\ spawn.about \subseteq Players
      /\ spawn.todo \subseteq Players /\ leave.target \subseteq Players
      /\ move.todo \subseteq Players /\ move.about \subseteq Players
  BY ViewTypes, StateFacts DEF Work
<1>3. CASE ~Gone(q)
  <2>1. player[q].cur \in {Views!level_initialized, Views!spawning, Views!spawned}
    BY <1>3 DEF Lives
  <2>2. PICK r : r = Views!PrepareStateTransition(player[q], Views!disconnecting,
                                                  Views!disconnected)
    OBVIOUS
  <2>3. /\ r \in Player /\ r.prev = player[q].cur /\ r.cur = Views!disconnecting
        /\ r.next = Views!disconnected
        /\ r.online = player[q].online
    BY <2>2, <1>2, PrepareFacts
  <2>4. /\ player' = [player EXCEPT ![q] = r]
        /\ skipped' = IF player[q].cur < Views!spawned THEN skipped \cup {q} ELSE skipped
    BY <2>1, <2>2, StateFacts DEF Views!Disconnect
  <2>5. /\ player' \in [Players -> Player] /\ player'[q] = r
        /\ \A p \in Players : p # q => player'[p] = player[p]
    BY <1>2, <2>3, <2>4, OneChanges
  <2>6. /\ Gone(q)' /\ \A p \in Players : /\ Gone(p)' <=> Gone(p) \/ p = q
                                          /\ Views!Online(p)' <=> Views!Online(p)
    BY <2>3, <2>5 DEF Gone, Views!Online
  <2>7. /\ skipped \subseteq skipped' /\ skipped' \subseteq skipped \cup {q}
        /\ player[q].cur # Views!spawned => q \in skipped'
    BY <2>1, <2>4, StateFacts
  <2>8. Views!InWorld' \subseteq Views!InWorld /\ q \notin Views!InWorld'
    <3>1. ~(player'[q].cur >= Views!spawned)
      BY <2>3, <2>5, StateFacts
    <3> QED
      BY <2>5, <3>1 DEF Views!InWorld, Views!Online
  <2>9. Views!TypeOK'
    BY <1>1, <1>2, <2>5, <2>7, ViewTypes DEF Views!TypeOK, Player, Work
  <2>10. Lives'
    <3> SUFFICES ASSUME NEW p \in Players
                 PROVE  /\ \/ player'[p].cur \in {Views!level_initialized, Views!spawning, Views!spawned}
                           \/ Gone(p)'
                        /\ Gone(p)' => player'[p].next = Views!disconnected
                        /\ ~Gone(p)' => /\ player'[p].online
                                        /\ player'[p].next =
                                             IF player'[p].cur = Views!level_initialized
                                             THEN Views!level_initialized ELSE Views!spawned
                        /\ player'[p].cur \in {Views!level_initialized, Views!spawning}
                               => known[p] = {}
                        /\ player'[p].cur = Views!disconnecting /\ p \notin skipped'
                               => player'[p].prev = Views!spawned
                        /\ p \in spawn.queue =>
                              player'[p].cur = Views!spawning \/ (Gone(p)' /\ p \in skipped')
                        /\ p \in leave.queue \cup leave.target => Gone(p)'
      BY <1>1 DEF Lives
    <3>1. CASE p # q
      <4>1. player'[p] = player[p] /\ (Gone(p)' <=> Gone(p))
            /\ (p \in skipped' <=> p \in skipped)
        BY <3>1, <2>5, <2>6, <2>7
      <4> QED
        BY <4>1 DEF Lives
    <3>2. CASE p = q
      <4>1. player'[p].cur = Views!disconnecting /\ player'[p].prev = player[q].cur
            /\ player'[p].next = Views!disconnected
        BY <2>3, <2>5, <3>2
      <4>2. player'[p].cur \notin {Views!level_initialized, Views!spawning}
        BY <4>1, StateFacts
      <4>3. q \in spawn.queue => q \in skipped'
        BY <1>3, <2>7, StateFacts DEF Lives
      <4> QED
        BY <2>6, <2>7, <3>2, <4>1, <4>2, <4>3
    <3> QED
      BY <3>1, <3>2
  <2>11. Turns'
    <3>1. \A p \in spawn.target : player'[p].cur \in {Views!spawning, Views!spawned} \/ Gone(p)'
      BY <1>2, <2>5, <2>6 DEF Turns
    <3>2. \A p \in spawn.about : player'[p].cur = Views!spawned \/ Gone(p)'
      BY <1>2, <2>5, <2>6 DEF Turns
    <3>3. spawn.stage = "new" => \A p \in spawn.todo :
            p \in spawn.target
            /\ (player'[p].cur = Views!spawning \/ (Gone(p)' /\ p \in skipped'))
      BY <1>2, <1>3, <2>5, <2>6, <2>7, StateFacts DEF Turns
    <3>4. \A p \in leave.target \ leave.about :
            p \in skipped' \/ player'[p].cur = Views!disconnected
      <4>1. q \notin leave.target
        BY <1>3 DEF Lives
      <4> QED
        BY <4>1, <1>2, <2>5, <2>7 DEF Turns
    <3> QED
      BY <1>1, <2>8, <3>1, <3>2, <3>3, <3>4 DEF Turns
  <2>12. Seen'
    BY <1>1, <1>2, <2>6, <2>8 DEF Seen, Shown, Pending
  <2>13. Departing'
    <3> SUFFICES ASSUME NEW c \in Views!InWorld', NEW p \in known[c] \ skipped',
                        <<c, p>> \notin unseen \cup overlap
                 PROVE  player'[p].cur \in {Views!spawning, Views!spawned}
                        \/ (Gone(p)' /\ Leaving(c, p)')
      BY <1>1 DEF Departing
    <3>1. p \in Players /\ c \in Views!InWorld /\ p \in known[c] \ skipped
      BY <2>7, <2>8, ViewTypes DEF Views!InWorld
    <3>2. player[p].cur \in {Views!spawning, Views!spawned} \/ (Gone(p) /\ Leaving(c, p))
      BY <3>1 DEF Departing
    <3>3. CASE p # q
      <4>1. player'[p] = player[p] /\ (Gone(p)' <=> Gone(p))
            /\ (Views!Online(p)' <=> Views!Online(p))
        BY <3>1, <3>3, <2>5, <2>6
      <4> QED
        BY <1>1, <3>2, <4>1 DEF Leaving
    <3>4. CASE p = q
      <4>1. player[q].cur = Views!spawned
        BY <2>7, <3>4
      <4>2. q \notin leave.target
        BY <1>3 DEF Lives
      <4>3. player'[q].prev = Views!spawned /\ player'[q].cur = Views!disconnecting
            /\ Views!Online(q)'
        BY <4>1, <1>1, <2>3, <2>5, <2>6
      <4> QED
        BY <1>1, <2>6, <3>4, <4>2, <4>3 DEF Leaving
    <3> QED
      BY <3>3, <3>4
  <2>14. Strays'
    BY <1>1 DEF Strays
  <2> QED
    BY <2>9, <2>10, <2>11, <2>12, <2>13, <2>14
<1>4. CASE Gone(q)
  <2>1. player[q].cur \in {Views!disconnecting, Views!disconnected}
    BY <1>4 DEF Gone
  <2>2. PICK r : r = [player[q] EXCEPT !.online = FALSE]
    OBVIOUS
  <2>3. /\ r \in Player /\ r.prev = player[q].prev /\ r.cur = player[q].cur
        /\ r.next = player[q].next /\ ~r.online
    BY <2>2, <1>2, OfflineFacts
  <2>4. /\ player' = [player EXCEPT ![q] = r]
        /\ skipped' = IF /\ player[q].cur = Views!disconnecting
                         /\ q \notin leave.queue \cup leave.target
                      THEN skipped \cup {q} ELSE skipped
    BY <2>1, <2>2, StateFacts DEF Views!Disconnect
  <2>5. /\ player' \in [Players -> Player] /\ player'[q] = r
        /\ \A p \in Players : p # q => player'[p] = player[p]
    BY <1>2, <2>3, <2>4, OneChanges
  <2>6. Views!InWorld' = Views!InWorld
    <3>1. Views!TypeOK /\ r.cur # Views!spawned /\ player[q].cur # Views!spawned
          /\ r.cur <= Views!spawned /\ player[q].cur <= Views!spawned
      BY <2>1, <2>3, StateFacts
    <3> QED
      BY <2>3, <2>4, <3>1, MovedOn
  <2>7. /\ \A p \in Players : (Gone(p)' <=> Gone(p)) /\ (Views!Online(p)' => Views!Online(p))
        /\ \A p \in Players : /\ player'[p].cur = player[p].cur
                              /\ player'[p].prev = player[p].prev
                              /\ player'[p].next = player[p].next
                              /\ p # q => player'[p].online = player[p].online
    BY <1>4, <2>3, <2>5 DEF Gone, Views!Online
  <2>8. /\ skipped \subseteq skipped' /\ skipped' \subseteq skipped \cup {q}
        /\ q \notin skipped' /\ player[q].cur = Views!disconnecting
               => q \in leave.queue \cup leave.target
    BY <2>4
  <2>9. Views!TypeOK'
    BY <1>1, <1>2, <2>5, <2>8, ViewTypes DEF Views!TypeOK, Player, Work
  <2>10. Lives'
    BY <1>1, <1>4, <2>7, <2>8 DEF Lives
  <2>11. Turns'
    BY <1>1, <1>2, <2>6, <2>7, <2>8 DEF Turns
  <2>12. Seen'
    BY <1>1, <1>2, <2>6, <2>7 DEF Seen, Shown, Pending
  <2>13. Departing'
    <3> SUFFICES ASSUME NEW c \in Views!InWorld, NEW p \in known[c] \ skipped',
                        <<c, p>> \notin unseen \cup overlap
                 PROVE  player'[p].cur \in {Views!spawning, Views!spawned}
                        \/ (Gone(p)' /\ Leaving(c, p)')
      BY <1>1, <2>6 DEF Departing
    <3>1. p \in Players /\ p \in known[c] \ skipped
      BY <2>8, ViewTypes DEF Views!InWorld
    <3>2. player[p].cur \in {Views!spawning, Views!spawned} \/ (Gone(p) /\ Leaving(c, p))
      BY <3>1 DEF Departing
    <3>3. CASE p # q
      <4>1. player'[p] = player[p] /\ (Gone(p)' <=> Gone(p))
            /\ (Views!Online(p)' <=> Views!Online(p))
        BY <3>1, <3>3, <2>5 DEF Gone, Views!Online
      <4> QED
        BY <1>1, <3>2, <4>1 DEF Leaving
    <3>4. CASE p = q
      <4>1. Leaving(c, p)
        BY <2>1, <3>2, <3>4, StateFacts
      <4>2. p \notin leave.target => p \in leave.queue
        BY <2>8, <3>4, <4>1 DEF Leaving, Turns
      <4> QED
        BY <1>1, <1>4, <2>7, <3>1, <3>4, <4>1, <4>2 DEF Leaving
    <3> QED
      BY <3>3, <3>4
  <2>14. Strays'
    BY <1>1 DEF Strays
  <2> QED
    BY <2>9, <2>10, <2>11, <2>12, <2>13, <2>14
<1> QED
  BY <1>3, <1>4

(* A new player is told of everyone and takes the state that is prepared.  *)
LEMMA ToldNewStep ==
  ASSUME Watching, NEW q \in Players, spawn.stage = "new", q \in spawn.todo,
         spawn'.stage = "new", spawn'.queue = spawn.queue, spawn'.target = spawn.target,
         spawn'.about = spawn.about, spawn'.todo = spawn.todo \ {q}, spawn' \in Work,
         UNCHANGED <<leave, move, skipped, stray>>,
         Views!ToldSpawn(q, spawn.about \cup spawn.target),
         player' = [player EXCEPT ![q] = Views!TransitState(@)]
  PROVE  Watching'
<1> USE DEF Watching
<1>1. /\ player \in [Players -> Player] /\ player[q] \in Player
      /\ spawn.about \cup spawn.target \in SUBSET Players
      /\ spawn.target \subseteq Players /\ spawn.about \subseteq Players
      /\ spawn.todo \subseteq Players /\ leave.target \subseteq Players
      /\ move.todo \subseteq Players /\ move.about \subseteq Players
      /\ Views!InWorld \subseteq Players
  BY ViewTypes DEF Work, Views!InWorld
<1>2. /\ known' \in [Players -> SUBSET Players]
      /\ known'[q] = known[q] \cup (spawn.about \cup spawn.target)
      /\ \A d \in Players : d # q => known'[d] = known[d]
      /\ overlap' \subseteq Players \X Players /\ overlap \subseteq overlap'
      /\ \A p \in spawn.about \cup spawn.target : Views!Despawned(p) => <<q, p>> \in overlap'
      /\ UNCHANGED unseen /\ Views!Online(q)
  BY <1>1, ToldFacts
<1>3. PICK r : r = Views!TransitState(player[q])
  OBVIOUS
<1>4. /\ r \in Player /\ r.prev = player[q].cur /\ r.cur = player[q].next
      /\ r.next = player[q].next /\ r.online = player[q].online
  BY <1>1, <1>3, TransitFacts
<1>5. player' = [player EXCEPT ![q] = r]
  BY <1>3
<1>6. /\ player' \in [Players -> Player] /\ player'[q] = r
      /\ \A p \in Players : p # q => player'[p] = player[p]
  BY <1>1, <1>4, <1>5, OneChanges
<1>7. q \in spawn.target /\ q \notin spawn.queue
      /\ (player[q].cur = Views!spawning \/ (Gone(q) /\ q \in skipped))
  BY DEF Turns
<1>8. Views!TypeOK'
  BY <1>2, <1>6, ViewTypes DEF Views!TypeOK, Player, Work
<1>9. Strays'
  BY <1>2 DEF Strays
<1>10. \A d, p : Pending(d, p)' <=> Pending(d, p)
  BY DEF Pending
<1>11. \A d \in Players : \A p : Shown(d, p) \/ Pending(d, p) => Shown(d, p)' \/ Pending(d, p)'
  BY <1>2, <1>10 DEF Shown
<1>12. \A p \in spawn.about \cup spawn.target : Shown(q, p)'
  BY <1>2 DEF Shown
<1>13. CASE player[q].cur = Views!spawning
  <2>1. ~Gone(q) /\ player[q].next = Views!spawned /\ known[q] = {}
    <3>1. ~Gone(q) /\ player[q].cur # Views!level_initialized
      BY <1>13, StateFacts DEF Gone
    <3> QED
      BY <1>13, <3>1 DEF Lives
  <2>2. player'[q].cur = Views!spawned /\ player'[q].next = Views!spawned /\ player'[q].online
    BY <1>4, <1>6, <2>1, <1>2 DEF Views!Online
  <2>3. ~Gone(q)' /\ \A p \in Players :
          (Gone(p)' <=> Gone(p)) /\ (Views!Online(p)' <=> Views!Online(p))
    <3>1. ~Gone(q)'
      BY <2>2, StateFacts DEF Gone
    <3>2. player'[q].online = player[q].online
      BY <1>4, <1>6
    <3> QED
      BY <1>6, <2>1, <3>1, <3>2 DEF Gone, Views!Online
  <2>4. Views!InWorld' = Views!InWorld \cup {q}
    <3>1. player'[q].cur >= Views!spawned
      BY <2>2, StateFacts
    <3> QED
      BY <1>6, <2>2, <3>1 DEF Views!InWorld, Views!Online
  <2>5. Lives'
    <3>1. player'[q].cur \notin {Views!level_initialized, Views!spawning, Views!disconnecting}
      BY <2>2, StateFacts
    <3>2. q \notin leave.queue \cup leave.target
      BY <2>1 DEF Lives
    <3> QED
      BY <1>2, <1>6, <1>7, <2>2, <2>3, <3>1, <3>2 DEF Lives
  <2>6. Turns'
    <3>1. \A p \in spawn.target : player'[p].cur \in {Views!spawning, Views!spawned} \/ Gone(p)'
      BY <1>1, <1>6, <2>2, <2>3 DEF Turns
    <3>2. \A p \in spawn.about : player'[p].cur = Views!spawned \/ Gone(p)'
      BY <1>1, <1>6, <2>2, <2>3 DEF Turns
    <3>3. \A p \in spawn.todo \ {q} :
            p \in spawn.target
            /\ (player'[p].cur = Views!spawning \/ (Gone(p)' /\ p \in skipped))
      BY <1>1, <1>6, <2>3 DEF Turns
    <3>4. \A p \in leave.target \ leave.about :
            p \in skipped \/ player'[p].cur = Views!disconnected
      <4>1. q \notin leave.target
        BY <2>1 DEF Lives
      <4> QED
        BY <4>1, <1>1, <1>6 DEF Turns
    <3> QED
      BY <1>7, <2>4, <3>1, <3>2, <3>3, <3>4 DEF Turns
  <2>7. Seen'
    <3>1. \A c \in Views!InWorld', p \in Players :
             p \in Views!InWorld' \/ (p \in spawn.target /\ ~Gone(p)')
                 => Shown(c, p)' \/ Pending(c, p)'
      <4> SUFFICES ASSUME NEW c \in Views!InWorld', NEW p \in Players,
                          p \in Views!InWorld' \/ (p \in spawn.target /\ ~Gone(p)')
                   PROVE  Shown(c, p)' \/ Pending(c, p)'
        OBVIOUS
      <4>1. CASE c = q
        <5>1. p \in spawn.about \cup spawn.target
          BY <1>7, <2>4 DEF Turns
        <5> QED
          BY <1>12, <4>1, <5>1
      <4>2. CASE c # q
        <5>1. c \in Views!InWorld /\ (p \in Views!InWorld \/ (p \in spawn.target /\ ~Gone(p)))
          BY <1>7, <2>1, <2>3, <2>4, <4>2
        <5> QED
          BY <1>1, <1>11, <5>1 DEF Seen
      <4> QED
        BY <4>1, <4>2
    <3>2. \A c \in move.todo, p \in move.about :
             Views!Online(c)' /\ ~Gone(p)' => Shown(c, p)' \/ Pending(c, p)'
      BY <1>1, <1>11, <2>3 DEF Seen
    <3> QED
      BY <3>1, <3>2 DEF Seen
  <2>8. Departing'
    <3> SUFFICES ASSUME NEW c \in Views!InWorld', NEW p \in known'[c] \ skipped,
                        <<c, p>> \notin unseen \cup overlap'
                 PROVE  player'[p].cur \in {Views!spawning, Views!spawned}
                        \/ (Gone(p)' /\ Leaving(c, p)')
      BY <1>2 DEF Departing
    <3>1. p \in Players /\ c \in Players
      BY <1>1, <1>2, <2>4
    <3>2. CASE p = q
      BY <2>2, <3>2
    <3>3. CASE p # q
      <4>1. player'[p] = player[p] /\ (Gone(p)' <=> Gone(p))
            /\ (Views!Online(p)' <=> Views!Online(p))
        BY <1>6, <2>3, <3>1, <3>3
      <4>2. player[p].cur \in {Views!spawning, Views!spawned} \/ (Gone(p) /\ Leaving(c, p))
        <5>1. CASE c # q
          BY <1>2, <2>4, <3>1, <5>1 DEF Departing
        <5>2. CASE c = q
          <6>1. p \in spawn.about \cup spawn.target /\ ~Views!Despawned(p)
            BY <1>2, <2>1, <5>2
          <6>2. CASE Gone(p)
            BY <3>1, <6>1, <6>2, ToldStays
          <6>3. CASE ~Gone(p)
            BY <6>1, <6>3 DEF Turns
          <6> QED
            BY <6>2, <6>3
        <5> QED
          BY <5>1, <5>2
      <4> QED
        BY <4>1, <4>2 DEF Leaving
    <3> QED
      BY <3>2, <3>3
  <2> QED
    BY <1>8, <1>9, <2>5, <2>6, <2>7, <2>8
<1>14. CASE Gone(q) /\ q \in skipped
  <2>1. player[q].next = Views!disconnected
    BY <1>14 DEF Lives
  <2>2. player'[q].cur = Views!disconnected /\ player'[q].next = Views!disconnected
    BY <1>4, <1>6, <2>1
  <2>3. Gone(q)' /\ \A p \in Players :
          (Gone(p)' <=> Gone(p)) /\ (Views!Online(p)' <=> Views!Online(p))
    BY <1>4, <1>6, <1>14, <2>2 DEF Gone, Views!Online
  <2>4. Views!InWorld' = Views!InWorld /\ q \notin Views!InWorld
    <3>1. Views!TypeOK /\ r.cur # Views!spawned /\ player[q].cur # Views!spawned
          /\ r.cur <= Views!spawned /\ player[q].cur <= Views!spawned
      BY <1>4, <1>14, <2>1, StateFacts DEF Gone
    <3>2. Views!InWorld' = Views!InWorld
      BY <1>4, <1>5, <3>1, MovedOn
    <3> QED
      BY <3>1, <3>2, WorldFacts
  <2>5. Lives'
    <3>1. player'[q].cur \notin {Views!level_initialized, Views!spawning, Views!disconnecting}
      BY <2>2, StateFacts
    <3> QED
      BY <1>2, <1>6, <1>7, <1>14, <2>2, <2>3, <3>1 DEF Lives
  <2>6. Turns'
    <3>1. \A p \in spawn.target : player'[p].cur \in {Views!spawning, Views!spawned} \/ Gone(p)'
      BY <1>1, <1>6, <2>3 DEF Turns
    <3>2. \A p \in spawn.about : player'[p].cur = Views!spawned \/ Gone(p)'
      BY <1>1, <1>6, <2>3 DEF Turns
    <3>3. \A p \in spawn.todo \ {q} :
            p \in spawn.target
            /\ (player'[p].cur = Views!spawning \/ (Gone(p)' /\ p \in skipped))
      BY <1>1, <1>6, <2>3 DEF Turns
    <3>4. \A p \in leave.target \ leave.about :
            p \in skipped \/ player'[p].cur = Views!disconnected
      BY <1>1, <1>6, <1>14 DEF Turns
    <3> QED
      BY <2>4, <3>1, <3>2, <3>3, <3>4 DEF Turns
  <2>7. Seen'
    BY <1>1, <1>11, <2>3, <2>4 DEF Seen
  <2>8. Departing'
    <3> SUFFICES ASSUME NEW c \in Views!InWorld, NEW p \in known'[c] \ skipped,
                        <<c, p>> \notin unseen \cup overlap'
                 PROVE  player'[p].cur \in {Views!spawning, Views!spawned}
                        \/ (Gone(p)' /\ Leaving(c, p)')
      BY <1>2, <2>4 DEF Departing
    <3>1. c # q /\ p # q /\ c \in Players
      BY <1>1, <1>14, <2>4
    <3>2. p \in known[c] /\ p \in Players
      BY <1>2, <3>1
    <3>3. player'[p] = player[p] /\ (Gone(p)' <=> Gone(p))
          /\ (Views!Online(p)' <=> Views!Online(p))
      BY <1>6, <2>3, <3>1, <3>2
    <3>4. player[p].cur \in {Views!spawning, Views!spawned} \/ (Gone(p) /\ Leaving(c, p))
      BY <1>2, <3>1, <3>2 DEF Departing
    <3> QED
      BY <3>3, <3>4 DEF Leaving
  <2> QED
    BY <1>8, <1>9, <2>5, <2>6, <2>7, <2>8
<1> QED
  BY <1>7, <1>13, <1>14

(* A new player is told, refused or gone.                                  *)
LEMMA SpawnToNewStep ==
  ASSUME Watching, NEW q \in Players, Views!SpawnToNew(q)
  PROVE  Watching'
<1> USE DEF Watching
<1>1. /\ spawn.stage = "new" /\ q \in spawn.todo /\ spawn'.todo = spawn.todo \ {q}
      /\ spawn'.stage = "new" /\ spawn'.queue = spawn.queue
      /\ spawn'.target = spawn.target /\ spawn'.about = spawn.about
      /\ spawn' \in Work
      /\ UNCHANGED <<leave, move, skipped, stray>>
  BY ViewTypes DEF Views!SpawnToNew, Work
<1>2. /\ spawn.about \cup spawn.target \in SUBSET Players
      /\ spawn.about \subseteq Players /\ spawn.todo \subseteq spawn.target
  BY <1>1, ViewTypes DEF Work, Turns
<1>3. \A d, p : Pending(d, p)' <=> Pending(d, p)
  BY <1>1 DEF Pending
<1>4. CASE /\ Views!ToldSpawn(q, spawn.about \cup spawn.target)
           /\ player' = [player EXCEPT ![q] = Views!TransitState(@)]
  BY <1>1, <1>4, ToldNewStep
<1>5. CASE Views!Refused(q, spawn.about \cup spawn.target) /\ UNCHANGED player
  <2>1. /\ UNCHANGED <<known, overlap>> /\ unseen' \subseteq Players \X Players
        /\ unseen \subseteq unseen'
    BY <1>2, <1>5, RefusedFacts
  <2>2. Views!TypeOK'
    BY <1>1, <1>5, <2>1, ViewTypes DEF Views!TypeOK, Player, Work
  <2>3. Lives'
    BY <1>1, <1>5, <2>1, PlayersStay DEF Lives
  <2>4. Turns'
    BY <1>1, <1>5, PlayersStay DEF Turns
  <2>5. Seen'
    BY <1>1, <1>3, <1>5, <2>1, PlayersStay DEF Seen, Shown
  <2>6. Departing'
    BY <1>1, <1>5, <2>1, PlayersStay DEF Departing, Leaving
  <2>7. Strays'
    BY <1>1, <2>1 DEF Strays
  <2> QED
    BY <2>2, <2>3, <2>4, <2>5, <2>6, <2>7
<1>6. CASE Views!Absent(q) /\ UNCHANGED player
  <2>1. UNCHANGED <<known, unseen, overlap>>
    BY <1>6 DEF Views!Absent
  <2>2. Views!TypeOK'
    BY <1>1, <1>6, <2>1, ViewTypes DEF Views!TypeOK, Player, Work
  <2>3. Lives'
    BY <1>1, <1>6, <2>1, PlayersStay DEF Lives
  <2>4. Turns'
    BY <1>1, <1>6, PlayersStay DEF Turns
  <2>5. Seen'
    BY <1>1, <1>3, <1>6, <2>1, PlayersStay DEF Seen, Shown
  <2>6. Departing'
    BY <1>1, <1>6, <2>1, PlayersStay DEF Departing, Leaving
  <2>7. Strays'
    BY <1>1, <2>1 DEF Strays
  <2> QED
    BY <2>2, <2>3, <2>4, <2>5, <2>6, <2>7
<1> QED
  BY <1>4, <1>5, <1>6 DEF Views!SpawnToNew

----------------------------------------------------------------------------
(* Every step, and what the invariant says.                                *)
LEMMA NextWatching == Watching /\ Views!Next => Watching'
<1> SUFFICES ASSUME Watching, Views!Next PROVE Watching'
  OBVIOUS
<1>1. CASE \E p \in Players : \/ Views!Disconnect(p) \/ Views!TickSpawn(p)
                              \/ Views!TickLeave(p) \/ Views!TickGone(p)
                              \/ Views!SpawnToNew(p) \/ Views!SpawnToOld(p)
                              \/ Views!LeaveTell(p) \/ Views!LeaveSave(p)
                              \/ Views!MoveTo(p)
  BY <1>1, DisconnectStep, TickSpawnStep, TickLeaveStep, TickGoneStep, SpawnToNewStep,
     SpawnToOldStep, LeaveTellStep, LeaveSaveStep, MoveToStep
<1>2. CASE \/ Views!SpawnBegin \/ Views!SpawnTurn \/ Views!SpawnEnd \/ Views!LeaveBegin
           \/ Views!LeaveTurn \/ Views!LeaveEnd
           \/ Views!MoveBegin \/ Views!MoveEnd
  BY <1>2, SpawnBeginStep, SpawnTurnStep, SpawnEndStep, LeaveBeginStep, LeaveTurnStep,
     LeaveEndStep, MoveBeginStep, MoveEndStep
<1> QED
  BY <1>1, <1>2 DEF Views!Next

(* A step that leaves the views alone.                                     *)
LEMMA StutterWatching == Watching /\ UNCHANGED Views!vars => Watching'
  BY DEF Views!vars, Watching, Views!TypeOK, Lives, Turns, Seen, Departing, Strays, Gone, Shown,
         Pending, Leaving, Views!InWorld, Views!Online

(* What the invariant was found for.                                       *)
LEMMA WatchingShows ==
  ASSUME Watching
  PROVE  Views!EveryoneVisible /\ Views!NoGhosts /\ Views!MovesAreKnown
<1> USE DEF Watching
<1>1. Views!EveryoneVisible
  <2> SUFFICES ASSUME spawn.stage = "unused", NEW c \in Views!InWorld, NEW p \in Views!InWorld
               PROVE  p \in known[c] \/ <<c, p>> \in unseen
    BY DEF Views!EveryoneVisible
  <2>1. ~Pending(c, p) /\ p \in Players
    BY DEF Pending, Views!InWorld
  <2> QED
    BY <2>1 DEF Seen, Shown
<1>2. Views!NoGhosts
  <2> SUFFICES ASSUME NEW c \in Views!InWorld, NEW p \in known[c] \ skipped,
                      <<c, p>> \notin unseen \cup overlap,
                      player[p].cur \notin {Views!spawning, Views!spawned, Views!disconnecting}
               PROVE  p \in leave.queue \cup leave.target
    BY DEF Views!NoGhosts
  <2>1. Gone(p) /\ Leaving(c, p)
    BY DEF Departing
  <2> QED
    BY <2>1 DEF Leaving, Turns
<1>3. Views!MovesAreKnown
  BY DEF Strays, Views!MovesAreKnown
<1> QED
  BY <1>1, <1>2, <1>3

----------------------------------------------------------------------------
(* The invariant holds of the part of the world that runs these tasks.     *)
LEMMA WorldWatching ==
  /\ WorldInit => Watching
  /\ (part = "views" => Watching) /\ [WorldNext]_allVars => (part = "views" => Watching)'
<1>1. WorldInit => Watching
  BY InitWatching DEF WorldInit
<1>2. ASSUME part = "views" => Watching, [WorldNext]_allVars, part' = "views"
      PROVE  Watching'
  <2>1. part' = part
    BY <1>2 DEF WorldNext, allVars
  <2>2. Views!Next \/ UNCHANGED viewVars
    BY <1>2 DEF WorldNext, TaskNext, allVars, taskVars
  <2>3. CASE Views!Next
    BY <1>2, <2>1, <2>3, NextWatching
  <2>4. CASE UNCHANGED viewVars
    <3>1. UNCHANGED Views!vars
      BY <2>4 DEF viewVars, Views!vars
    <3> QED
      BY <1>2, <2>1, <3>1, StutterWatching
  <2> QED
    BY <2>2, <2>3, <2>4
<1> QED
  BY <1>1, <1>2

(* Whenever the spawn task is through, every spawned player shows every    *)
(* other one, however the players came in batches, disconnected or moved   *)
(* meanwhile, unless a full connection refused the send.                   *)
THEOREM EveryoneIsShown == WorldSpec => []EveryoneVisible
<1>1. WorldInit => (part = "views" => Watching)
  BY WorldWatching
<1>2. (part = "views" => Watching) /\ [WorldNext]_allVars => (part = "views" => Watching)'
  BY WorldWatching
<1>3. (part = "views" => Watching) => EveryoneVisible
  BY WatchingShows DEF EveryoneVisible
<1> QED
  BY <1>1, <1>2, <1>3, PTL DEF WorldSpec

(* A spawned player shows nobody who has left for good, and is told of the *)
(* moves of those it shows only, but for refused sends, for the despawn    *)
(* packets that the code skips, and for tasks that overlap.                *)
THEOREM ViewsStayCurrent == WorldSpec => []ViewsAreCurrent
<1>1. WorldInit => (part = "views" => Watching)
  BY WorldWatching
<1>2. (part = "views" => Watching) /\ [WorldNext]_allVars => (part = "views" => Watching)'
  BY WorldWatching
<1>3. (part = "views" => Watching) => ViewsAreCurrent
  BY WatchingShows DEF ViewsAreCurrent
<1> QED
  BY <1>1, <1>2, <1>3, PTL DEF WorldSpec

----------------------------------------------------------------------------
(* The double buffers.  Both tasks are about the same pushes.              *)
Buffer == INSTANCE DoubleBuffering WITH size <- filled

(* A push that found the buffer full has counted itself in until it takes  *)
(* the addition back; the records of the others have a slot each.          *)
Undoing(b) == {w \in Writers : pusher[w].stage = "undo" /\ pusher[w].buf = b}
Taken(b) == filled[b] - Cardinality(Undoing(b))

(* A slot is intact from the copy on, until its buffer is cleared. *)
Copying(b, i) == \E w \in Writers : /\ pusher[w].stage = "copy"
                                    /\ pusher[w].buf = b /\ pusher[w].at = i
Intact(b, i) == i < Taken(b) /\ ~Copying(b, i)

(* Slot i of buffer b has record r; one of the first n slots has. *)
Has(b, i, r) == Intact(b, i) /\ slots[b][i] = r
Kept(b, n, r) == \E i \in Buffer!Offsets : i < n /\ Has(b, i, r)

(* Unless a push outlives a clear, the slots are taken one by one: each    *)
(* push that fits has one of its own, those that do not fit find the       *)
(* buffer full, and a push no snapshot overlapped is into the input.       *)
Apart ==
    /\ \A b \in Buffer!Bufs : /\ Taken(b) \in 0 .. Capacity
                              /\ Undoing(b) # {} => Taken(b) = Capacity
    /\ \A w \in Writers, b \in Buffer!Bufs :
          pusher[w].stage = "copy" /\ pusher[w].buf = b => pusher[w].at < Taken(b)
    /\ \A v, w \in Writers : /\ pusher[v].stage = "copy" /\ pusher[w].stage = "copy"
                             /\ pusher[v].buf = pusher[w].buf /\ pusher[v].at = pusher[w].at
                             => v = w
    /\ \A w \in Writers : pusher[w].stage # "idle" /\ pusher[w].rec \notin cut
                          => pusher[w].buf = input
    /\ \A w \in Writers : pusher[w].stage # "idle" => pusher[w].rec \in 1 .. pushed

(* A record is in one place: with the push it was handed to, or in a slot. *)
Single(r) ==
    /\ \A v, w \in Writers : /\ pusher[v].stage # "idle" /\ pusher[v].rec = r
                             /\ pusher[w].stage # "idle" /\ pusher[w].rec = r
                             => v = w
    /\ \A w \in Writers, b \in Buffer!Bufs : pusher[w].stage # "idle" /\ pusher[w].rec = r
                                             => ~Kept(b, Capacity, r)
    /\ \A b, c \in Buffer!Bufs, i, j \in Buffer!Offsets : Has(b, i, r) /\ Has(c, j, r)
                                                          => b = c /\ i = j
    /\ \A b \in Buffer!Bufs : Kept(b, Capacity, r) => r \in 1 .. pushed


(* The other threads' pushes stay where they are. *)
Alone(w) == \A v \in Writers : v # w => pusher'[v] = pusher[v]

(* What one step of a push does to the slots: those in use stay, and one   *)
(* that comes into use is the one the push copied its record to.           *)
Moved(w) ==
    /\ UNCHANGED <<input, cut, late, outside>>
    /\ Alone(w)
    /\ \A b \in Buffer!Bufs, i \in Buffer!Offsets :
          /\ Intact(b, i) => Intact(b, i)' /\ slots'[b][i] = slots[b][i]
          /\ Intact(b, i)' =>
                \/ Intact(b, i)
                \/ /\ pusher[w].stage = "copy" /\ pusher'[w].stage = "idle"
                   /\ b = pusher[w].buf /\ slots'[b][i] = pusher[w].rec
                   /\ i = pusher[w].at
    /\ \/ pusher'[w].stage = "idle" /\ pushed' = pushed
       \/ /\ pusher[w].stage # "idle" /\ pusher'[w].rec = pusher[w].rec
          /\ pushed' = pushed
       \/ /\ pusher[w].stage = "idle" /\ pusher'[w].rec = pushed + 1
          /\ pushed' = pushed + 1
    /\ \A r \in accepted' \ accepted : r \in cut \/ Kept(input, Capacity, r)'

(* The numbers and sets of the buffers. *)
LEMMA BufferNumbers ==
  ASSUME Buffer!BufferingAssumption, Buffer!BufferTypeOK
  PROVE  /\ Capacity \in Nat \ {0} /\ Cardinality(Writers) \in Nat /\ SizeMod \in Nat
         /\ SizeMod > 2 * (Capacity + Cardinality(Writers))
         /\ MaxRecords \in Nat
         /\ \A b \in Buffer!Bufs :
              /\ filled[b] \in Nat /\ filled[b] < SizeMod
              /\ IsFiniteSet(Undoing(b)) /\ Cardinality(Undoing(b)) \in Nat
              /\ Cardinality(Undoing(b)) <= Cardinality(Writers)
              /\ Taken(b) \in Int /\ filled[b] = Taken(b) + Cardinality(Undoing(b))
<1>1. /\ Capacity \in Nat \ {0} /\ IsFiniteSet(Writers) /\ SizeMod \in Nat /\ MaxRecords \in Nat
      /\ SizeMod > 2 * (Capacity + Cardinality(Writers))
  BY DEF Buffer!BufferingAssumption, Cardinality, Buffer!Cardinality, IsFiniteSet,
         Buffer!IsFiniteSet
<1>2. Cardinality(Writers) \in Nat
  BY <1>1, FS_CardinalityType
<1>3. ASSUME NEW b \in Buffer!Bufs
      PROVE  /\ filled[b] \in Nat /\ filled[b] < SizeMod
             /\ IsFiniteSet(Undoing(b)) /\ Cardinality(Undoing(b)) \in Nat
             /\ Cardinality(Undoing(b)) <= Cardinality(Writers)
             /\ Taken(b) \in Int /\ filled[b] = Taken(b) + Cardinality(Undoing(b))
  <2>1. filled[b] \in 0 .. SizeMod - 1
    BY DEF Buffer!BufferTypeOK
  <2>2. filled[b] \in Nat /\ filled[b] < SizeMod
    BY <2>1, <1>1
  <2>3. Undoing(b) \in SUBSET Writers
    BY DEF Undoing
  <2>4. IsFiniteSet(Undoing(b)) /\ Cardinality(Undoing(b)) <= Cardinality(Writers)
    BY <1>1, <2>3, FS_Subset
  <2>5. Cardinality(Undoing(b)) \in Nat
    BY <2>4, FS_CardinalityType
  <2> QED
    BY <2>2, <2>4, <2>5 DEF Taken
<1> QED
  BY <1>1, <1>2, <1>3

(* A push into a full buffer: the buffer has no slot left.                 *)
LEMMA SizeSays ==
  ASSUME Buffer!BufferingAssumption, Buffer!BufferTypeOK, Apart, NEW b \in Buffer!Bufs
  PROVE  /\ Taken(b) \in Nat /\ Taken(b) <= Capacity /\ Taken(b) <= filled[b]
         /\ filled[b] <= Capacity + Cardinality(Writers)
         /\ filled[b] + 1 < SizeMod
         /\ filled[b] < Capacity => Undoing(b) = {} /\ Taken(b) = filled[b]
         /\ filled[b] >= Capacity => Taken(b) = Capacity
         /\ filled[b] <= Capacity => Taken(b) = filled[b]
<1>1. /\ Capacity \in Nat \ {0} /\ Cardinality(Writers) \in Nat /\ SizeMod \in Nat
      /\ SizeMod > 2 * (Capacity + Cardinality(Writers))
      /\ filled[b] \in Nat
      /\ IsFiniteSet(Undoing(b)) /\ Cardinality(Undoing(b)) \in Nat
      /\ Cardinality(Undoing(b)) <= Cardinality(Writers)
      /\ filled[b] = Taken(b) + Cardinality(Undoing(b))
  BY BufferNumbers
<1>2. Taken(b) \in 0 .. Capacity /\ (Undoing(b) # {} => Taken(b) = Capacity)
  BY DEF Apart
<1>3. Cardinality(Undoing(b)) = 0 <=> Undoing(b) = {}
  BY <1>1, FS_EmptySet
<1> QED
  BY <1>1, <1>2, <1>3

(* A push begins: no slot is concerned.                                    *)
LEMMA BeginMoves ==
  ASSUME Buffer!BufferingAssumption, Buffer!BufferTypeOK, Apart,
         NEW w \in Writers, Buffer!PushBegin(w)
  PROVE  Buffer!BufferTypeOK' /\ Apart' /\ Moved(w)
<1> USE DEF Buffer!Bufs
<1>0. /\ pusher[w].stage = "idle" /\ pushed < MaxRecords /\ pushed' = pushed + 1
      /\ pusher' = [pusher EXCEPT ![w] = [stage |-> "reserve", buf |-> input,
                                          at |-> 0, rec |-> pushed + 1]]
      /\ UNCHANGED <<input, filled, slots, accepted, cut, late, outside>>
  BY DEF Buffer!PushBegin
<1>1. Capacity \in Nat \ {0} /\ SizeMod \in Nat /\ MaxRecords \in Nat /\ SizeMod > 0
  BY BufferNumbers
<1>2. pushed + 1 \in Buffer!Records /\ 0 \in 0 .. SizeMod - 1 /\ pushed \in 0 .. MaxRecords
  BY <1>0, <1>1 DEF Buffer!BufferTypeOK, Buffer!Records
<1>3. Buffer!BufferTypeOK'
  BY <1>0, <1>1, <1>2 DEF Buffer!BufferTypeOK, Buffer!Records, Buffer!Offsets
<1>4. /\ pusher'[w].stage = "reserve" /\ pusher'[w].buf = input /\ pusher'[w].rec = pushed + 1
      /\ \A v \in Writers : v # w => pusher'[v] = pusher[v]
  BY <1>0 DEF Buffer!BufferTypeOK
<1>5. \A b : Undoing(b)' = Undoing(b)
  BY <1>0, <1>4 DEF Undoing
<1>6. \A b : Taken(b)' = Taken(b)
  BY <1>0, <1>5 DEF Taken
<1>7. \A b, i : Copying(b, i)' <=> Copying(b, i)
  BY <1>0, <1>4 DEF Copying
<1>8. \A b, i : Intact(b, i)' <=> Intact(b, i)
  BY <1>6, <1>7 DEF Intact
<1>9. Apart'
  <2>1. \A b \in Buffer!Bufs : /\ Taken(b)' \in 0 .. Capacity
                               /\ Undoing(b)' # {} => Taken(b)' = Capacity
    BY <1>5, <1>6 DEF Apart
  <2>2. \A v \in Writers : pusher'[v].stage = "copy" =>
              pusher[v].stage = "copy" /\ pusher'[v] = pusher[v]
    BY <1>4
  <2>3. \A v \in Writers, b \in Buffer!Bufs :
            pusher'[v].stage = "copy" /\ pusher'[v].buf = b => pusher'[v].at < Taken(b)'
    BY <1>6, <2>2 DEF Apart
  <2>4. \A v \in Writers : pusher'[v].stage # "idle" /\ pusher'[v].rec \notin cut'
                           => pusher'[v].buf = input'
    BY <1>0, <1>4 DEF Apart
  <2>5. \A v \in Writers : pusher'[v].stage # "idle" => pusher'[v].rec \in 1 .. pushed'
    <3>1. /\ pushed \in Nat /\ pushed' = pushed + 1
          /\ \A v \in Writers : pusher[v].stage # "idle" => pusher[v].rec \in 1 .. pushed
      BY <1>0, <1>1, <1>2 DEF Apart
    <3>2. ASSUME NEW v \in Writers, v # w, pusher'[v].stage # "idle"
          PROVE  pusher'[v].rec \in 1 .. pushed'
      BY <1>4, <3>1, <3>2
    <3>3. pushed + 1 \in 1 .. pushed'
      BY <3>1
    <3> QED
      BY <1>4, <3>2, <3>3
  <2> QED
    BY <2>1, <2>2, <2>3, <2>4, <2>5 DEF Apart
<1> QED
  BY <1>0, <1>3, <1>4, <1>8, <1>9 DEF Moved, Alone

(* A push that fits takes the next slot.                                   *)
LEMMA TakeMoves ==
  ASSUME Buffer!BufferingAssumption, Buffer!BufferTypeOK, Apart,
         NEW w \in Writers, Buffer!PushReserve(w), Buffer!Fits(filled[pusher[w].buf])
  PROVE  Buffer!BufferTypeOK' /\ Apart' /\ Moved(w)
<1>p. PICK B \in Buffer!Bufs : B = pusher[w].buf
  BY DEF Buffer!BufferTypeOK
<1>0. /\ pusher[w].stage = "reserve" /\ pusher[w].buf = B
      /\ filled' = [filled EXCEPT ![B] = (filled[B] + 1) % SizeMod]
      /\ pusher' = [pusher EXCEPT ![w].stage = "copy", ![w].at = filled[B]]
      /\ UNCHANGED <<input, slots, pushed, accepted, cut, late, outside>>
  BY <1>p DEF Buffer!PushReserve
<1>1. /\ Capacity \in Nat \ {0} /\ SizeMod \in Nat /\ filled[B] \in Nat
      /\ filled[B] < SizeMod /\ filled[B] + 1 < SizeMod
  BY <1>0, BufferNumbers, SizeSays
<1>2. (filled[B] + 1) % SizeMod = filled[B] + 1
  BY <1>1
<1>3. filled[B] < Capacity /\ Undoing(B) = {} /\ Taken(B) = filled[B]
  BY <1>p, <1>1, <1>2, SizeSays DEF Buffer!Fits
<1>4. Buffer!BufferTypeOK'
  <2>1. filled[B] \in 0 .. SizeMod - 1 /\ filled[B] + 1 \in 0 .. SizeMod - 1
    BY <1>1
  <2> QED
    BY <1>0, <1>2, <2>1
       DEF Buffer!BufferTypeOK, Buffer!Records, Buffer!Offsets
<1>5. /\ pusher'[w].stage = "copy" /\ pusher'[w].buf = B /\ pusher'[w].at = filled[B]
      /\ pusher'[w].rec = pusher[w].rec
      /\ \A v \in Writers : v # w => pusher'[v] = pusher[v]
  BY <1>0 DEF Buffer!BufferTypeOK
<1>6. \A b \in Buffer!Bufs : Undoing(b)' = Undoing(b)
  BY <1>0, <1>5 DEF Undoing
<1>7. \A b \in Buffer!Bufs : filled'[b] = IF b = B THEN filled[B] + 1 ELSE filled[b]
  BY <1>0, <1>2 DEF Buffer!BufferTypeOK
<1>8. Taken(B)' = Taken(B) + 1 /\ \A b \in Buffer!Bufs : b # B => Taken(b)' = Taken(b)
  <2>1. Cardinality(Undoing(B)) = 0
    BY <1>3, FS_EmptySet
  <2>2. Cardinality(Undoing(B)') = 0 /\ filled'[B] = filled[B] + 1
    BY <1>6, <1>7, <2>1
  <2>3. Taken(B)' = filled[B] + 1
    BY <1>1, <2>2 DEF Taken
  <2>4. ASSUME NEW b \in Buffer!Bufs, b # B PROVE Taken(b)' = Taken(b)
    BY <1>6, <1>7, <2>4 DEF Taken
  <2> QED
    BY <1>3, <2>3, <2>4
<1>9. \A b \in Buffer!Bufs : Taken(b) \in Nat /\ Taken(b) <= Capacity
  BY SizeSays
<1>a. \A b \in Buffer!Bufs : \A i : Copying(b, i)' <=> Copying(b, i) \/ (b = B /\ i = Taken(B))
  BY <1>0, <1>3, <1>5 DEF Copying
<1>b. \A b \in Buffer!Bufs, i \in Buffer!Offsets : Intact(b, i)' <=> Intact(b, i)
  <2> SUFFICES ASSUME NEW b \in Buffer!Bufs, NEW i \in Buffer!Offsets
               PROVE  Intact(b, i)' <=> Intact(b, i)
    OBVIOUS
  <2>1. i \in Nat
    BY <1>1 DEF Buffer!Offsets
  <2>2. CASE b # B
    BY <2>2, <1>8, <1>a DEF Intact
  <2>3. CASE b = B
    <3>1. i < Taken(B) + 1 /\ i # Taken(B) <=> i < Taken(B)
      BY <1>0, <1>9, <2>1
    <3> QED
      BY <2>3, <3>1, <1>8, <1>a DEF Intact
  <2> QED
    BY <2>2, <2>3
<1>c. Apart'
  <2>1. \A b \in Buffer!Bufs : /\ Taken(b)' \in 0 .. Capacity
                               /\ Undoing(b)' # {} => Taken(b)' = Capacity
    BY <1>0, <1>1, <1>3, <1>6, <1>8 DEF Apart
  <2>2. \A v \in Writers, b \in Buffer!Bufs :
            pusher'[v].stage = "copy" /\ pusher'[v].buf = b => pusher'[v].at < Taken(b)'
    <3> SUFFICES ASSUME NEW v \in Writers, NEW b \in Buffer!Bufs,
                        pusher'[v].stage = "copy", pusher'[v].buf = b
                 PROVE  pusher'[v].at < Taken(b)'
      OBVIOUS
    <3>1. CASE v = w
      BY <3>1, <1>0, <1>1, <1>3, <1>5, <1>8
    <3>2. CASE v # w
      <4>1. pusher'[v] = pusher[v] /\ pusher[v].at < Taken(b)
        BY <3>2, <1>5 DEF Apart
      <4>2. pusher[v].at \in Nat
        BY <1>1 DEF Buffer!BufferTypeOK
      <4>3. PICK n \in Nat : n = Taken(b)
        BY <1>9
      <4>4. Taken(b)' = n \/ Taken(b)' = n + 1
        BY <4>3, <1>8
      <4>5. pusher'[v].at < n
        BY <4>1, <4>3
      <4> QED
        BY <4>1, <4>2, <4>4, <4>5
    <3> QED
      BY <3>1, <3>2
  <2>3. \A u, v \in Writers : /\ pusher'[u].stage = "copy" /\ pusher'[v].stage = "copy"
                              /\ pusher'[u].buf = pusher'[v].buf /\ pusher'[u].at = pusher'[v].at
                              => u = v
    <3>1. \A v \in Writers : v # w /\ pusher[v].stage = "copy" /\ pusher[v].buf = B
                             => pusher[v].at # filled[B]
      <4> SUFFICES ASSUME NEW v \in Writers, pusher[v].stage = "copy", pusher[v].buf = B
                   PROVE  pusher[v].at # filled[B]
        OBVIOUS
      <4>1. pusher[v].at < Taken(B)
        BY DEF Apart
      <4>2. pusher[v].at \in Nat
        BY <1>1 DEF Buffer!BufferTypeOK
      <4> QED
        BY <4>1, <4>2, <1>1, <1>3
    <3> QED
      BY <3>1, <1>5 DEF Apart
  <2>4. \A v \in Writers : pusher'[v].stage # "idle" /\ pusher'[v].rec \notin cut'
                           => pusher'[v].buf = input'
    <3>1. input' = input /\ cut' = cut /\ pusher[w].stage # "idle" /\ pusher[w].buf = B
      BY <1>0
    <3> QED
      BY <1>5, <3>1 DEF Apart
  <2>5. \A v \in Writers : pusher'[v].stage # "idle" => pusher'[v].rec \in 1 .. pushed'
    <3>1. pushed' = pushed /\ pusher[w].stage # "idle"
      BY <1>0
    <3> QED
      BY <1>5, <3>1 DEF Apart
  <2> QED
    BY <2>1, <2>2, <2>3, <2>4, <2>5 DEF Apart
<1> QED
  BY <1>0, <1>4, <1>5, <1>b, <1>c DEF Moved, Alone

(* A push that does not fit finds the buffer full.                         *)
LEMMA RefuseMoves ==
  ASSUME Buffer!BufferingAssumption, Buffer!BufferTypeOK, Apart,
         NEW w \in Writers, Buffer!PushReserve(w), ~Buffer!Fits(filled[pusher[w].buf])
  PROVE  Buffer!BufferTypeOK' /\ Apart' /\ Moved(w)
<1>p. PICK B \in Buffer!Bufs : B = pusher[w].buf
  BY DEF Buffer!BufferTypeOK
<1>0. /\ pusher[w].stage = "reserve" /\ pusher[w].buf = B
      /\ filled' = [filled EXCEPT ![B] = (filled[B] + 1) % SizeMod]
      /\ pusher' = [pusher EXCEPT ![w].stage = "undo", ![w].at = filled[B]]
      /\ UNCHANGED <<input, slots, pushed, accepted, cut, late, outside>>
  BY <1>p DEF Buffer!PushReserve
<1>1. /\ Capacity \in Nat \ {0} /\ SizeMod \in Nat /\ filled[B] \in Nat
      /\ filled[B] < SizeMod /\ filled[B] + 1 < SizeMod
      /\ IsFiniteSet(Undoing(B)) /\ Cardinality(Undoing(B)) \in Nat
  BY <1>0, BufferNumbers, SizeSays
<1>2. (filled[B] + 1) % SizeMod = filled[B] + 1
  BY <1>1
<1>3. filled[B] >= Capacity /\ Taken(B) = Capacity
  BY <1>p, <1>1, <1>2, SizeSays DEF Buffer!Fits
<1>4. Buffer!BufferTypeOK'
  <2>1. filled[B] \in 0 .. SizeMod - 1 /\ filled[B] + 1 \in 0 .. SizeMod - 1
    BY <1>1
  <2> QED
    BY <1>0, <1>2, <2>1
       DEF Buffer!BufferTypeOK, Buffer!Records, Buffer!Offsets
<1>5. /\ pusher'[w].stage = "undo" /\ pusher'[w].buf = B
      /\ pusher'[w].rec = pusher[w].rec
      /\ \A v \in Writers : v # w => pusher'[v] = pusher[v]
  BY <1>0 DEF Buffer!BufferTypeOK
<1>6. \A b \in Buffer!Bufs : Undoing(b)' = IF b = B THEN Undoing(b) \cup {w} ELSE Undoing(b)
  BY <1>0, <1>5 DEF Undoing
<1>7. \A b \in Buffer!Bufs : filled'[b] = IF b = B THEN filled[B] + 1 ELSE filled[b]
  BY <1>0, <1>2 DEF Buffer!BufferTypeOK
<1>8. \A b \in Buffer!Bufs : Taken(b)' = Taken(b)
  <2>1. w \notin Undoing(B)
    BY <1>0 DEF Undoing
  <2>2. Cardinality(Undoing(B) \cup {w}) = Cardinality(Undoing(B)) + 1
    BY <1>1, <2>1, FS_AddElement
  <2>3. Cardinality(Undoing(B)') = Cardinality(Undoing(B)) + 1 /\ filled'[B] = filled[B] + 1
    BY <1>6, <1>7, <2>2
  <2>4. Taken(B)' = Taken(B)
    BY <1>1, <2>3 DEF Taken
  <2>5. ASSUME NEW b \in Buffer!Bufs, b # B PROVE Taken(b)' = Taken(b)
    BY <1>6, <1>7, <2>5 DEF Taken
  <2> QED
    BY <2>4, <2>5
<1>9. \A b \in Buffer!Bufs : \A i : Copying(b, i)' <=> Copying(b, i)
  BY <1>0, <1>5 DEF Copying
<1>a. \A b \in Buffer!Bufs, i \in Buffer!Offsets : Intact(b, i)' <=> Intact(b, i)
  BY <1>8, <1>9 DEF Intact
<1>b. Apart'
  <2>1. \A b \in Buffer!Bufs : /\ Taken(b)' \in 0 .. Capacity
                               /\ Undoing(b)' # {} => Taken(b)' = Capacity
    BY <1>3, <1>6, <1>8 DEF Apart
  <2>2. \A v \in Writers, b \in Buffer!Bufs :
            pusher'[v].stage = "copy" /\ pusher'[v].buf = b => pusher'[v].at < Taken(b)'
    BY <1>5, <1>8 DEF Apart
  <2>3. \A u, v \in Writers : /\ pusher'[u].stage = "copy" /\ pusher'[v].stage = "copy"
                              /\ pusher'[u].buf = pusher'[v].buf /\ pusher'[u].at = pusher'[v].at
                              => u = v
    BY <1>5 DEF Apart
  <2>4. \A v \in Writers : pusher'[v].stage # "idle" /\ pusher'[v].rec \notin cut'
                           => pusher'[v].buf = input'
    <3>1. input' = input /\ cut' = cut /\ pusher[w].stage # "idle" /\ pusher[w].buf = B
      BY <1>0
    <3> QED
      BY <1>5, <3>1 DEF Apart
  <2>5. \A v \in Writers : pusher'[v].stage # "idle" => pusher'[v].rec \in 1 .. pushed'
    <3>1. pushed' = pushed /\ pusher[w].stage # "idle"
      BY <1>0
    <3> QED
      BY <1>5, <3>1 DEF Apart
  <2> QED
    BY <2>1, <2>2, <2>3, <2>4, <2>5 DEF Apart
<1> QED
  BY <1>0, <1>4, <1>5, <1>a, <1>b DEF Moved, Alone

(* The push that was refused takes its addition back.                      *)
LEMMA UndoMoves ==
  ASSUME Buffer!BufferingAssumption, Buffer!BufferTypeOK, Apart,
         NEW w \in Writers, Buffer!PushUndo(w)
  PROVE  Buffer!BufferTypeOK' /\ Apart' /\ Moved(w)
<1>p. PICK B \in Buffer!Bufs : B = pusher[w].buf
  BY DEF Buffer!BufferTypeOK
<1>0. /\ pusher[w].stage = "undo" /\ pusher[w].buf = B
      /\ filled' = [filled EXCEPT ![B] = (filled[B] - 1) % SizeMod]
      /\ pusher' = [pusher EXCEPT ![w] = Buffer!Idle]
      /\ UNCHANGED <<input, slots, pushed, accepted, cut, late, outside>>
  BY <1>p DEF Buffer!PushUndo
<1>1. /\ Capacity \in Nat \ {0} /\ SizeMod \in Nat /\ filled[B] \in Nat
      /\ filled[B] < SizeMod
      /\ IsFiniteSet(Undoing(B)) /\ Cardinality(Undoing(B)) \in Nat
      /\ filled[B] = Taken(B) + Cardinality(Undoing(B)) /\ Taken(B) \in Nat
  BY <1>0, BufferNumbers, SizeSays
<1>2. w \in Undoing(B) /\ Cardinality(Undoing(B)) # 0
  BY <1>0, <1>1, FS_EmptySet DEF Undoing
<1>3. (filled[B] - 1) % SizeMod = filled[B] - 1 /\ filled[B] - 1 \in 0 .. SizeMod - 1
  <2>1. PICK m \in Nat : m = filled[B] - 1
    BY <1>1, <1>2
  <2>2. m < SizeMod
    BY <1>1, <2>1
  <2>3. m % SizeMod = m /\ m \in 0 .. SizeMod - 1
    BY <1>1, <2>2
  <2> QED
    BY <2>1, <2>3
<1>4. Buffer!BufferTypeOK'
  <2>1. 0 \in 0 .. SizeMod - 1
    BY <1>1
  <2> QED
    BY <1>0, <1>3, <2>1
       DEF Buffer!BufferTypeOK, Buffer!Records, Buffer!Offsets, Buffer!Idle, Buffer!Bufs
<1>5. /\ pusher'[w].stage = "idle"
      /\ \A v \in Writers : v # w => pusher'[v] = pusher[v]
  BY <1>0 DEF Buffer!BufferTypeOK, Buffer!Idle
<1>6. \A b \in Buffer!Bufs : Undoing(b)' = IF b = B THEN Undoing(b) \ {w} ELSE Undoing(b)
  BY <1>0, <1>5 DEF Undoing
<1>7. \A b \in Buffer!Bufs : filled'[b] = IF b = B THEN filled[B] - 1 ELSE filled[b]
  BY <1>0, <1>3 DEF Buffer!BufferTypeOK
<1>8. \A b \in Buffer!Bufs : Taken(b)' = Taken(b)
  <2>2. Cardinality(Undoing(B) \ {w}) = Cardinality(Undoing(B)) - 1
    BY <1>1, <1>2, FS_RemoveElement
  <2>3. Cardinality(Undoing(B)') = Cardinality(Undoing(B)) - 1 /\ filled'[B] = filled[B] - 1
    BY <1>6, <1>7, <2>2
  <2>4. Taken(B)' = Taken(B)
    BY <1>1, <2>3 DEF Taken
  <2>5. ASSUME NEW b \in Buffer!Bufs, b # B PROVE Taken(b)' = Taken(b)
    BY <1>6, <1>7, <2>5 DEF Taken
  <2> QED
    BY <2>4, <2>5
<1>9. \A b \in Buffer!Bufs : \A i : Copying(b, i)' <=> Copying(b, i)
  BY <1>0, <1>5 DEF Copying
<1>a. \A b \in Buffer!Bufs, i \in Buffer!Offsets : Intact(b, i)' <=> Intact(b, i)
  BY <1>8, <1>9 DEF Intact
<1>b. Apart'
  <2>1. \A b \in Buffer!Bufs : /\ Taken(b)' \in 0 .. Capacity
                               /\ Undoing(b)' # {} => Taken(b)' = Capacity
    BY <1>6, <1>8 DEF Apart
  <2>2. \A v \in Writers, b \in Buffer!Bufs :
            pusher'[v].stage = "copy" /\ pusher'[v].buf = b => pusher'[v].at < Taken(b)'
    BY <1>5, <1>8 DEF Apart
  <2>3. \A u, v \in Writers : /\ pusher'[u].stage = "copy" /\ pusher'[v].stage = "copy"
                              /\ pusher'[u].buf = pusher'[v].buf /\ pusher'[u].at = pusher'[v].at
                              => u = v
    BY <1>5 DEF Apart
  <2>4. \A v \in Writers : pusher'[v].stage # "idle" /\ pusher'[v].rec \notin cut'
                           => pusher'[v].buf = input'
    BY <1>0, <1>5 DEF Apart
  <2>5. \A v \in Writers : pusher'[v].stage # "idle" => pusher'[v].rec \in 1 .. pushed'
    <3>1. pushed' = pushed /\ pusher[w].stage # "idle"
      BY <1>0
    <3> QED
      BY <1>5, <3>1 DEF Apart
  <2> QED
    BY <2>1, <2>2, <2>3, <2>4, <2>5 DEF Apart
<1> QED
  BY <1>0, <1>4, <1>5, <1>a, <1>b DEF Moved, Alone

(* The copy of a record makes its slot intact.                             *)
LEMMA CopyMoves ==
  ASSUME Buffer!BufferingAssumption, Buffer!BufferTypeOK, Apart,
         NEW w \in Writers, Buffer!PushCopy(w)
  PROVE  Buffer!BufferTypeOK' /\ Apart' /\ Moved(w)
<1>p. PICK B \in Buffer!Bufs : B = pusher[w].buf
  BY DEF Buffer!BufferTypeOK
<1>q. PICK n \in Nat : n = pusher[w].at
  BY BufferNumbers DEF Buffer!BufferTypeOK
<1>r. PICK r \in Buffer!Records : r = pusher[w].rec
  <2>1. /\ pusher[w].rec \in 1 .. pushed /\ pushed \in 0 .. MaxRecords /\ MaxRecords \in Nat
    BY BufferNumbers DEF Apart, Buffer!BufferTypeOK, Buffer!PushCopy
  <2> QED
    BY <2>1 DEF Buffer!Records
<1>1. Capacity \in Nat \ {0} /\ SizeMod \in Nat /\ SizeMod > 0 /\ 0 \in 0 .. SizeMod - 1
  BY BufferNumbers
<1>2. pusher[w].stage = "copy" /\ n < Taken(B)
  BY <1>p, <1>q DEF Buffer!PushCopy, Apart
<1>3. n \in Buffer!Offsets
  <2>1. PICK t \in Nat : t = Taken(B) /\ t <= Capacity
    BY SizeSays
  <2> QED
    BY <1>1, <1>2, <2>1 DEF Buffer!Offsets
<1>4. /\ slots' = [slots EXCEPT ![B][n] = r]
      /\ accepted' = accepted \cup {r}
      /\ pusher' = [pusher EXCEPT ![w] = Buffer!Idle]
      /\ UNCHANGED <<input, filled, pushed, cut, late, outside>>
  BY <1>p, <1>q, <1>r, <1>3 DEF Buffer!PushCopy
<1>5. Buffer!BufferTypeOK'
  BY <1>1, <1>3, <1>4 DEF Buffer!BufferTypeOK, Buffer!Idle, Buffer!Bufs, Buffer!Records
<1>6. /\ pusher'[w].stage = "idle"
      /\ \A v \in Writers : v # w => pusher'[v] = pusher[v]
  BY <1>4 DEF Buffer!BufferTypeOK, Buffer!Idle
<1>7. \A b : Undoing(b)' = Undoing(b)
  BY <1>2, <1>6 DEF Undoing
<1>8. \A b : Taken(b)' = Taken(b)
  BY <1>4, <1>7 DEF Taken
<1>9. \A b \in Buffer!Bufs, i \in Buffer!Offsets :
         slots'[b][i] = IF b = B /\ i = n THEN r ELSE slots[b][i]
  BY <1>3, <1>4 DEF Buffer!BufferTypeOK
<1>a. /\ Copying(B, n) /\ ~Copying(B, n)'
      /\ \A b \in Buffer!Bufs, i \in Buffer!Offsets :
            b # B \/ i # n => (Copying(b, i)' <=> Copying(b, i))
  <2>1. Copying(B, n)
    BY <1>p, <1>q, <1>2 DEF Copying
  <2>2. ~Copying(B, n)'
    BY <1>p, <1>q, <1>2, <1>6 DEF Copying, Apart
  <2>3. \A b \in Buffer!Bufs, i \in Buffer!Offsets :
            b # B \/ i # n => (Copying(b, i)' <=> Copying(b, i))
    BY <1>p, <1>q, <1>2, <1>6 DEF Copying
  <2> QED
    BY <2>1, <2>2, <2>3
<1>b. \A b \in Buffer!Bufs, i \in Buffer!Offsets :
         Intact(b, i)' <=> Intact(b, i) \/ (b = B /\ i = n)
  BY <1>2, <1>8, <1>a DEF Intact
<1>c. ~Intact(B, n)
  BY <1>a DEF Intact
<1>d. Apart'
  <2>1. \A b \in Buffer!Bufs : /\ Taken(b)' \in 0 .. Capacity
                               /\ Undoing(b)' # {} => Taken(b)' = Capacity
    BY <1>7, <1>8 DEF Apart
  <2>2. \A v \in Writers, b \in Buffer!Bufs :
            pusher'[v].stage = "copy" /\ pusher'[v].buf = b => pusher'[v].at < Taken(b)'
    BY <1>6, <1>8 DEF Apart
  <2>3. \A u, v \in Writers : /\ pusher'[u].stage = "copy" /\ pusher'[v].stage = "copy"
                              /\ pusher'[u].buf = pusher'[v].buf /\ pusher'[u].at = pusher'[v].at
                              => u = v
    BY <1>6 DEF Apart
  <2>4. \A v \in Writers : pusher'[v].stage # "idle" /\ pusher'[v].rec \notin cut'
                           => pusher'[v].buf = input'
    BY <1>4, <1>6 DEF Apart
  <2>5. \A v \in Writers : pusher'[v].stage # "idle" => pusher'[v].rec \in 1 .. pushed'
    BY <1>4, <1>6 DEF Apart
  <2> QED
    BY <2>1, <2>2, <2>3, <2>4, <2>5 DEF Apart
<1>e. r \in cut \/ Kept(input, Capacity, r)'
  <2>1. r \in cut \/ B = input
    BY <1>p, <1>r, <1>2 DEF Apart
  <2>2. Kept(B, Capacity, r)'
    <3>1. Intact(B, n)' /\ slots'[B][n] = r /\ n < Capacity
      BY <1>1, <1>3, <1>9, <1>b DEF Buffer!Offsets
    <3> QED
      BY <1>3, <3>1 DEF Kept, Has
  <2>3. input' = input
    BY <1>4
  <2> QED
    BY <2>1, <2>2, <2>3 DEF Kept, Has
<1>f. \A b \in Buffer!Bufs, i \in Buffer!Offsets :
          /\ Intact(b, i) => Intact(b, i)' /\ slots'[b][i] = slots[b][i]
          /\ Intact(b, i)' =>
                \/ Intact(b, i)
                \/ /\ pusher[w].stage = "copy" /\ pusher'[w].stage = "idle"
                   /\ b = pusher[w].buf /\ slots'[b][i] = pusher[w].rec
                   /\ i = pusher[w].at
  BY <1>p, <1>q, <1>r, <1>2, <1>6, <1>9, <1>b, <1>c
<1> QED
  BY <1>4, <1>5, <1>6, <1>d, <1>e, <1>f DEF Moved, Alone

(* Every step of a push.                                                   *)
LEMMA PushMoves ==
  ASSUME Buffer!BufferingAssumption, Buffer!BufferTypeOK, Apart,
         NEW w \in Writers, Buffer!PushStep(w)
  PROVE  Buffer!BufferTypeOK' /\ Apart' /\ Moved(w)
  BY BeginMoves, TakeMoves, RefuseMoves, UndoMoves, CopyMoves DEF Buffer!PushStep

(* The buffers are apart when they are empty.                              *)
LEMMA InitMoves ==
  ASSUME Buffer!BufferingAssumption, Buffer!BufferInit
  PROVE  /\ Buffer!BufferTypeOK /\ Apart
         /\ \A b \in Buffer!Bufs, i \in Buffer!Offsets : ~Intact(b, i)
<1>1. /\ Capacity \in Nat \ {0} /\ SizeMod \in Nat /\ MaxRecords \in Nat
      /\ SizeMod > 2 * (Capacity + Cardinality(Writers)) /\ Cardinality(Writers) \in Nat
  <2>1. /\ Capacity \in Nat \ {0} /\ IsFiniteSet(Writers) /\ SizeMod \in Nat /\ MaxRecords \in Nat
        /\ SizeMod > 2 * (Capacity + Cardinality(Writers))
    BY DEF Buffer!BufferingAssumption, Cardinality, Buffer!Cardinality, IsFiniteSet,
           Buffer!IsFiniteSet
  <2> QED
    BY <2>1, FS_CardinalityType
<1>2. 0 \in 0 .. SizeMod - 1 /\ 0 \in 0 .. MaxRecords
  BY <1>1
<1>3. Buffer!BufferTypeOK
  <2>1. slots \in [Buffer!Bufs -> [Buffer!Offsets -> Buffer!Records \cup {Buffer!NoRecord}]]
    BY DEF Buffer!BufferInit
  <2>2. pusher \in [Writers -> [stage : {"idle", "reserve", "copy", "undo"}, buf : Buffer!Bufs,
                               at : 0 .. SizeMod - 1,
                               rec : Buffer!Records \cup {Buffer!NoRecord}]]
    BY <1>2 DEF Buffer!BufferInit, Buffer!Idle, Buffer!Bufs, Buffer!NoRecord
  <2>3. filled \in [Buffer!Bufs -> 0 .. SizeMod - 1]
    BY <1>2 DEF Buffer!BufferInit
  <2>4. /\ input \in Buffer!Bufs /\ pushed \in 0 .. MaxRecords
        /\ accepted \subseteq Buffer!Records /\ cut \subseteq Buffer!Records
        /\ late \in BOOLEAN /\ outside \in BOOLEAN
    <3>1. 0 \in Buffer!Bufs /\ {} \subseteq Buffer!Records
      BY DEF Buffer!Bufs
    <3>2. /\ input = 0 /\ pushed = 0 /\ accepted = {} /\ cut = {}
          /\ late = FALSE /\ outside = FALSE
      BY DEF Buffer!BufferInit
    <3> QED
      BY <1>2, <3>1, <3>2
  <2> QED
    BY <2>1, <2>2, <2>3, <2>4 DEF Buffer!BufferTypeOK
<1>4. \A w \in Writers : pusher[w].stage = "idle"
  BY DEF Buffer!BufferInit, Buffer!Idle
<1>5. \A b \in Buffer!Bufs : Undoing(b) = {} /\ filled[b] = 0
  BY <1>4 DEF Undoing, Buffer!BufferInit
<1>6. \A b \in Buffer!Bufs : Taken(b) = 0
  BY <1>5, FS_EmptySet DEF Taken
<1>7. Apart
  BY <1>1, <1>4, <1>5, <1>6 DEF Apart
<1>8. \A b \in Buffer!Bufs, i \in Buffer!Offsets : ~Intact(b, i)
  BY <1>1, <1>6 DEF Intact, Buffer!Offsets
<1> QED
  BY <1>3, <1>7, <1>8

(* A snapshot swaps the buffers, and cuts the pushes under way.            *)
LEMMA SnapshotMoves ==
  ASSUME Buffer!BufferingAssumption, Buffer!BufferTypeOK, Apart, Buffer!Snapshot,
         UNCHANGED <<filled, slots, pusher, pushed, accepted, late, outside>>
  PROVE  /\ Buffer!BufferTypeOK' /\ Apart'
         /\ input' = 1 - input /\ 1 - input' = input /\ cut \subseteq cut'
         /\ \A b \in Buffer!Bufs, i \in Buffer!Offsets :
               Intact(b, i)' = Intact(b, i)
<1>1. input \in Buffer!Bufs /\ 1 - input \in Buffer!Bufs /\ input' = 1 - input /\ 1 - input' = input
  BY DEF Buffer!Snapshot, Buffer!Output, Buffer!BufferTypeOK, Buffer!Bufs
<1>2. cut' = cut \cup {pusher[w].rec : w \in {v \in Writers : pusher[v].stage # "idle"}}
  BY DEF Buffer!Snapshot
<1>3. \A w \in Writers : pusher[w].stage # "idle" => pusher[w].rec \in Buffer!Records
  <2>1. pushed \in 0 .. MaxRecords /\ MaxRecords \in Nat
    BY BufferNumbers DEF Buffer!BufferTypeOK
  <2> QED
    BY <2>1 DEF Apart, Buffer!Records
<1>4. cut' \subseteq Buffer!Records
  <2>1. \A x \in cut' :
           x \in cut \/ \E w \in Writers : pusher[w].stage # "idle" /\ x = pusher[w].rec
    BY <1>2
  <2>2. cut \subseteq Buffer!Records
    BY DEF Buffer!BufferTypeOK
  <2> QED
    BY <1>3, <2>1, <2>2
<1>5. Buffer!BufferTypeOK'
  BY <1>1, <1>4 DEF Buffer!BufferTypeOK
<1>6. /\ \A b : Undoing(b)' = Undoing(b) /\ Taken(b)' = Taken(b)
      /\ \A b, i : Copying(b, i)' = Copying(b, i)
  BY DEF Undoing, Taken, Copying
<1>7. \A w \in Writers : pusher'[w].stage # "idle" => pusher'[w].rec \in cut'
  BY <1>2
<1>8. Apart'
  BY <1>6, <1>7 DEF Apart
<1> QED
  BY <1>1, <1>2, <1>5, <1>6, <1>8 DEF Intact

(* A clear that no push outlives empties the output buffer.                *)
LEMMA ClearMoves ==
  ASSUME Buffer!BufferingAssumption, Buffer!BufferTypeOK, Apart, Buffer!ClearSnapshot, ~late',
         UNCHANGED <<input, slots, pusher, pushed, accepted, cut, outside>>
  PROVE  /\ Buffer!BufferTypeOK' /\ Apart'
         /\ \A i \in Buffer!Offsets : ~Intact(1 - input, i)'
         /\ \A i \in Buffer!Offsets : Intact(input, i)' = Intact(input, i)
<1>1. input \in Buffer!Bufs /\ 1 - input \in Buffer!Bufs /\ input # 1 - input
  BY DEF Buffer!BufferTypeOK, Buffer!Bufs
<1>2. PICK out \in Buffer!Bufs : out = 1 - input
  BY <1>1
<1>3. /\ filled' = [filled EXCEPT ![out] = 0]
      /\ \A w \in Writers : pusher[w].stage \in {"copy", "undo"} => pusher[w].buf # out
  BY <1>2 DEF Buffer!ClearSnapshot, Buffer!Output
<1>4. Capacity \in Nat \ {0} /\ SizeMod \in Nat /\ 0 \in 0 .. SizeMod - 1
  <2>1. Capacity \in Nat \ {0} /\ SizeMod \in Nat /\ filled[out] \in Nat /\ filled[out] < SizeMod
    BY BufferNumbers
  <2> QED
    BY <2>1
<1>5. Buffer!BufferTypeOK'
  <2>1. late' \in BOOLEAN
    BY DEF Buffer!ClearSnapshot, Buffer!BufferTypeOK
  <2> QED
    BY <1>3, <1>4, <2>1 DEF Buffer!BufferTypeOK
<1>6. \A b \in Buffer!Bufs : filled'[b] = IF b = out THEN 0 ELSE filled[b]
  BY <1>3 DEF Buffer!BufferTypeOK
<1>7. /\ \A b : Undoing(b)' = Undoing(b)
      /\ \A b, i : Copying(b, i)' = Copying(b, i)
  BY DEF Undoing, Copying
<1>8. Taken(out)' = 0 /\ Undoing(out) = {}
  <2>1. Undoing(out) = {}
    BY <1>3 DEF Undoing
  <2>2. Cardinality(Undoing(out)') = 0 /\ filled'[out] = 0
    BY <1>6, <1>7, <2>1, FS_EmptySet
  <2> QED
    BY <2>1, <2>2 DEF Taken
<1>9. \A b \in Buffer!Bufs : b # out => Taken(b)' = Taken(b)
  BY <1>6, <1>7 DEF Taken
<1>a. Apart'
  <2>1. \A b \in Buffer!Bufs : /\ Taken(b)' \in 0 .. Capacity
                               /\ Undoing(b)' # {} => Taken(b)' = Capacity
    BY <1>4, <1>7, <1>8, <1>9 DEF Apart
  <2>2. \A v \in Writers, b \in Buffer!Bufs :
            pusher'[v].stage = "copy" /\ pusher'[v].buf = b => pusher'[v].at < Taken(b)'
    BY <1>3, <1>9 DEF Apart
  <2> QED
    BY <2>1, <2>2 DEF Apart
<1>b. \A i \in Buffer!Offsets : ~Intact(out, i)'
  BY <1>4, <1>8 DEF Intact, Buffer!Offsets
<1>c. PICK inp \in Buffer!Bufs : inp = input /\ inp # out
  BY <1>1, <1>2
<1>d. \A i \in Buffer!Offsets : Intact(inp, i)' = Intact(inp, i)
  BY <1>7, <1>9, <1>c DEF Intact
<1> QED
  BY <1>2, <1>5, <1>a, <1>b, <1>c, <1>d DEF Intact

(* A record stays in one place while a push moves ...                      *)
LEMMA SingleMoves ==
  ASSUME Buffer!BufferingAssumption, Buffer!BufferTypeOK, Apart, NEW w \in Writers, Moved(w),
         NEW r, Single(r)
  PROVE  Single(r)'
<1>n. pushed \in Nat
  BY BufferNumbers DEF Buffer!BufferTypeOK
<1>0. \A b \in Buffer!Bufs, i \in Buffer!Offsets : Has(b, i, r) => Kept(b, Capacity, r)
  <2>1. \A i \in Buffer!Offsets : i < Capacity
    BY BufferNumbers DEF Buffer!Offsets
  <2> QED
    BY <2>1 DEF Kept
<1>1. \A b \in Buffer!Bufs, i \in Buffer!Offsets :
         Has(b, i, r)' => \/ Has(b, i, r)
                          \/ /\ pusher[w].stage = "copy" /\ pusher'[w].stage = "idle"
                             /\ b = pusher[w].buf /\ i = pusher[w].at /\ r = pusher[w].rec
  BY DEF Moved, Has
<1>2. \A b \in Buffer!Bufs :
         Kept(b, Capacity, r)' => \/ Kept(b, Capacity, r)
                                  \/ /\ pusher[w].stage = "copy" /\ pusher'[w].stage = "idle"
                                     /\ b = pusher[w].buf /\ r = pusher[w].rec
  BY <1>0, <1>1 DEF Kept
<1>3. \A v \in Writers : pusher'[v].stage # "idle" /\ pusher'[v].rec = r =>
            \/ pusher[v].stage # "idle" /\ pusher[v].rec = r
            \/ v = w /\ pusher[w].stage = "idle" /\ r = pushed + 1
  BY DEF Moved, Alone
<1>4. /\ \A v \in Writers : pusher[v].stage # "idle" /\ pusher[v].rec = r => r # pushed + 1
      /\ \A b \in Buffer!Bufs : Kept(b, Capacity, r) => r # pushed + 1
  <2>1. \A x \in 1 .. pushed : x # pushed + 1
    BY <1>n
  <2> QED
    BY <2>1 DEF Apart, Single
<1>5. \A u, v \in Writers : /\ pusher'[u].stage # "idle" /\ pusher'[u].rec = r
                            /\ pusher'[v].stage # "idle" /\ pusher'[v].rec = r
                            => u = v
  BY <1>3, <1>4 DEF Single
<1>6. \A v \in Writers, b \in Buffer!Bufs : pusher'[v].stage # "idle" /\ pusher'[v].rec = r
                                            => ~Kept(b, Capacity, r)'
  <2> SUFFICES ASSUME NEW v \in Writers, NEW b \in Buffer!Bufs, pusher'[v].stage # "idle",
                      pusher'[v].rec = r, Kept(b, Capacity, r)'
               PROVE  FALSE
    OBVIOUS
  <2>1. CASE Kept(b, Capacity, r)
    BY <2>1, <1>3, <1>4 DEF Single
  <2>2. CASE /\ pusher[w].stage = "copy" /\ pusher'[w].stage = "idle" /\ r = pusher[w].rec
    BY <2>2, <1>3 DEF Single
  <2> QED
    BY <1>2, <2>1, <2>2
<1>7. \A b, c \in Buffer!Bufs, i, j \in Buffer!Offsets : Has(b, i, r)' /\ Has(c, j, r)'
                                                         => b = c /\ i = j
  <2>1. \A b \in Buffer!Bufs, i \in Buffer!Offsets :
           ~(Has(b, i, r) /\ pusher[w].stage = "copy" /\ r = pusher[w].rec)
    BY <1>0 DEF Single
  <2> QED
    BY <1>1, <2>1 DEF Single
<1>8. \A b \in Buffer!Bufs : Kept(b, Capacity, r)' => r \in 1 .. pushed'
  <2>1. pushed' = pushed \/ pushed' = pushed + 1
    BY DEF Moved
  <2>2. 1 .. pushed \subseteq 1 .. pushed'
    BY <1>n, <2>1
  <2>3. \A b \in Buffer!Bufs : Kept(b, Capacity, r)' => r \in 1 .. pushed
    BY <1>2 DEF Single, Apart
  <2> QED
    BY <2>2, <2>3
<1> QED
  BY <1>5, <1>6, <1>7, <1>8 DEF Single

(* ... and when slots go out of use.                                       *)
LEMMA SingleStays ==
  ASSUME UNCHANGED <<slots, pusher, pushed>>, NEW r, Single(r),
         \A b \in Buffer!Bufs, i \in Buffer!Offsets : Intact(b, i)' => Intact(b, i)
  PROVE  Single(r)'
<1>1. \A b \in Buffer!Bufs, i \in Buffer!Offsets : Has(b, i, r)' => Has(b, i, r)
  BY DEF Has
<1>2. \A b \in Buffer!Bufs : Kept(b, Capacity, r)' => Kept(b, Capacity, r)
  BY <1>1 DEF Kept
<1> QED
  BY <1>1, <1>2 DEF Single

(* What is kept stays kept while a push moves.                             *)
LEMMA KeptMoves ==
  ASSUME NEW w \in Writers, Moved(w)
  PROVE  \A b \in Buffer!Bufs : \A n, r : Kept(b, n, r) => Kept(b, n, r)'
  BY DEF Moved, Kept, Has

(* The block and the chat task have the same buffer.                       *)
LEMMA SameBuffer ==
  /\ Chat!BufferInit <=> Buffer!BufferInit
  /\ Block!BufferInit <=> Buffer!BufferInit
  /\ \A w : /\ Chat!PushStep(w) <=> Buffer!PushStep(w)
            /\ Block!PushStep(w) <=> Buffer!PushStep(w)
  /\ Chat!Snapshot <=> Buffer!Snapshot
  /\ Block!Snapshot <=> Buffer!Snapshot
  /\ Chat!ClearSnapshot <=> Buffer!ClearSnapshot
  /\ Block!ClearSnapshot <=> Buffer!ClearSnapshot
<1>1. /\ Chat!BufferInit <=> Buffer!BufferInit
      /\ Block!BufferInit <=> Buffer!BufferInit
  BY DEF Chat!BufferInit, Block!BufferInit, Buffer!BufferInit, Chat!Bufs, Block!Bufs, Buffer!Bufs,
         Chat!Offsets, Block!Offsets, Buffer!Offsets, Chat!NoRecord, Block!NoRecord,
         Buffer!NoRecord, Chat!Idle, Block!Idle, Buffer!Idle
<1>2. ASSUME NEW w
      PROVE  /\ Chat!PushStep(w) <=> Buffer!PushStep(w)
             /\ Block!PushStep(w) <=> Buffer!PushStep(w)
  <2>1. /\ Chat!PushBegin(w) <=> Buffer!PushBegin(w)
        /\ Block!PushBegin(w) <=> Buffer!PushBegin(w)
    BY DEF Chat!PushBegin, Block!PushBegin, Buffer!PushBegin
  <2>2. /\ Chat!PushReserve(w) <=> Buffer!PushReserve(w)
        /\ Block!PushReserve(w) <=> Buffer!PushReserve(w)
    BY DEF Chat!PushReserve, Block!PushReserve, Buffer!PushReserve, Chat!Fits, Block!Fits,
           Buffer!Fits
  <2>3. /\ Chat!PushCopy(w) <=> Buffer!PushCopy(w)
        /\ Block!PushCopy(w) <=> Buffer!PushCopy(w)
    BY DEF Chat!PushCopy, Block!PushCopy, Buffer!PushCopy, Chat!Idle, Block!Idle, Buffer!Idle,
           Chat!Offsets, Block!Offsets, Buffer!Offsets, Chat!NoRecord, Block!NoRecord,
           Buffer!NoRecord
  <2>4. /\ Chat!PushUndo(w) <=> Buffer!PushUndo(w)
        /\ Block!PushUndo(w) <=> Buffer!PushUndo(w)
    BY DEF Chat!PushUndo, Block!PushUndo, Buffer!PushUndo, Chat!Idle, Block!Idle, Buffer!Idle,
           Chat!NoRecord, Block!NoRecord, Buffer!NoRecord
  <2> QED
    BY <2>1, <2>2, <2>3, <2>4 DEF Chat!PushStep, Block!PushStep, Buffer!PushStep
<1>3. /\ Chat!Snapshot <=> Buffer!Snapshot
      /\ Block!Snapshot <=> Buffer!Snapshot
      /\ Chat!ClearSnapshot <=> Buffer!ClearSnapshot
      /\ Block!ClearSnapshot <=> Buffer!ClearSnapshot
  BY DEF Chat!Snapshot, Block!Snapshot, Buffer!Snapshot, Chat!ClearSnapshot,
         Block!ClearSnapshot, Buffer!ClearSnapshot, Chat!Output, Block!Output, Buffer!Output
<1> QED
  BY <1>1, <1>2, <1>3

(* ... and the same bounds.                                                *)
LEMMA Buffering == Buffer!BufferingAssumption
  BY WorldAssumption
     DEF Chat!BufferingAssumption, Buffer!BufferingAssumption, Chat!Cardinality,
         Buffer!Cardinality, Chat!IsFiniteSet, Buffer!IsFiniteSet

----------------------------------------------------------------------------
(* Chat.  A message that no snapshot overlapped waits in a slot, in the    *)
(* range the worker is going to read, until it is sent or refused.         *)
Waiting ==
    /\ chatTask \in {"unused", "scheduled", "transfer", "clear", "finish"}
    /\ chunk \in Nat
    /\ chatTask = "transfer" => chunk <= Capacity + Cardinality(Writers)
    /\ told \in [Players -> [Buffer!Records -> Nat]]
    /\ \A r \in accepted \ cut, p \in Players :
        \/ told[p][r] > 0 \/ r \in chatMissed[p]
        \/ Kept(input, Capacity, r)
        \/ chatTask = "scheduled" /\ Kept(1 - input, Capacity, r)
        \/ chatTask = "transfer" /\ Kept(1 - input, chunk, r)

ChatKept == ~late /\ ~outside => Buffer!BufferTypeOK /\ Apart /\ Waiting

(* There is nothing to wait for at first.                                  *)
LEMMA InitChatKept == Chat!Init => ChatKept
<1> SUFFICES ASSUME Chat!Init PROVE ChatKept
  OBVIOUS
<1>1. Buffer!BufferTypeOK /\ Apart
  BY Buffering, InitMoves, SameBuffer DEF Chat!Init
<1>2. accepted = {}
  BY DEF Chat!Init, Chat!BufferInit
<1>3. told \in [Players -> [Buffer!Records -> Nat]]
  BY DEF Chat!Init, Chat!Records, Buffer!Records
<1>4. Waiting
  BY <1>2, <1>3 DEF Waiting, Chat!Init
<1> QED
  BY <1>1, <1>4 DEF ChatKept

(* A push leaves the messages in their slots, and keeps the one it copied. *)
LEMMA AddChatStep ==
  ASSUME Buffer!BufferTypeOK, Apart, Waiting, NEW w \in Writers, Chat!AddChat(w)
  PROVE  Buffer!BufferTypeOK' /\ Apart' /\ Waiting'
<1>1. Buffer!PushStep(w) /\ UNCHANGED <<chatTask, chunk, told, chatMissed>>
  BY SameBuffer DEF Chat!AddChat, Chat!taskVars
<1>2. Buffer!BufferTypeOK' /\ Apart' /\ Moved(w)
  BY <1>1, Buffering, PushMoves
<1>3. /\ input' = input /\ cut' = cut
      /\ \A r \in accepted' \ accepted : r \in cut \/ Kept(input, Capacity, r)'
  BY <1>2 DEF Moved
<1>4. input \in Buffer!Bufs /\ 1 - input \in Buffer!Bufs
  BY DEF Buffer!BufferTypeOK, Buffer!Bufs
<1>5. \A n, r : /\ Kept(input, n, r) => Kept(input, n, r)'
                /\ Kept(1 - input, n, r) => Kept(1 - input, n, r)'
  <2>1. PICK inp \in Buffer!Bufs, out \in Buffer!Bufs : inp = input /\ out = 1 - input
    BY <1>4
  <2>2. \A n, r : /\ Kept(inp, n, r) => Kept(inp, n, r)'
                  /\ Kept(out, n, r) => Kept(out, n, r)'
    BY <1>2, KeptMoves
  <2> QED
    BY <1>3, <2>1, <2>2 DEF Kept, Has
<1>6. Waiting'
  <2> SUFFICES ASSUME NEW r \in accepted' \ cut', NEW p \in Players
               PROVE  \/ told'[p][r] > 0 \/ r \in chatMissed'[p]
                      \/ Kept(input, Capacity, r)'
                      \/ chatTask' = "scheduled" /\ Kept(1 - input, Capacity, r)'
                      \/ chatTask' = "transfer" /\ Kept(1 - input, chunk, r)'
    BY <1>1 DEF Waiting
  <2>1. CASE r \in accepted
    <3>1. \/ told[p][r] > 0 \/ r \in chatMissed[p]
          \/ Kept(input, Capacity, r)
          \/ chatTask = "scheduled" /\ Kept(1 - input, Capacity, r)
          \/ chatTask = "transfer" /\ Kept(1 - input, chunk, r)
      BY <1>3, <2>1 DEF Waiting
    <3>2. Kept(1 - input, chunk, r) => Kept(1 - input, chunk, r)'
      <4>1. PICK n \in Nat : n = chunk
        BY DEF Waiting
      <4>2. Kept(1 - input, n, r) => Kept(1 - input, n, r)'
        BY <1>5
      <4> QED
        BY <1>1, <4>1, <4>2 DEF Kept
    <3>3. Kept(1 - input, Capacity, r) => Kept(1 - input, Capacity, r)'
      BY <1>5
    <3>4. Kept(input, Capacity, r) => Kept(input, Capacity, r)'
      BY <1>5
    <3> QED
      BY <1>1, <3>1, <3>2, <3>3, <3>4
  <2>2. CASE r \notin accepted
    BY <1>3, <2>2
  <2> QED
    BY <2>1, <2>2
<1> QED
  BY <1>2, <1>6

(* The snapshot takes what waits in the input along.                       *)
LEMMA ScheduleChatStep ==
  ASSUME Buffer!BufferTypeOK, Apart, Waiting, Chat!Schedule
  PROVE  Buffer!BufferTypeOK' /\ Apart' /\ Waiting'
<1>1. /\ chatTask = "unused" /\ chatTask' = "scheduled" /\ Buffer!Snapshot
      /\ UNCHANGED <<filled, slots, pusher, pushed, accepted, late, outside,
                     chunk, told, chatMissed>>
  BY SameBuffer DEF Chat!Schedule
<1>2. /\ Buffer!BufferTypeOK' /\ Apart'
      /\ input' = 1 - input /\ 1 - input' = input /\ cut \subseteq cut'
      /\ \A b \in Buffer!Bufs, i \in Buffer!Offsets : Intact(b, i)' = Intact(b, i)
  BY <1>1, Buffering, SnapshotMoves
<1>3. PICK inp \in Buffer!Bufs : inp = input
  BY DEF Buffer!BufferTypeOK
<1>4. \A r : Kept(inp, Capacity, r) => Kept(inp, Capacity, r)'
  BY <1>1, <1>2 DEF Kept, Has
<1>5. \A r : Kept(input, Capacity, r) => Kept(1 - input, Capacity, r)'
  BY <1>2, <1>3, <1>4 DEF Kept, Has
<1>6. Waiting'
  <2>1. \A r \in accepted' \ cut', p \in Players :
          told[p][r] > 0 \/ r \in chatMissed[p] \/ Kept(1 - input, Capacity, r)'
    BY <1>1, <1>2, <1>5 DEF Waiting
  <2> QED
    BY <1>1, <2>1 DEF Waiting
<1> QED
  BY <1>2, <1>6

(* The size the worker reads covers the slots in use.                      *)
LEMMA CaptureStep ==
  ASSUME Buffer!BufferTypeOK, Apart, Waiting, Chat!Capture
  PROVE  Buffer!BufferTypeOK' /\ Apart' /\ Waiting'
<1>1. /\ chatTask = "scheduled" /\ chatTask' = "transfer" /\ chunk' = filled[1 - input]
      /\ UNCHANGED <<bufferVars, told, chatMissed>>
  BY DEF Chat!Capture, Chat!Output, Chat!bufferVars, bufferVars
<1>2. PICK out \in Buffer!Bufs : out = 1 - input
  BY DEF Buffer!BufferTypeOK, Buffer!Bufs
<1>3. PICK n \in Nat : n = filled[out]
  BY Buffering, BufferNumbers
<1>4. n <= Capacity + Cardinality(Writers) /\ Taken(out) \in Nat /\ Taken(out) <= n
  BY <1>3, Buffering, SizeSays
<1>5. Buffer!BufferTypeOK' /\ Apart'
  BY <1>1 DEF bufferVars, Buffer!BufferTypeOK, Apart, Taken, Undoing
<1>6. chunk' = n
  BY <1>1, <1>2, <1>3
<1>7. /\ \A r : Kept(input, Capacity, r)' = Kept(input, Capacity, r)
      /\ \A r : Kept(out, n, r)' = Kept(out, n, r)
  BY <1>1 DEF Kept, Has, Intact, Taken, Undoing, Copying, bufferVars
<1>8. \A r : Kept(out, Capacity, r) => Kept(out, n, r)
  <2>1. \A i \in Buffer!Offsets : Intact(out, i) => i < n
    <3>1. PICK t \in Nat : t = Taken(out) /\ t <= n
      BY <1>4
    <3>2. \A i \in Buffer!Offsets : i \in Int
      BY DEF Buffer!Offsets
    <3>3. \A i \in Buffer!Offsets : i < t => i < n
      BY <3>1, <3>2
    <3> QED
      BY <3>1, <3>3 DEF Intact
  <2> QED
    BY <2>1 DEF Kept, Has
<1>9. Waiting'
  <2>1. ASSUME NEW r \in accepted \ cut, NEW p \in Players
        PROVE  \/ told[p][r] > 0 \/ r \in chatMissed[p]
               \/ Kept(input, Capacity, r)' \/ Kept(1 - input, chunk, r)'
    <3>1. \/ told[p][r] > 0 \/ r \in chatMissed[p]
          \/ Kept(input, Capacity, r) \/ Kept(out, Capacity, r)
      BY <1>1, <1>2 DEF Waiting
    <3>2. Kept(1 - input, chunk, r)' <=> Kept(out, n, r)'
      BY <1>1, <1>2, <1>6 DEF Kept, bufferVars
    <3> QED
      BY <1>7, <1>8, <3>1, <3>2
  <2>2. /\ chunk' \in Nat /\ chunk' <= Capacity + Cardinality(Writers)
        /\ UNCHANGED <<accepted, cut, told, chatMissed>> /\ chatTask' = "transfer"
    BY <1>1, <1>4, <1>6 DEF bufferVars
  <2> QED
    BY <2>1, <2>2 DEF Waiting
<1> QED
  BY <1>5, <1>9

(* Every message in the range the worker copies is sent or refused.        *)
LEMMA TransferStep ==
  ASSUME Buffer!BufferTypeOK, Apart, Waiting, Chat!Transfer, ~outside'
  PROVE  Buffer!BufferTypeOK' /\ Apart' /\ Waiting'
<1>1. /\ chatTask = "transfer" /\ chatTask' = "clear" /\ chunk <= Capacity
      /\ UNCHANGED <<input, filled, slots, pusher, pushed, accepted, cut, late, chunk, outside>>
  <2>1. chunk \in Nat /\ Capacity \in Nat
    BY Buffering, BufferNumbers DEF Waiting
  <2> QED
    BY <2>1 DEF Chat!Transfer
<1>2. PICK out \in Buffer!Bufs, n \in Nat : out = 1 - input /\ n = chunk
  BY DEF Buffer!BufferTypeOK, Buffer!Bufs, Waiting
<1> DEFINE recs == Chat!Snapshotted(n)
           Hits(r) == {i \in DOMAIN recs : recs[i] = r}
           Count(r) == Chat!Cardinality(Hits(r))
<1>3. PICK to \in SUBSET Players :
        /\ told' = [p \in Players |-> [r \in Chat!Records |->
                      IF p \in to /\ Count(r) > 0 THEN told[p][r] + Count(r) ELSE told[p][r]]]
        /\ chatMissed' = [p \in Players |-> IF p \in to THEN chatMissed[p]
                            ELSE chatMissed[p] \cup {recs[i] : i \in DOMAIN recs}]
  BY <1>1, <1>2 DEF Chat!Transfer
<1>4. DOMAIN recs = 0 .. n - 1 /\ \A i \in 0 .. n - 1 : recs[i] = slots[out][i]
  BY <1>2 DEF Chat!Snapshotted, Chat!Output
<1>5. ASSUME NEW r
      PROVE  Count(r) \in Nat /\ (Count(r) = 0 <=> Hits(r) = {})
  <2>1. IsFiniteSet(0 .. n - 1) /\ Hits(r) \in SUBSET (0 .. n - 1)
    BY <1>4, FS_Interval
  <2>2. IsFiniteSet(Hits(r))
    BY <2>1, FS_Subset
  <2>3. Cardinality(Hits(r)) \in Nat /\ (Cardinality(Hits(r)) = 0 <=> Hits(r) = {})
    BY <2>2, FS_CardinalityType, FS_EmptySet
  <2>4. Count(r) = Cardinality(Hits(r))
    BY DEF Cardinality, Chat!Cardinality
  <2> QED
    BY <2>3, <2>4
<1>6. \A r : Kept(out, n, r) => Hits(r) # {} /\ \E i \in DOMAIN recs : recs[i] = r
  <2> SUFFICES ASSUME NEW r, Kept(out, n, r)
               PROVE  \E i \in DOMAIN recs : recs[i] = r
    BY DEF Hits
  <2>1. PICK i \in Buffer!Offsets : i < n /\ slots[out][i] = r
    BY DEF Kept, Has
  <2>2. i \in 0 .. n - 1
    BY <2>1 DEF Buffer!Offsets
  <2> QED
    BY <1>4, <2>1, <2>2
<1> HIDE DEF Count, Hits, recs
<1>7. /\ \A p \in Players, r \in Buffer!Records : told'[p][r] \in Nat /\ told'[p][r] >= told[p][r]
      /\ \A p \in Players, r \in Buffer!Records : p \in to /\ Kept(out, n, r) => told'[p][r] > 0
      /\ told' \in [Players -> [Buffer!Records -> Nat]]
  <2>0. Chat!Records = Buffer!Records
    BY DEF Chat!Records, Buffer!Records
  <2>1. ASSUME NEW p \in Players, NEW r \in Buffer!Records
        PROVE  /\ told'[p][r] \in Nat /\ told'[p][r] >= told[p][r]
               /\ p \in to /\ Kept(out, n, r) => told'[p][r] > 0
    <3>1. told[p][r] \in Nat
      BY DEF Waiting
    <3>2. told'[p][r] = IF p \in to /\ Count(r) > 0 THEN told[p][r] + Count(r) ELSE told[p][r]
      BY <1>3, <2>0
    <3>3. PICK t \in Nat, c \in Nat : t = told[p][r] /\ c = Count(r)
      BY <3>1, <1>5
    <3>4. Kept(out, n, r) => c # 0
      BY <1>5, <1>6, <3>3
    <3> QED
      BY <3>2, <3>3, <3>4
  <2>2. told' \in [Players -> [Buffer!Records -> Nat]]
    <3>1. \A p \in Players : told'[p] = [r \in Buffer!Records |-> told'[p][r]]
      BY <1>3, <2>0
    <3>2. \A p \in Players : told'[p] \in [Buffer!Records -> Nat]
      BY <3>1, <2>1
    <3>3. told' = [p \in Players |-> told'[p]]
      BY <1>3
    <3> QED
      BY <3>2, <3>3
  <2> QED
    BY <2>1, <2>2
<1>8. \A p \in Players : \A r : /\ r \in chatMissed[p] => r \in chatMissed'[p]
                                /\ p \notin to /\ Kept(out, n, r) => r \in chatMissed'[p]
  BY <1>3, <1>6
<1>9. Buffer!BufferTypeOK' /\ Apart'
  BY <1>1 DEF Buffer!BufferTypeOK, Apart, Taken, Undoing
<1>a. Waiting'
  <2>1. ASSUME NEW r \in accepted \ cut, NEW p \in Players
        PROVE  told'[p][r] > 0 \/ r \in chatMissed'[p] \/ Kept(input, Capacity, r)'
    <3>1. \/ told[p][r] > 0 \/ r \in chatMissed[p]
          \/ Kept(input, Capacity, r) \/ Kept(out, n, r)
      BY <1>1, <1>2 DEF Waiting
    <3>2. Kept(input, Capacity, r)' = Kept(input, Capacity, r)
      BY <1>1 DEF Kept, Has, Intact, Taken, Undoing, Copying
    <3>3. r \in Buffer!Records
      BY DEF Buffer!BufferTypeOK
    <3>4. told[p][r] \in Nat /\ told'[p][r] \in Nat /\ told'[p][r] >= told[p][r]
      BY <1>7, <3>3 DEF Waiting
    <3>5. told[p][r] > 0 => told'[p][r] > 0
      BY <3>4
    <3> QED
      BY <1>7, <1>8, <3>1, <3>2, <3>3, <3>5
  <2> QED
    BY <1>1, <1>7, <2>1 DEF Waiting
<1> QED
  BY <1>9, <1>a

(* The clear finds nothing that waits in the output buffer.                *)
LEMMA ClearChatStep ==
  ASSUME Buffer!BufferTypeOK, Apart, Waiting, Chat!Clear, ~late'
  PROVE  Buffer!BufferTypeOK' /\ Apart' /\ Waiting'
<1>1. /\ chatTask = "clear" /\ chatTask' = "finish" /\ Buffer!ClearSnapshot
      /\ UNCHANGED <<input, slots, pusher, pushed, accepted, cut, outside, chunk, told, chatMissed>>
  BY SameBuffer DEF Chat!Clear
<1>2. /\ Buffer!BufferTypeOK' /\ Apart'
      /\ \A i \in Buffer!Offsets : Intact(input, i)' = Intact(input, i)
  BY <1>1, Buffering, ClearMoves
<1>3. \A r : Kept(input, Capacity, r) => Kept(input, Capacity, r)'
  BY <1>1, <1>2 DEF Kept, Has
<1>4. Waiting'
  BY <1>1, <1>3 DEF Waiting
<1> QED
  BY <1>2, <1>4

(* A step that leaves buffer and task alone.                               *)
LEMMA StutterWaiting ==
  Waiting /\ UNCHANGED <<bufferVars, chatVars>> => Waiting'
<1> SUFFICES ASSUME Waiting, UNCHANGED <<bufferVars, chatVars>> PROVE Waiting'
  OBVIOUS
<1>1. \A r : /\ Kept(input, Capacity, r)' = Kept(input, Capacity, r)
             /\ Kept(1 - input, Capacity, r)' = Kept(1 - input, Capacity, r)
             /\ Kept(1 - input, chunk, r)' = Kept(1 - input, chunk, r)
  BY DEF bufferVars, chatVars, Kept, Has, Intact, Taken, Undoing, Copying
<1>2. UNCHANGED <<accepted, cut, chatTask, chunk, told, chatMissed>>
  BY DEF bufferVars, chatVars
<1> QED
  BY <1>1, <1>2 DEF Waiting

(* ... and one that leaves the buffer alone.                               *)
LEMMA StutterApart ==
  Buffer!BufferTypeOK /\ Apart /\ UNCHANGED bufferVars => Buffer!BufferTypeOK' /\ Apart'
  BY DEF Buffer!BufferTypeOK, Apart, bufferVars, Taken, Undoing

(* The worker is through. *)
LEMMA FinishChatStep ==
  ASSUME Waiting, Chat!Finish
  PROVE  Waiting'
  BY DEF Waiting, Chat!Finish, Chat!bufferVars, Kept, Has, Intact, Taken, Undoing, Copying

(* operator new is never asked for a size that wrapped.                    *)
LEMMA NoThrow ==
  ASSUME Buffer!BufferTypeOK, Waiting PROVE ~Chat!Throw
<1>1. /\ chatTask = "transfer" => chunk <= Capacity + Cardinality(Writers)
      /\ chunk \in Nat /\ Capacity \in Nat /\ Cardinality(Writers) \in Nat /\ SizeMod \in Nat
      /\ SizeMod > 2 * (Capacity + Cardinality(Writers))
  BY Buffering, BufferNumbers DEF Waiting
<1>2. SizeMod \div 2 >= Capacity + Cardinality(Writers)
  BY <1>1
<1>3. SizeMod \div 2 \in Nat
  BY <1>1
<1> QED
  BY <1>1, <1>2, <1>3 DEF Chat!Throw, Chat!Wrapped

(* Every step of the chat.                                                 *)
LEMMA NextChatKept == ChatKept /\ Chat!Next => ChatKept'
<1> SUFFICES ASSUME ChatKept, Chat!Next, ~late', ~outside'
             PROVE  Buffer!BufferTypeOK' /\ Apart' /\ Waiting'
  BY DEF ChatKept
<1>1. ~late /\ ~outside
  <2>1. ASSUME NEW w \in Writers, Chat!AddChat(w) PROVE late' = late /\ (outside => outside')
    BY <2>1 DEF Chat!AddChat, Chat!PushStep, Chat!PushBegin, Chat!PushReserve, Chat!PushCopy,
                Chat!PushUndo
  <2>2. ASSUME \/ Chat!Schedule \/ Chat!Capture \/ Chat!Transfer \/ Chat!Throw \/ Chat!Clear
               \/ Chat!Finish
        PROVE  late => late'
    BY <2>2 DEF Chat!Schedule, Chat!Capture, Chat!Transfer, Chat!Throw, Chat!Clear, Chat!Finish,
                Chat!bufferVars, Chat!ClearSnapshot
  <2>3. ASSUME \/ Chat!Schedule \/ Chat!Capture \/ Chat!Transfer \/ Chat!Throw \/ Chat!Clear
               \/ Chat!Finish
        PROVE  outside => outside'
    BY <2>3 DEF Chat!Schedule, Chat!Capture, Chat!Transfer, Chat!Throw, Chat!Clear, Chat!Finish,
                Chat!bufferVars
  <2> QED
    BY <2>1, <2>2, <2>3 DEF Chat!Next
<1>2. Buffer!BufferTypeOK /\ Apart /\ Waiting
  BY <1>1 DEF ChatKept
<1>3. ASSUME NEW w \in Writers, Chat!AddChat(w)
      PROVE  Buffer!BufferTypeOK' /\ Apart' /\ Waiting'
  BY <1>2, <1>3, AddChatStep
<1>4. CASE Chat!Schedule
  BY <1>2, <1>4, ScheduleChatStep
<1>5. CASE Chat!Capture
  BY <1>2, <1>5, CaptureStep
<1>6. CASE Chat!Transfer
  BY <1>2, <1>6, TransferStep
<1>7. CASE Chat!Clear
  BY <1>2, <1>7, ClearChatStep
<1>8. CASE Chat!Finish
  <2>1. UNCHANGED bufferVars
    BY <1>8 DEF Chat!Finish, Chat!bufferVars, bufferVars
  <2> QED
    BY <1>2, <1>8, <2>1, StutterApart, FinishChatStep
<1> QED
  BY <1>2, <1>3, <1>4, <1>5, <1>6, <1>7, <1>8, NoThrow DEF Chat!Next

(* The kept slots are below the size, which is what a reader looks at.     *)
LEMMA KeptHolds ==
  ASSUME Buffer!BufferTypeOK, Apart, NEW b \in Buffer!Bufs, NEW n, NEW r, Kept(b, n, r)
  PROVE  \E i \in Buffer!Offsets : i < filled[b] /\ slots[b][i] = r
<1>1. PICK i \in Buffer!Offsets : i < Taken(b) /\ slots[b][i] = r
  BY DEF Kept, Has, Intact
<1>2. PICK t \in Nat, f \in Nat : t = Taken(b) /\ f = filled[b] /\ t <= f
  BY Buffering, BufferNumbers, SizeSays
<1>3. i \in Int
  BY DEF Buffer!Offsets
<1> QED
  BY <1>1, <1>2, <1>3

(* What the invariant says to a player.                                    *)
LEMMA ChatKeptReaches == ChatKept => Chat!ChatReachesEveryone
<1> SUFFICES ASSUME ChatKept, ~outside, ~late, NEW r \in accepted \ cut, NEW p \in Players
             PROVE  \/ told[p][r] > 0 \/ r \in chatMissed[p]
                    \/ Chat!Holds(input, r)
                    \/ chatTask \in {"scheduled", "transfer"} /\ Chat!Holds(1 - input, r)
  BY DEF Chat!ChatReachesEveryone, Chat!Output
<1>1. Buffer!BufferTypeOK /\ Apart /\ Waiting
  BY DEF ChatKept
<1>2. PICK inp \in Buffer!Bufs, out \in Buffer!Bufs : inp = input /\ out = 1 - input
  BY <1>1 DEF Buffer!BufferTypeOK, Buffer!Bufs
<1>3. \A b \in Buffer!Bufs : \A n : Kept(b, n, r) => Chat!Holds(b, r)
  BY <1>1, KeptHolds DEF Chat!Holds, Chat!Offsets, Buffer!Offsets
<1>4. \/ told[p][r] > 0 \/ r \in chatMissed[p]
      \/ Kept(inp, Capacity, r)
      \/ chatTask = "scheduled" /\ Kept(out, Capacity, r)
      \/ chatTask = "transfer" /\ Kept(out, chunk, r)
  BY <1>1, <1>2 DEF Waiting
<1>5. PICK n : n = chunk
  OBVIOUS
<1> QED
  BY <1>2, <1>3, <1>4, <1>5

(* A chat message that the history accepted, and that no swap of the       *)
(* buffers overlapped, reaches every spawned player, for buffers of every  *)
(* size and any number of handlers, unless a push outlives a clear.        *)
THEOREM ChatIsDelivered == WorldSpec => []ChatReachesEveryone
<1>1. WorldInit => (part = "chat" => ChatKept)
  BY InitChatKept DEF WorldInit
<1>2. (part = "chat" => ChatKept) /\ [WorldNext]_allVars => (part = "chat" => ChatKept)'
  <2> SUFFICES ASSUME part = "chat" => ChatKept, [WorldNext]_allVars, part' = "chat"
               PROVE  ChatKept'
    OBVIOUS
  <2>1. part = "chat" /\ ChatKept
    BY DEF WorldNext, allVars
  <2>2. Chat!Next \/ UNCHANGED <<bufferVars, chatVars>>
    BY <2>1 DEF WorldNext, TaskNext, allVars, taskVars
  <2>3. CASE Chat!Next
    BY <2>1, <2>3, NextChatKept
  <2>4. CASE UNCHANGED <<bufferVars, chatVars>>
    <3>1. late' = late /\ outside' = outside
      BY <2>4 DEF bufferVars
    <3> QED
      BY <2>1, <2>4, <3>1, StutterApart, StutterWaiting DEF ChatKept
  <2> QED
    BY <2>2, <2>3, <2>4
<1>3. (part = "chat" => ChatKept) => ChatReachesEveryone
  BY ChatKeptReaches DEF ChatReachesEveryone
<1> QED
  BY <1>1, <1>2, <1>3, PTL DEF WorldSpec

----------------------------------------------------------------------------
(* Block changes.  One that no snapshot overlapped waits in a slot until   *)
(* it is committed, and until it is multicast.                             *)
Counters ==
    /\ task \in {"unused", "scheduled", "commit", "multicast", "level", "clear", "finish"}
    /\ handled \in Nat /\ cutInto \in BOOLEAN
    /\ state \in [Players -> {"out", "queue", "target", "level", "refused"}]
    /\ committed \in [Buffer!Records -> 0 .. 2] /\ sent \in [Buffer!Records -> 0 .. 2]

Queued ==
    \A r \in accepted \ cut :
        /\ committed[r] = 0 =>
              \/ Kept(input, Capacity, r)
              \/ task \in {"scheduled", "commit"} /\ Kept(1 - input, Capacity, r)
        /\ sent[r] = 0 =>
              \/ Kept(input, Capacity, r)
              \/ task \in {"scheduled", "commit", "multicast"} /\ Kept(1 - input, Capacity, r)

(* The players have been told of the map, and between the commit and the   *)
(* multicast the records in between tell them.                             *)
Committed == Block!Snapshotted(handled)
Matching ==
    /\ task = "multicast" => \A i \in 0 .. handled - 1 :
                                i \in Buffer!Offsets /\ Intact(1 - input, i)
    /\ \A p \in Block!In("level") \ missed, pos \in Block!Reached :
          map[pos] = IF task = "multicast" THEN Block!Last(Committed, pos, view[p][pos])
                                           ELSE view[p][pos]

(* A record is committed and multicast once; one that waits has not been.  *)
Once(r) ==
    /\ committed[r] <= 1 /\ sent[r] <= committed[r]
    /\ r > pushed => committed[r] = 0
    /\ \A w \in Writers : pusher[w].stage # "idle" /\ pusher[w].rec = r => committed[r] = 0
    /\ Kept(input, Capacity, r) => committed[r] = 0
    /\ Kept(1 - input, Capacity, r) =>
          \/ task \in {"scheduled", "commit"} /\ committed[r] = 0
          \/ task = "multicast" /\ committed[r] = 1 /\ sent[r] = 0
          \/ task \in {"level", "clear"}

Sound == Matching /\ \A r \in Buffer!Records \ cut : Once(r)

BlockBuffer == /\ Buffer!BufferTypeOK /\ Apart /\ Counters /\ Queued
               /\ \A r \in Buffer!Records : Single(r)

BlockKept == ~late /\ ~outside => BlockBuffer /\ (~cutInto => Sound)

(* How a tally grows.                                                      *)
LEMMA TallyGrows ==
  ASSUME NEW count \in [Buffer!Records -> 0 .. 2], NEW recs, NEW n \in Nat,
         DOMAIN recs = 0 .. n - 1
  PROVE  /\ Block!Tally(count, recs) \in [Buffer!Records -> 0 .. 2]
         /\ \A r \in Buffer!Records :
              /\ Block!Tally(count, recs)[r] >= count[r]
              /\ (\A i \in 0 .. n - 1 : recs[i] # r) => Block!Tally(count, recs)[r] = count[r]
              /\ \A i \in 0 .. n - 1 : recs[i] = r => Block!Tally(count, recs)[r] # 0
              /\ \A i \in 0 .. n - 1 :
                    /\ recs[i] = r /\ count[r] = 0
                    /\ \A j \in 0 .. n - 1 : recs[j] = r => j = i
                    => Block!Tally(count, recs)[r] = 1
<1> DEFINE Hits(r) == {i \in DOMAIN recs : recs[i] = r}
           Sum(r) == count[r] + Block!Cardinality(Hits(r))
<1>1. ASSUME NEW r
      PROVE  /\ Block!Cardinality(Hits(r)) \in Nat
             /\ Block!Cardinality(Hits(r)) = 0 <=> Hits(r) = {}
             /\ \A i : Hits(r) = {i} => Block!Cardinality(Hits(r)) = 1
  <2>1. IsFiniteSet(0 .. n - 1) /\ Hits(r) \in SUBSET (0 .. n - 1)
    BY FS_Interval
  <2>2. IsFiniteSet(Hits(r))
    BY <2>1, FS_Subset
  <2>3. /\ Cardinality(Hits(r)) \in Nat /\ (Cardinality(Hits(r)) = 0 <=> Hits(r) = {})
        /\ \A i : Hits(r) = {i} => Cardinality(Hits(r)) = 1
    BY <2>2, FS_CardinalityType, FS_EmptySet, FS_Singleton
  <2>4. Block!Cardinality(Hits(r)) = Cardinality(Hits(r))
    BY DEF Cardinality, Block!Cardinality
  <2> QED
    BY <2>3, <2>4
<1>2. Block!Tally(count, recs) = [r \in Buffer!Records |-> IF Sum(r) > 2 THEN 2 ELSE Sum(r)]
  BY DEF Block!Tally, Block!Records, Buffer!Records
<1>3. \A r, i : i \in Hits(r) <=> i \in 0 .. n - 1 /\ recs[i] = r
  OBVIOUS
<1> HIDE DEF Hits
<1>4. ASSUME NEW r \in Buffer!Records
      PROVE  /\ Block!Tally(count, recs)[r] \in 0 .. 2
             /\ Block!Tally(count, recs)[r] >= count[r]
             /\ Hits(r) = {} => Block!Tally(count, recs)[r] = count[r]
             /\ Hits(r) # {} => Block!Tally(count, recs)[r] # 0
             /\ \A i : Hits(r) = {i} /\ count[r] = 0 => Block!Tally(count, recs)[r] = 1
  <2>1. PICK k \in Nat, c \in 0 .. 2 : k = Block!Cardinality(Hits(r)) /\ c = count[r]
    BY <1>1
  <2>2. PICK t : t = Block!Tally(count, recs)[r]
    OBVIOUS
  <2>3. t = IF c + k > 2 THEN 2 ELSE c + k
    BY <1>2, <2>1, <2>2
  <2>4. /\ k = 0 <=> Hits(r) = {}
        /\ \A i : Hits(r) = {i} => k = 1
    BY <1>1, <2>1
  <2>5. t \in 0 .. 2 /\ t >= c /\ (k = 0 => t = c) /\ (k # 0 => t # 0)
        /\ (k = 1 /\ c = 0 => t = 1)
    BY <2>1, <2>3
  <2> HIDE DEF Sum
  <2> QED
    BY <2>1, <2>2, <2>4, <2>5
<1>5. Block!Tally(count, recs) \in [Buffer!Records -> 0 .. 2]
  BY <1>2, <1>4
<1>6. ASSUME NEW r \in Buffer!Records, NEW i \in 0 .. n - 1, recs[i] = r
      PROVE  /\ Hits(r) # {}
             /\ (\A j \in 0 .. n - 1 : recs[j] = r => j = i) => Hits(r) = {i}
  BY <1>3, <1>6
<1>7. ASSUME NEW r \in Buffer!Records, \A i \in 0 .. n - 1 : recs[i] # r
      PROVE  Hits(r) = {}
  BY <1>3, <1>7
<1>8. ASSUME NEW r \in Buffer!Records
      PROVE  /\ Block!Tally(count, recs)[r] >= count[r]
             /\ (\A i \in 0 .. n - 1 : recs[i] # r) => Block!Tally(count, recs)[r] = count[r]
             /\ \A i \in 0 .. n - 1 : recs[i] = r => Block!Tally(count, recs)[r] # 0
             /\ \A i \in 0 .. n - 1 :
                   /\ recs[i] = r /\ count[r] = 0
                   /\ \A j \in 0 .. n - 1 : recs[j] = r => j = i
                   => Block!Tally(count, recs)[r] = 1
  <2>1. PICK t, c : t = Block!Tally(count, recs)[r] /\ c = count[r]
    OBVIOUS
  <2>2. /\ t >= c
        /\ Hits(r) = {} => t = c
        /\ Hits(r) # {} => t # 0
        /\ \A i : Hits(r) = {i} /\ c = 0 => t = 1
    BY <1>4, <2>1
  <2>3. (\A i \in 0 .. n - 1 : recs[i] # r) => t = c
    BY <1>7, <2>2
  <2>4. \A i \in 0 .. n - 1 : recs[i] = r => t # 0
    BY <1>6, <2>2
  <2>5. ASSUME NEW i \in 0 .. n - 1, recs[i] = r, c = 0,
               \A j \in 0 .. n - 1 : recs[j] = r => j = i
        PROVE  t = 1
    BY <1>6, <2>2, <2>5
  <2> QED
    BY <2>1, <2>2, <2>3, <2>4, <2>5
<1> QED
  BY <1>5, <1>8

(* The sides of the buffer, as values.                                     *)
LEMMA Sides ==
  Buffer!BufferTypeOK => \E inp, out \in Buffer!Bufs : inp = input /\ out = 1 - input /\ inp # out
  BY DEF Buffer!BufferTypeOK, Buffer!Bufs

(* A slot that is intact is below the capacity, so what it holds is kept.  *)
LEMMA HasKept ==
  ASSUME NEW b, NEW r
  PROVE  Kept(b, Capacity, r) <=> \E i \in Buffer!Offsets : Has(b, i, r)
<1>1. \A i \in Buffer!Offsets : i < Capacity
  BY Buffering DEF Buffer!Offsets, Buffer!BufferingAssumption
<1> QED
  BY <1>1 DEF Kept

(* A task's step that does not touch the buffer.                           *)
LEMMA SlotsStay ==
  ASSUME UNCHANGED <<input, filled, slots, pusher, pushed>>
  PROVE  /\ \A r : /\ Kept(input, Capacity, r)' = Kept(input, Capacity, r)
                   /\ Kept(1 - input, Capacity, r)' = Kept(1 - input, Capacity, r)
                   /\ Single(r) => Single(r)'
         /\ \A i : Intact(1 - input, i)' = Intact(1 - input, i)
<1>1. \A r : /\ Kept(input, Capacity, r)' = Kept(input, Capacity, r)
             /\ Kept(1 - input, Capacity, r)' = Kept(1 - input, Capacity, r)
  BY DEF Kept, Has, Intact, Taken, Undoing, Copying
<1>2. \A i : Intact(1 - input, i)' = Intact(1 - input, i)
  BY DEF Intact, Taken, Undoing, Copying
<1>3. \A b, i : Intact(b, i)' = Intact(b, i)
  BY DEF Intact, Taken, Undoing, Copying
<1>4. \A r : Single(r) => Single(r)'
  BY <1>3, SingleStays
<1> QED
  BY <1>1, <1>2, <1>4

(* The records between commit and multicast stay where their slots do.     *)
LEMMA MatchingStays ==
  ASSUME Buffer!BufferTypeOK, Matching,
         UNCHANGED <<input, task, handled, map, view, missed, Block!In("level")>>,
         task = "multicast" => \A i \in Buffer!Offsets : Intact(1 - input, i) =>
             Intact(1 - input, i)' /\ slots'[1 - input][i] = slots[1 - input][i]
  PROVE  Matching'
<1>1. task = "multicast" => \A i \in 0 .. handled - 1 :
          i \in Buffer!Offsets /\ Intact(1 - input, i)'
  BY DEF Matching
<1>2. task = "multicast" => Committed' = Committed
  BY DEF Matching, Committed, Block!Snapshotted, Block!Output
<1>3. Block!In("level")' = Block!In("level")
  OBVIOUS
<1>4. ASSUME NEW p \in Block!In("level") \ missed, NEW pos \in Block!Reached, task = "multicast"
      PROVE  Block!Last(Committed, pos, view[p][pos])' = Block!Last(Committed, pos, view[p][pos])
  BY <1>2, <1>4 DEF Block!Last
<1> QED
  BY <1>1, <1>3, <1>4 DEF Matching

(* A push while the task is anywhere.                                      *)
LEMMA ChangeBlockStep ==
  ASSUME BlockBuffer, NEW w \in Writers, Block!ChangeBlock(w)
  PROVE  BlockBuffer' /\ (Sound => Sound')
<1> USE DEF BlockBuffer
<1>1. /\ Buffer!PushStep(w)
      /\ UNCHANGED <<task, handled, map, state, view, missed, committed, sent, cutInto>>
  BY SameBuffer DEF Block!ChangeBlock, Block!taskVars
<1>2. Buffer!BufferTypeOK' /\ Apart' /\ Moved(w)
  BY <1>1, Buffering, PushMoves
<1>3. /\ input' = input /\ cut' = cut
      /\ \A r \in accepted' \ accepted : r \in cut \/ Kept(input, Capacity, r)'
  BY <1>2 DEF Moved
<1>4. PICK inp \in Buffer!Bufs, out \in Buffer!Bufs : inp = input /\ out = 1 - input /\ inp # out
  BY Sides
<1>5. \A r : /\ Kept(inp, Capacity, r) => Kept(inp, Capacity, r)'
             /\ Kept(out, Capacity, r) => Kept(out, Capacity, r)'
  BY <1>2, KeptMoves
<1>6. Queued'
  <2> SUFFICES ASSUME NEW r \in accepted' \ cut'
               PROVE  /\ committed[r] = 0 =>
                            \/ Kept(inp, Capacity, r)'
                            \/ task \in {"scheduled", "commit"} /\ Kept(out, Capacity, r)'
                      /\ sent[r] = 0 =>
                            \/ Kept(inp, Capacity, r)'
                            \/ /\ task \in {"scheduled", "commit", "multicast"}
                               /\ Kept(out, Capacity, r)'
    BY <1>1, <1>3, <1>4 DEF Queued
  <2>1. CASE r \in accepted
    BY <1>3, <1>4, <1>5, <2>1 DEF Queued
  <2>2. CASE r \notin accepted
    <3>1. Kept(input, Capacity, r)'
      BY <1>3, <2>2
    <3>2. Kept(inp, Capacity, r)'
      BY <1>3, <1>4, <3>1 DEF Kept
    <3> QED
      BY <3>2
  <2> QED
    BY <2>1, <2>2
<1>7. \A r \in Buffer!Records : Single(r)'
  BY <1>2, Buffering, SingleMoves
<1>8. ASSUME Sound PROVE Sound'
  <2>1. Matching'
    <3>1. \A i \in Buffer!Offsets : Intact(out, i) =>
             Intact(out, i)' /\ slots'[out][i] = slots[out][i]
      BY <1>2 DEF Moved
    <3>2. Block!In("level")' = Block!In("level")
      BY <1>1 DEF Block!In
    <3>3. \A i \in Buffer!Offsets : Intact(1 - input, i) =>
             Intact(1 - input, i)' /\ slots'[1 - input][i] = slots[1 - input][i]
      BY <1>3, <1>4, <3>1 DEF Intact, Taken, Undoing, Copying
    <3> QED
      BY <1>1, <1>3, <1>8, <3>2, <3>3, MatchingStays DEF Sound
  <2>2. ASSUME NEW r \in Buffer!Records \ cut PROVE Once(r)'
    <3>0. Once(r)
      BY <1>8 DEF Sound
    <3>1. pushed \in Nat /\ r \in Nat /\ (pushed' = pushed \/ pushed' = pushed + 1)
      BY <1>2, Buffering, BufferNumbers DEF Buffer!BufferTypeOK, Buffer!Records, Moved
    <3>2. r > pushed' => committed'[r] = 0
      BY <1>1, <3>0, <3>1 DEF Once
    <3>3. ASSUME NEW v \in Writers, pusher'[v].stage # "idle", pusher'[v].rec = r
          PROVE  committed'[r] = 0
      <4>1. \/ pusher[v].stage # "idle" /\ pusher[v].rec = r
            \/ r = pushed + 1
        BY <1>2, <3>3 DEF Moved, Alone
      <4> QED
        BY <1>1, <3>0, <3>1, <4>1 DEF Once
    <3>4. ASSUME NEW b \in Buffer!Bufs, Kept(b, Capacity, r)', ~Kept(b, Capacity, r)
          PROVE  pusher[w].stage # "idle" /\ pusher[w].rec = r /\ pusher[w].buf = b
      <4>1. PICK i \in Buffer!Offsets : Has(b, i, r)'
        BY <3>4 DEF Kept
      <4>2. ~Has(b, i, r)
        BY <3>4, HasKept
      <4> QED
        BY <1>2, <4>1, <4>2 DEF Moved, Has
    <3>5. Kept(input, Capacity, r)' => committed'[r] = 0
      <4>1. Kept(inp, Capacity, r)' => committed[r] = 0
        BY <1>4, <3>0, <3>4 DEF Once
      <4> QED
        BY <1>1, <1>3, <1>4, <4>1 DEF Kept
    <3>6. Kept(1 - input, Capacity, r)' => Kept(1 - input, Capacity, r)
      <4>1. Kept(out, Capacity, r)' => Kept(out, Capacity, r)
        BY <1>4, <3>4 DEF Apart
      <4> QED
        BY <1>3, <1>4, <4>1 DEF Kept
    <3> QED
      BY <1>1, <3>0, <3>2, <3>3, <3>5, <3>6 DEF Once
  <2> QED
    BY <1>3, <2>1, <2>2 DEF Sound
<1>9. Counters'
  BY <1>1 DEF Counters
<1> QED
  BY <1>2, <1>6, <1>7, <1>8, <1>9

(* A step of the worker, or of a player, that leaves the buffer alone.     *)
LEMMA BufferStays ==
  ASSUME BlockBuffer, UNCHANGED bufferVars
  PROVE  /\ Buffer!BufferTypeOK' /\ Apart'
         /\ \A r \in Buffer!Records : Single(r)'
         /\ \A r : /\ Kept(input, Capacity, r)' = Kept(input, Capacity, r)
                   /\ Kept(1 - input, Capacity, r)' = Kept(1 - input, Capacity, r)
         /\ \A i : Intact(1 - input, i)' = Intact(1 - input, i)
<1>1. UNCHANGED <<input, filled, slots, pusher, pushed>>
  BY DEF bufferVars
<1> QED
  BY <1>1, SlotsStay, StutterApart DEF BlockBuffer

(* A player begins to wait for the level.                                  *)
LEMMA WaitForLevelStep ==
  ASSUME BlockBuffer, NEW p \in Players, Block!WaitForLevel(p)
  PROVE  BlockBuffer' /\ (Sound => Sound')
<1>1. /\ UNCHANGED bufferVars
      /\ UNCHANGED <<task, handled, map, view, missed, committed, sent, cutInto>>
      /\ state[p] = "out" /\ state' = [state EXCEPT ![p] = "queue"]
  BY DEF Block!WaitForLevel, Block!bufferVars, bufferVars
<1>2. /\ Block!In("level")' = Block!In("level")
      /\ state' \in [Players -> {"out", "queue", "target", "level", "refused"}]
  <2>1. \A q \in Players : state'[q] = "level" <=> state[q] = "level"
    BY <1>1 DEF BlockBuffer, Counters
  <2> QED
    BY <1>1, <2>1 DEF Block!In, BlockBuffer, Counters
<1>3. UNCHANGED <<input, filled, slots, pusher, pushed, accepted, cut>>
  BY <1>1 DEF bufferVars
<1>4. Counters' /\ Queued'
  BY <1>1, <1>2, <1>3, BufferStays DEF BlockBuffer, Counters, Queued
<1>5. ASSUME Sound PROVE Sound'
  <2>1. Matching'
    BY <1>1, <1>2, <1>3, <1>5, BufferStays, MatchingStays DEF Sound, BlockBuffer
  <2>2. \A r \in Buffer!Records \ cut : Once(r)'
    BY <1>1, <1>3, <1>5, BufferStays DEF Sound, Once
  <2> QED
    BY <1>3, <2>1, <2>2 DEF Sound
<1> QED
  BY <1>1, <1>4, <1>5, BufferStays DEF BlockBuffer

(* The snapshot: nothing waited in the old output buffer.                  *)
LEMMA ScheduleBlockStep ==
  ASSUME BlockBuffer, Block!Schedule
  PROVE  BlockBuffer' /\ (Sound => Sound')
<1> USE DEF BlockBuffer
<1>1. /\ task = "unused" /\ task' = "scheduled" /\ Buffer!Snapshot
      /\ state' = [p \in Players |-> IF state[p] = "queue" THEN "target" ELSE state[p]]
      /\ UNCHANGED <<filled, slots, pusher, pushed, accepted, late, outside,
                     handled, map, view, missed, committed, sent, cutInto>>
  BY SameBuffer DEF Block!Schedule, Block!Ready
<1>2. /\ Buffer!BufferTypeOK' /\ Apart'
      /\ input' = 1 - input /\ 1 - input' = input /\ cut \subseteq cut'
      /\ \A b \in Buffer!Bufs, i \in Buffer!Offsets : Intact(b, i)' = Intact(b, i)
  BY <1>1, Buffering, SnapshotMoves
<1>3. PICK inp \in Buffer!Bufs, out \in Buffer!Bufs : inp = input /\ out = 1 - input /\ inp # out
  BY Sides
<1>4. \A r : /\ Kept(inp, Capacity, r)' = Kept(inp, Capacity, r)
             /\ Kept(out, Capacity, r)' = Kept(out, Capacity, r)
  BY <1>1, <1>2 DEF Kept, Has
<1>5. \A r : /\ Kept(1 - input, Capacity, r)' = Kept(input, Capacity, r)
             /\ Kept(input, Capacity, r)' = Kept(1 - input, Capacity, r)
  BY <1>2, <1>3, <1>4 DEF Kept, Has
<1>6. \A r \in Buffer!Records : Single(r)'
  BY <1>1, <1>2, SingleStays
<1>7. Counters'
  <2>1. \A p \in Players : state[p] \in {"out", "queue", "target", "level", "refused"}
    BY DEF Counters
  <2>2. state' \in [Players -> {"out", "queue", "target", "level", "refused"}]
    BY <1>1, <2>1
  <2> QED
    BY <1>1, <2>2 DEF Counters
<1>8. Queued'
  BY <1>1, <1>2, <1>5 DEF Queued
<1>9. ASSUME Sound PROVE Sound'
  <2>1. Block!In("level")' = Block!In("level")
    <3>1. \A q \in Players : state'[q] = "level" <=> state[q] = "level"
      BY <1>1 DEF Counters
    <3> QED
      BY <3>1 DEF Block!In
  <2>2. Matching'
    BY <1>1, <1>9, <2>1 DEF Sound, Matching
  <2>3. ASSUME NEW r \in Buffer!Records \ cut' PROVE Once(r)'
    <3>1. Once(r)
      BY <1>2, <1>9 DEF Sound
    <3>2. ~Kept(1 - input, Capacity, r)
      BY <1>1, <3>1 DEF Once
    <3> QED
      BY <1>1, <1>5, <3>1, <3>2 DEF Once
  <2> QED
    BY <2>2, <2>3 DEF Sound
<1> QED
  BY <1>2, <1>6, <1>7, <1>8, <1>9

(* A buffer in which something waits has a size.                           *)
LEMMA LookSizeStep ==
  ASSUME BlockBuffer, Block!LookSize
  PROVE  BlockBuffer' /\ (Sound => Sound')
<1>1. /\ UNCHANGED bufferVars /\ task = "scheduled"
      /\ task' = IF filled[1 - input] # 0 THEN "commit" ELSE "level"
      /\ UNCHANGED <<handled, map, state, view, missed, committed, sent, cutInto>>
  BY DEF Block!LookSize, Block!Output, Block!bufferVars, bufferVars
<1>2. UNCHANGED <<input, filled, slots, pusher, pushed, accepted, cut>>
  BY <1>1 DEF bufferVars
<1>3. PICK inp \in Buffer!Bufs, out \in Buffer!Bufs : inp = input /\ out = 1 - input /\ inp # out
  BY Sides DEF BlockBuffer
<1>4. \A r : Kept(1 - input, Capacity, r) => filled[1 - input] # 0
  <2> SUFFICES ASSUME NEW r, Kept(out, Capacity, r) PROVE filled[out] # 0
    BY <1>3
  <2>1. PICK i \in Buffer!Offsets : i < filled[out]
    BY KeptHolds DEF BlockBuffer
  <2> QED
    BY <2>1, Buffering DEF Buffer!Offsets, Buffer!BufferingAssumption
<1>5. Counters' /\ Queued'
  <2>1. Counters'
    BY <1>1 DEF BlockBuffer, Counters
  <2>2. \A r : Kept(1 - input, Capacity, r) => task' = "commit"
    BY <1>1, <1>4
  <2>3. Queued'
    BY <1>1, <1>2, <2>2, BufferStays DEF BlockBuffer, Queued
  <2> QED
    BY <2>1, <2>3
<1>6. ASSUME Sound PROVE Sound'
  <2>1. Block!In("level")' = Block!In("level")
    BY <1>1 DEF Block!In
  <2>2. Matching'
    BY <1>1, <1>6, <2>1 DEF Sound, Matching
  <2>3. \A r \in Buffer!Records \ cut : Once(r)'
    BY <1>1, <1>2, <1>6, BufferStays DEF Sound, Once
  <2> QED
    BY <1>2, <2>2, <2>3 DEF Sound
<1> QED
  BY <1>1, <1>5, <1>6, BufferStays DEF BlockBuffer

(* What the worker reads when it finds n records: all that is kept, and    *)
(* nothing else unless a push is still copying.                            *)
LEMMA WorkerReads ==
  ASSUME BlockBuffer, NEW n \in Nat, n = filled[1 - input], n <= Capacity
  PROVE  /\ DOMAIN Block!Snapshotted(n) = 0 .. n - 1 /\ 0 .. n - 1 \subseteq Buffer!Offsets
         /\ \A r : Kept(1 - input, Capacity, r) => \E i \in 0 .. n - 1 : Block!Snapshotted(n)[i] = r
         /\ ~Block!Uncopied(n) => \A i \in 0 .. n - 1 : Intact(1 - input, i)
         /\ ~Block!Uncopied(n) => \A r \in Buffer!Records, i \in 0 .. n - 1 :
               Block!Snapshotted(n)[i] = r =>
                  /\ Kept(1 - input, Capacity, r)
                  /\ \A j \in 0 .. n - 1 : Block!Snapshotted(n)[j] = r => j = i
<1> USE DEF BlockBuffer
<1>1. PICK out \in Buffer!Bufs : out = 1 - input
  BY Sides
<1>2. Taken(out) = n /\ Capacity \in Nat
  BY <1>1, Buffering, SizeSays, BufferNumbers
<1>3. /\ DOMAIN Block!Snapshotted(n) = 0 .. n - 1
      /\ \A i \in 0 .. n - 1 : Block!Snapshotted(n)[i] = slots[out][i]
  BY <1>1 DEF Block!Snapshotted, Block!Output
<1>4. 0 .. n - 1 \subseteq Buffer!Offsets
  BY <1>2 DEF Buffer!Offsets
<1>5. ASSUME NEW r, Kept(out, Capacity, r)
      PROVE  \E i \in 0 .. n - 1 : Block!Snapshotted(n)[i] = r
  <2>1. PICK i \in Buffer!Offsets : i < n /\ slots[out][i] = r
    BY <1>2, <1>5 DEF Kept, Has, Intact
  <2>2. i \in 0 .. n - 1
    BY <2>1 DEF Buffer!Offsets
  <2> QED
    BY <1>3, <2>1, <2>2
<1>6. ASSUME ~Block!Uncopied(n), NEW i \in 0 .. n - 1 PROVE Intact(out, i)
  <2>1. i < Taken(out)
    BY <1>2
  <2>2. ~Copying(out, i)
    BY <1>1, <1>6 DEF Copying, Block!Uncopied, Block!Output
  <2> QED
    BY <2>1, <2>2 DEF Intact
<1>7. ASSUME ~Block!Uncopied(n), NEW r \in Buffer!Records, NEW i \in 0 .. n - 1,
             Block!Snapshotted(n)[i] = r
      PROVE  /\ Kept(out, Capacity, r)
             /\ \A j \in 0 .. n - 1 : Block!Snapshotted(n)[j] = r => j = i
  <2>1. \A j \in 0 .. n - 1 : Block!Snapshotted(n)[j] = r => Has(out, j, r)
    BY <1>3, <1>6, <1>7 DEF Has
  <2>2. Single(r)
    OBVIOUS
  <2>3. \A j \in 0 .. n - 1 : Block!Snapshotted(n)[j] = r => j = i
    BY <1>4, <1>7, <2>1, <2>2 DEF Single
  <2> QED
    BY <1>4, <1>7, <2>1, <2>3, HasKept
<1> QED
  BY <1>1, <1>3, <1>4, <1>5, <1>6, <1>7

(* The commit counts every record that waited, and brings the map as far   *)
(* as the multicast is going to bring the players.                         *)
LEMMA CommitStep ==
  ASSUME BlockBuffer, Block!Commit, ~outside'
  PROVE  BlockBuffer' /\ (cutInto => cutInto') /\ (~cutInto' /\ Sound => Sound')
<1> USE DEF BlockBuffer
<1>1. PICK out \in Buffer!Bufs, n \in Nat :
         out = 1 - input /\ n = filled[out] /\ n = filled[1 - input]
  BY Sides, Buffering, BufferNumbers
<1>2. /\ task = "commit" /\ n <= Capacity /\ task' = "multicast" /\ handled' = n
      /\ map' = [pos \in Block!Positions |->
                   IF Block!IsCommitted(pos) THEN Block!Last(Block!Snapshotted(n), pos, map[pos])
                                             ELSE map[pos]]
      /\ committed' = Block!Tally(committed, Block!Snapshotted(n))
      /\ cutInto' = (cutInto \/ Block!Uncopied(n))
      /\ UNCHANGED bufferVars /\ UNCHANGED <<state, view, missed, sent>>
  <2>1. Capacity \in Nat
    BY Buffering, BufferNumbers
  <2> QED
    BY <1>1, <2>1 DEF Block!Commit, Block!Committed, Block!Output, bufferVars
<1>3. UNCHANGED <<input, filled, slots, pusher, pushed, accepted, cut>>
  BY <1>2 DEF bufferVars
<1>4. /\ committed \in [Buffer!Records -> 0 .. 2] /\ sent \in [Buffer!Records -> 0 .. 2]
      /\ DOMAIN Block!Snapshotted(n) = 0 .. n - 1
  BY <1>1, <1>2, WorkerReads DEF Counters
<1>5. /\ committed' \in [Buffer!Records -> 0 .. 2]
      /\ \A r \in Buffer!Records :
           /\ committed'[r] >= committed[r]
           /\ (\A i \in 0 .. n - 1 : Block!Snapshotted(n)[i] # r) => committed'[r] = committed[r]
           /\ \A i \in 0 .. n - 1 : Block!Snapshotted(n)[i] = r => committed'[r] # 0
           /\ \A i \in 0 .. n - 1 :
                 /\ Block!Snapshotted(n)[i] = r /\ committed[r] = 0
                 /\ \A j \in 0 .. n - 1 : Block!Snapshotted(n)[j] = r => j = i
                 => committed'[r] = 1
  BY <1>2, <1>4, TallyGrows
<1>6. Counters'
  BY <1>2, <1>5 DEF Counters
<1>7. Queued'
  <2> SUFFICES ASSUME NEW r \in accepted \ cut
               PROVE  /\ committed'[r] = 0 => Kept(input, Capacity, r)
                      /\ sent[r] = 0 => Kept(input, Capacity, r) \/ Kept(1 - input, Capacity, r)
    BY <1>2, <1>3, BufferStays DEF Queued
  <2>1. r \in Buffer!Records
    BY DEF Buffer!BufferTypeOK
  <2>2. Kept(1 - input, Capacity, r) => committed'[r] # 0
    BY <1>1, <1>2, <1>5, <2>1, WorkerReads
  <2>3. committed'[r] = 0 => committed[r] = 0
    <3>1. committed[r] \in 0 .. 2 /\ committed'[r] \in 0 .. 2 /\ committed'[r] >= committed[r]
      BY <1>4, <1>5, <2>1
    <3> QED
      BY <3>1
  <2> QED
    BY <2>2, <2>3 DEF Queued
<1>8. ASSUME ~cutInto', Sound PROVE Sound'
  <2>1. ~Block!Uncopied(n)
    BY <1>2, <1>8
  <2>2. Matching'
    <3>1. \A i \in 0 .. handled' - 1 : i \in Buffer!Offsets /\ Intact(1 - input, i)'
      BY <1>1, <1>2, <1>3, <2>1, WorkerReads, BufferStays
    <3>2. Committed' = Block!Snapshotted(n)
      BY <1>2, <1>3 DEF Committed, Block!Snapshotted, Block!Output
    <3>3. Block!In("level")' = Block!In("level")
      BY <1>2 DEF Block!In
    <3>4. ASSUME NEW p \in Block!In("level") \ missed, NEW pos \in Block!Reached
          PROVE  map'[pos] = Block!Last(Committed, pos, view[p][pos])'
      <4>1. map[pos] = view[p][pos]
        BY <1>2, <1>8 DEF Sound, Matching
      <4>2. map'[pos] = Block!Last(Block!Snapshotted(n), pos, view[p][pos])
        BY <1>2, <4>1 DEF Block!Reached
      <4> QED
        BY <1>2, <3>2, <4>2 DEF Block!Last
    <3> QED
      BY <1>2, <3>1, <3>3, <3>4 DEF Matching
  <2>3. ASSUME NEW r \in Buffer!Records \ cut PROVE Once(r)'
    <3>1. Once(r) /\ Single(r)
      BY <1>8 DEF Sound
    <3>2. committed[r] \in 0 .. 2 /\ sent[r] \in 0 .. 2
      BY <1>4
    <3>3. CASE \E i \in 0 .. n - 1 : Block!Snapshotted(n)[i] = r
      <4>1. PICK i \in 0 .. n - 1 : Block!Snapshotted(n)[i] = r
        BY <3>3
      <4>2. /\ Kept(1 - input, Capacity, r)
            /\ \A j \in 0 .. n - 1 : Block!Snapshotted(n)[j] = r => j = i
        BY <1>1, <1>2, <2>1, <4>1, WorkerReads
      <4>3. committed[r] = 0 /\ sent[r] = 0
        BY <1>2, <3>1, <3>2, <4>2 DEF Once
      <4>4. committed'[r] = 1
        BY <1>5, <4>1, <4>2, <4>3
      <4>5. ~(r > pushed)
        <5>1. r \in 1 .. pushed /\ pushed \in Nat
          BY <1>1, <3>1, <4>2, Buffering, BufferNumbers DEF Single, Buffer!BufferTypeOK
        <5> QED
          BY <5>1
      <4>6. \A w \in Writers : ~(pusher[w].stage # "idle" /\ pusher[w].rec = r)
        BY <1>1, <3>1, <4>2 DEF Single
      <4>7. ~Kept(input, Capacity, r)
        <5>1. PICK inp \in Buffer!Bufs : inp = input /\ inp # out
          BY <1>1, Sides
        <5>2. ~Kept(inp, Capacity, r)
          BY <1>1, <3>1, <4>2, <5>1, HasKept DEF Single
        <5> QED
          BY <5>1, <5>2
      <4> QED
        BY <1>2, <1>3, <4>3, <4>4, <4>5, <4>6, <4>7, BufferStays DEF Once
    <3>4. CASE \A i \in 0 .. n - 1 : Block!Snapshotted(n)[i] # r
      <4>1. committed'[r] = committed[r]
        BY <1>5, <3>4
      <4>2. ~Kept(1 - input, Capacity, r)
        BY <1>1, <1>2, <3>4, WorkerReads
      <4> QED
        BY <1>2, <1>3, <3>1, <4>1, <4>2, BufferStays DEF Once
    <3> QED
      BY <3>3, <3>4
  <2> QED
    BY <1>3, <2>2, <2>3 DEF Sound
<1> QED
  BY <1>2, <1>6, <1>7, <1>8, BufferStays

(* The multicast tells the players what was committed, if it reads the     *)
(* size the commit has read.                                               *)
LEMMA MulticastStep ==
  ASSUME BlockBuffer, Block!Multicast, ~outside'
  PROVE  BlockBuffer' /\ (cutInto => cutInto') /\ (~cutInto' /\ Sound => Sound')
<1> USE DEF BlockBuffer
<1>1. PICK out \in Buffer!Bufs, n \in Nat :
         out = 1 - input /\ n = filled[out] /\ n = filled[1 - input]
  BY Sides, Buffering, BufferNumbers
<1>0. ~(n > Capacity) /\ Capacity \in Nat
  BY <1>1, Buffering, BufferNumbers DEF Block!Multicast, Block!Output
<1>2. PICK to \in SUBSET Block!In("level") :
        /\ view' = [p \in Players |-> IF p \in to
                      THEN [pos \in Block!Positions |->
                              Block!Last(Block!Snapshotted(n), pos, view[p][pos])]
                      ELSE view[p]]
        /\ missed' = missed \cup (Block!In("level") \ to)
  BY <1>0, <1>1 DEF Block!Multicast, Block!Output
<1>3. /\ task = "multicast" /\ n <= Capacity /\ task' = "level"
      /\ sent' = Block!Tally(sent, Block!Snapshotted(n))
      /\ cutInto' = (cutInto \/ Block!Uncopied(n) \/ n # handled)
      /\ UNCHANGED bufferVars /\ UNCHANGED <<state, handled, map, committed>>
  BY <1>0, <1>1 DEF Block!Multicast, Block!Output, bufferVars
<1>4. UNCHANGED <<input, filled, slots, pusher, pushed, accepted, cut>>
  BY <1>3 DEF bufferVars
<1>5. /\ committed \in [Buffer!Records -> 0 .. 2] /\ sent \in [Buffer!Records -> 0 .. 2]
      /\ DOMAIN Block!Snapshotted(n) = 0 .. n - 1
  BY <1>1, <1>3, WorkerReads DEF Counters
<1>6. /\ sent' \in [Buffer!Records -> 0 .. 2]
      /\ \A r \in Buffer!Records :
           /\ sent'[r] >= sent[r]
           /\ (\A i \in 0 .. n - 1 : Block!Snapshotted(n)[i] # r) => sent'[r] = sent[r]
           /\ \A i \in 0 .. n - 1 : Block!Snapshotted(n)[i] = r => sent'[r] # 0
           /\ \A i \in 0 .. n - 1 :
                 /\ Block!Snapshotted(n)[i] = r /\ sent[r] = 0
                 /\ \A j \in 0 .. n - 1 : Block!Snapshotted(n)[j] = r => j = i
                 => sent'[r] = 1
  BY <1>3, <1>5, TallyGrows
<1>7. Counters'
  BY <1>3, <1>6 DEF Counters
<1>8. Queued'
  <2> SUFFICES ASSUME NEW r \in accepted \ cut
               PROVE  /\ committed[r] = 0 => Kept(input, Capacity, r)
                      /\ sent'[r] = 0 => Kept(input, Capacity, r)
    BY <1>3, <1>4, BufferStays DEF Queued
  <2>1. r \in Buffer!Records
    BY DEF Buffer!BufferTypeOK
  <2>2. Kept(1 - input, Capacity, r) => sent'[r] # 0
    BY <1>1, <1>3, <1>6, <2>1, WorkerReads
  <2>3. sent'[r] = 0 => sent[r] = 0
    <3>1. sent[r] \in 0 .. 2 /\ sent'[r] \in 0 .. 2 /\ sent'[r] >= sent[r]
      BY <1>5, <1>6, <2>1
    <3> QED
      BY <3>1
  <2> QED
    BY <1>3, <2>2, <2>3 DEF Queued
<1>9. ASSUME ~cutInto', Sound PROVE Sound'
  <2>1. ~Block!Uncopied(n) /\ n = handled
    BY <1>3, <1>9
  <2>2. Matching'
    <3>1. Block!In("level")' = Block!In("level")
      BY <1>3 DEF Block!In
    <3>2. ASSUME NEW p \in Block!In("level") \ missed', NEW pos \in Block!Reached
          PROVE  map[pos] = view'[p][pos]
      <4>1. p \in to /\ p \in Players /\ p \notin missed /\ pos \in Block!Positions
        BY <1>2, <3>2 DEF Block!In, Block!Reached
      <4>2. view'[p][pos] = Block!Last(Block!Snapshotted(n), pos, view[p][pos])
        BY <1>2, <4>1
      <4>3. map[pos] = Block!Last(Committed, pos, view[p][pos])
        BY <1>3, <1>9, <4>1 DEF Sound, Matching
      <4> QED
        BY <2>1, <4>2, <4>3 DEF Committed
    <3> QED
      BY <1>3, <3>1, <3>2 DEF Matching
  <2>3. ASSUME NEW r \in Buffer!Records \ cut PROVE Once(r)'
    <3>1. Once(r)
      BY <1>9 DEF Sound
    <3>2. committed[r] \in 0 .. 2 /\ sent[r] \in 0 .. 2
      BY <1>5
    <3>3. sent'[r] <= committed[r]
      <4>1. CASE \E i \in 0 .. n - 1 : Block!Snapshotted(n)[i] = r
        <5>1. PICK i \in 0 .. n - 1 : Block!Snapshotted(n)[i] = r
          BY <4>1
        <5>2. /\ Kept(1 - input, Capacity, r)
              /\ \A j \in 0 .. n - 1 : Block!Snapshotted(n)[j] = r => j = i
          BY <1>1, <1>3, <2>1, <5>1, WorkerReads
        <5>3. committed[r] = 1 /\ sent[r] = 0
          BY <1>3, <3>1, <5>2 DEF Once
        <5>4. sent'[r] = 1
          BY <1>6, <5>1, <5>2, <5>3
        <5> QED
          BY <5>3, <5>4
      <4>2. CASE \A i \in 0 .. n - 1 : Block!Snapshotted(n)[i] # r
        BY <1>6, <3>1, <4>2 DEF Once
      <4> QED
        BY <4>1, <4>2
    <3> QED
      BY <1>3, <1>4, <3>1, <3>3, BufferStays DEF Once
  <2> QED
    BY <1>4, <2>2, <2>3 DEF Sound
<1> QED
  BY <1>3, <1>7, <1>8, <1>9, BufferStays

(* The level is the map.                                                   *)
LEMMA SendLevelStep ==
  ASSUME BlockBuffer, Block!SendLevel
  PROVE  BlockBuffer' /\ (Sound => Sound')
<1>1. PICK to \in SUBSET Block!In("target") :
        /\ view' = [p \in Players |-> IF p \in to
                      THEN [pos \in Block!Positions |->
                              IF pos \in Block!Reached THEN map[pos] ELSE Block!Unknown]
                      ELSE view[p]]
        /\ state' = [p \in Players |-> IF p \in to THEN "level"
                                       ELSE IF state[p] = "target" THEN "refused" ELSE state[p]]
  BY DEF Block!SendLevel
<1>2. /\ task = "level" /\ task' = "clear" /\ UNCHANGED bufferVars
      /\ UNCHANGED <<handled, map, missed, committed, sent, cutInto>>
  BY DEF Block!SendLevel, Block!bufferVars, bufferVars
<1>3. UNCHANGED <<input, filled, slots, pusher, pushed, accepted, cut>>
  BY <1>2 DEF bufferVars
<1>4. Counters'
  <2>1. \A p \in Players : state[p] \in {"out", "queue", "target", "level", "refused"}
    BY DEF BlockBuffer, Counters
  <2>2. state' \in [Players -> {"out", "queue", "target", "level", "refused"}]
    BY <1>1, <2>1
  <2> QED
    BY <1>2, <2>2 DEF BlockBuffer, Counters
<1>5. Queued'
  BY <1>2, <1>3, BufferStays DEF BlockBuffer, Queued
<1>6. ASSUME Sound PROVE Sound'
  <2>1. Matching'
    <3>1. ASSUME NEW p \in Block!In("level")', p \notin missed, NEW pos \in Block!Reached
          PROVE  map[pos] = view'[p][pos]
      <4>1. p \in Players /\ state'[p] = "level" /\ pos \in Block!Positions
        BY <3>1 DEF Block!In, Block!Reached
      <4>2. CASE p \in to
        BY <1>1, <4>1, <4>2
      <4>3. CASE p \notin to
        <5>1. state[p] = "level" /\ view'[p] = view[p]
          BY <1>1, <4>1, <4>3
        <5> QED
          BY <1>2, <1>6, <3>1, <4>1, <5>1 DEF Sound, Matching, Block!In
      <4> QED
        BY <4>2, <4>3
    <3> QED
      BY <1>2, <3>1 DEF Matching
  <2>2. \A r \in Buffer!Records \ cut : Once(r)'
    BY <1>2, <1>3, <1>6, BufferStays DEF Sound, Once
  <2> QED
    BY <1>3, <2>1, <2>2 DEF Sound
<1> QED
  BY <1>2, <1>4, <1>5, <1>6, BufferStays DEF BlockBuffer

(* The clear finds nothing that waits in the output buffer.                *)
LEMMA ClearBlockStep ==
  ASSUME BlockBuffer, Block!Clear, ~late'
  PROVE  BlockBuffer' /\ (Sound => Sound')
<1> USE DEF BlockBuffer
<1>1. /\ task = "clear" /\ task' = "finish" /\ Buffer!ClearSnapshot
      /\ UNCHANGED <<input, slots, pusher, pushed, accepted, cut, outside,
                     handled, map, state, view, missed, committed, sent, cutInto>>
  BY SameBuffer DEF Block!Clear
<1>2. /\ Buffer!BufferTypeOK' /\ Apart'
      /\ \A i \in Buffer!Offsets : ~Intact(1 - input, i)'
      /\ \A i \in Buffer!Offsets : Intact(input, i)' = Intact(input, i)
  BY <1>1, Buffering, ClearMoves
<1>3. \A r : Kept(input, Capacity, r)' = Kept(input, Capacity, r)
  BY <1>1, <1>2 DEF Kept, Has
<1>4. \A r : ~Kept(1 - input, Capacity, r)'
  BY <1>1, <1>2 DEF Kept, Has
<1>5. \A r \in Buffer!Records : Single(r)'
  <2>1. PICK inp \in Buffer!Bufs, out \in Buffer!Bufs : inp = input /\ out = 1 - input /\ inp # out
    BY Sides
  <2>2. \A b \in Buffer!Bufs : b = inp \/ b = out
    BY <2>1 DEF Buffer!Bufs
  <2>3. \A i \in Buffer!Offsets : ~Intact(out, i)' /\ Intact(inp, i)' = Intact(inp, i)
    BY <1>1, <1>2, <2>1 DEF Intact
  <2>4. \A b \in Buffer!Bufs, i \in Buffer!Offsets : Intact(b, i)' => Intact(b, i)
    BY <2>2, <2>3
  <2> QED
    BY <1>1, <2>4, SingleStays
<1>6. Counters' /\ Queued'
  BY <1>1, <1>3 DEF Counters, Queued
<1>7. ASSUME Sound PROVE Sound'
  <2>1. Block!In("level")' = Block!In("level")
    BY <1>1 DEF Block!In
  <2>2. Matching'
    BY <1>1, <1>7, <2>1 DEF Sound, Matching
  <2>3. ASSUME NEW r \in Buffer!Records \ cut PROVE Once(r)'
    <3>1. Once(r)
      BY <1>7 DEF Sound
    <3>2. ~Kept(1 - input, Capacity, r)' /\ Kept(input, Capacity, r)' = Kept(input, Capacity, r)
      BY <1>3, <1>4
    <3> QED
      BY <1>1, <3>1, <3>2 DEF Once
  <2> QED
    BY <1>1, <2>2, <2>3 DEF Sound
<1> QED
  BY <1>2, <1>5, <1>6, <1>7

(* The worker is through.                                                  *)
LEMMA FinishBlockStep ==
  ASSUME BlockBuffer, Block!Finish
  PROVE  BlockBuffer' /\ (Sound => Sound')
<1>1. /\ task = "finish" /\ task' = "unused" /\ handled' = 0 /\ UNCHANGED bufferVars
      /\ UNCHANGED <<map, state, view, missed, committed, sent, cutInto>>
  BY DEF Block!Finish, Block!bufferVars, bufferVars
<1>2. UNCHANGED <<input, filled, slots, pusher, pushed, accepted, cut>>
  BY <1>1 DEF bufferVars
<1>3. Counters' /\ Queued'
  BY <1>1, <1>2, BufferStays DEF BlockBuffer, Counters, Queued
<1>4. ASSUME Sound PROVE Sound'
  <2>1. Block!In("level")' = Block!In("level")
    BY <1>1 DEF Block!In
  <2>2. Matching'
    BY <1>1, <1>4, <2>1 DEF Sound, Matching
  <2>3. \A r \in Buffer!Records \ cut : Once(r)'
    BY <1>1, <1>2, <1>4, BufferStays DEF Sound, Once
  <2> QED
    BY <1>2, <2>2, <2>3 DEF Sound
<1> QED
  BY <1>1, <1>3, <1>4, BufferStays DEF BlockBuffer

(* A step that leaves buffer, task and players alone.                      *)
LEMMA StutterBlock ==
  ASSUME BlockBuffer, UNCHANGED <<bufferVars, blockVars>>
  PROVE  BlockBuffer' /\ (Sound => Sound')
<1>1. UNCHANGED <<task, handled, map, state, view, missed, committed, sent, cutInto>>
  BY DEF blockVars
<1>2. UNCHANGED <<input, filled, slots, pusher, pushed, accepted, cut>> /\ UNCHANGED bufferVars
  BY DEF bufferVars
<1>3. Counters' /\ Queued'
  BY <1>1, <1>2, BufferStays DEF BlockBuffer, Counters, Queued
<1>4. ASSUME Sound PROVE Sound'
  <2>1. Block!In("level")' = Block!In("level")
    BY <1>1 DEF Block!In
  <2>2. Matching'
    BY <1>1, <1>2, <1>4, <2>1, BufferStays, MatchingStays DEF Sound, BlockBuffer
  <2>3. \A r \in Buffer!Records \ cut : Once(r)'
    BY <1>1, <1>2, <1>4, BufferStays DEF Sound, Once
  <2> QED
    BY <1>2, <2>2, <2>3 DEF Sound
<1> QED
  BY <1>2, <1>3, <1>4, BufferStays DEF BlockBuffer

(* Nothing waits, and nobody has a level, at first.                        *)
LEMMA InitBlockKept == Block!Init => BlockKept
<1> SUFFICES ASSUME Block!Init PROVE BlockKept
  OBVIOUS
<1>1. /\ Buffer!BufferTypeOK /\ Apart
      /\ \A b \in Buffer!Bufs, i \in Buffer!Offsets : ~Intact(b, i)
  BY Buffering, InitMoves, SameBuffer DEF Block!Init
<1>2. accepted = {} /\ pushed = 0 /\ \A w \in Writers : pusher[w].stage = "idle"
  BY DEF Block!Init, Block!BufferInit, Block!Idle
<1>3. \A b \in Buffer!Bufs : \A r : ~Kept(b, Capacity, r)
  BY <1>1 DEF Kept, Has
<1>4. \A r : Single(r)
  BY <1>1, <1>2, <1>3 DEF Single, Has
<1>5. /\ task = "unused" /\ \A r \in Buffer!Records : committed[r] = 0 /\ sent[r] = 0
      /\ Block!In("level") = {}
  BY DEF Block!Init, Block!Records, Buffer!Records, Block!In
<1>6. Counters
  <2>1. /\ committed \in [Buffer!Records -> 0 .. 2] /\ sent \in [Buffer!Records -> 0 .. 2]
        /\ state \in [Players -> {"out", "queue", "target", "level", "refused"}]
    BY DEF Block!Init, Block!Records, Buffer!Records
  <2>2. task = "unused" /\ handled = 0 /\ cutInto = FALSE
    BY DEF Block!Init
  <2> QED
    BY <2>1, <2>2 DEF Counters
<1>7. ~Kept(input, Capacity, 0) /\ \A r : ~Kept(input, Capacity, r) /\ ~Kept(1 - input, Capacity, r)
  BY <1>1, <1>3, Sides
<1>8. Sound
  BY <1>2, <1>5, <1>7 DEF Sound, Matching, Once
<1>9. Queued
  BY <1>2 DEF Queued
<1> QED
  BY <1>1, <1>4, <1>6, <1>8, <1>9 DEF BlockKept, BlockBuffer

(* Every step of the block task, of the pushes and of the players.         *)
LEMMA NextBlockKept == BlockKept /\ Block!Next => BlockKept'
<1> SUFFICES ASSUME BlockKept, Block!Next, ~late', ~outside'
             PROVE  BlockBuffer' /\ (~cutInto' => Sound')
  BY DEF BlockKept
<1>1. ~late /\ ~outside
  <2>1. ASSUME NEW w \in Writers, Block!ChangeBlock(w) PROVE late' = late /\ (outside => outside')
    BY <2>1 DEF Block!ChangeBlock, Block!PushStep, Block!PushBegin, Block!PushReserve,
                Block!PushCopy, Block!PushUndo
  <2>2. ASSUME NEW p \in Players, Block!WaitForLevel(p) PROVE late' = late /\ outside' = outside
    BY <2>2 DEF Block!WaitForLevel, Block!bufferVars
  <2>3. ASSUME \/ Block!Schedule \/ Block!LookSize \/ Block!Commit \/ Block!Multicast
               \/ Block!SendLevel \/ Block!Clear \/ Block!Finish
        PROVE  late => late'
    BY <2>3 DEF Block!Schedule, Block!LookSize, Block!Commit, Block!Multicast, Block!SendLevel,
                Block!Clear, Block!Finish, Block!bufferVars, Block!ClearSnapshot
  <2>4. ASSUME \/ Block!Schedule \/ Block!LookSize \/ Block!Commit \/ Block!Multicast
               \/ Block!SendLevel \/ Block!Clear \/ Block!Finish
        PROVE  outside => outside'
    BY <2>4 DEF Block!Schedule, Block!LookSize, Block!Commit, Block!Multicast, Block!SendLevel,
                Block!Clear, Block!Finish, Block!bufferVars
  <2> QED
    BY <2>1, <2>2, <2>3, <2>4 DEF Block!Next
<1>2. BlockBuffer /\ (~cutInto => Sound) /\ cutInto \in BOOLEAN
  BY <1>1 DEF BlockKept, BlockBuffer, Counters
<1>3. ASSUME BlockBuffer' /\ (Sound => Sound'), cutInto' = cutInto
      PROVE  BlockBuffer' /\ (~cutInto' => Sound')
  BY <1>2, <1>3
<1>4. ASSUME NEW w \in Writers, Block!ChangeBlock(w)
      PROVE  BlockBuffer' /\ (~cutInto' => Sound')
  BY <1>2, <1>3, <1>4, ChangeBlockStep DEF Block!ChangeBlock, Block!taskVars
<1>5. ASSUME NEW p \in Players, Block!WaitForLevel(p)
      PROVE  BlockBuffer' /\ (~cutInto' => Sound')
  BY <1>2, <1>3, <1>5, WaitForLevelStep DEF Block!WaitForLevel
<1>6. CASE Block!Schedule
  BY <1>2, <1>3, <1>6, ScheduleBlockStep DEF Block!Schedule
<1>7. CASE Block!LookSize
  BY <1>2, <1>3, <1>7, LookSizeStep DEF Block!LookSize
<1>8. CASE Block!Commit
  BY <1>2, <1>8, CommitStep
<1>9. CASE Block!Multicast
  BY <1>2, <1>9, MulticastStep
<1>10. CASE Block!SendLevel
  BY <1>2, <1>3, <1>10, SendLevelStep DEF Block!SendLevel
<1>11. CASE Block!Clear
  BY <1>2, <1>3, <1>11, ClearBlockStep DEF Block!Clear
<1>12. CASE Block!Finish
  BY <1>2, <1>3, <1>12, FinishBlockStep DEF Block!Finish
<1> QED
  BY <1>4, <1>5, <1>6, <1>7, <1>8, <1>9, <1>10, <1>11, <1>12 DEF Block!Next

(* What the invariant says of the world and its players.                   *)
LEMMA BlockKeptSays ==
  ASSUME BlockKept PROVE Block!AcceptedIsApplied /\ Block!ViewsMatchMap
<1>1. Block!ViewsMatchMap
  BY DEF BlockKept, Sound, Matching, Block!ViewsMatchMap
<1>2. Block!AcceptedIsApplied
  <2> SUFFICES ASSUME ~outside, ~late, NEW r \in accepted \ cut
               PROVE  /\ committed[r] = 0 => Block!Pending(r)
                      /\ sent[r] = 0 => \/ Block!Pending(r)
                                        \/ task = "multicast" /\ Block!Holds(1 - input, r)
                      /\ ~cutInto => committed[r] <= 1 /\ sent[r] <= committed[r]
    BY DEF Block!AcceptedIsApplied, Block!Output
  <2>1. BlockBuffer /\ (~cutInto => Sound)
    BY DEF BlockKept
  <2>2. PICK inp \in Buffer!Bufs, out \in Buffer!Bufs : inp = input /\ out = 1 - input
    BY <2>1, Sides DEF BlockBuffer
  <2>3. \A b \in Buffer!Bufs : \A n : Kept(b, n, r) => Block!Holds(b, r)
    BY <2>1, KeptHolds DEF BlockBuffer, Block!Holds, Block!Offsets, Buffer!Offsets
  <2>4. r \in Buffer!Records
    BY <2>1 DEF BlockBuffer, Buffer!BufferTypeOK
  <2>5. /\ committed[r] = 0 => Block!Pending(r)
        /\ sent[r] = 0 => \/ Block!Pending(r)
                          \/ task = "multicast" /\ Block!Holds(1 - input, r)
    BY <2>1, <2>2, <2>3 DEF BlockBuffer, Queued, Block!Pending, Block!Output
  <2>6. ~cutInto => committed[r] <= 1 /\ sent[r] <= committed[r]
    BY <2>1, <2>4 DEF Sound, Once
  <2> QED
    BY <2>5, <2>6
<1> QED
  BY <1>1, <1>2

(* The invariant holds of the part of the world that changes blocks.       *)
LEMMA WorldBlocks ==
  /\ WorldInit => (part = "block" => BlockKept)
  /\ (part = "block" => BlockKept) /\ [WorldNext]_allVars => (part = "block" => BlockKept)'
<1>1. WorldInit => (part = "block" => BlockKept)
  BY InitBlockKept DEF WorldInit
<1>2. ASSUME part = "block" => BlockKept, [WorldNext]_allVars, part' = "block"
      PROVE  BlockKept'
  <2>1. part = "block" /\ BlockKept
    BY <1>2 DEF WorldNext, allVars
  <2>2. Block!Next \/ UNCHANGED <<bufferVars, blockVars>>
    BY <1>2, <2>1 DEF WorldNext, TaskNext, allVars, taskVars
  <2>3. CASE Block!Next
    BY <2>1, <2>3, NextBlockKept
  <2>4. CASE UNCHANGED <<bufferVars, blockVars>>
    <3>1. late' = late /\ outside' = outside /\ cutInto' = cutInto
      BY <2>4 DEF bufferVars, blockVars
    <3> QED
      BY <2>1, <2>4, <3>1, StutterBlock DEF BlockKept
  <2> QED
    BY <2>2, <2>3, <2>4
<1> QED
  BY <1>1, <1>2

(* A block change that push accepted, and that no swap of the buffers      *)
(* overlapped, is committed to the map and multicast, each once, or still  *)
(* waits in a slot, for buffers of every size and any number of handlers,  *)
(* unless a push outlives a clear.                                         *)
THEOREM ChangesAreApplied == WorldSpec => []AcceptedIsApplied
<1>1. (part = "block" => BlockKept) => AcceptedIsApplied
  BY BlockKeptSays DEF AcceptedIsApplied
<1> QED
  BY <1>1, WorldBlocks, PTL DEF WorldSpec

(* A player with the level has been told of every block of the map that    *)
(* the level packet reaches, however pushes, commits, multicasts and the   *)
(* sending of levels interleave, unless a connection refused a multicast,  *)
(* or a push overlapped the worker's reads or outlived a clear.            *)
THEOREM ViewsAreTheMap == WorldSpec => []ViewsMatchMap
<1>1. (part = "block" => BlockKept) => ViewsMatchMap
  BY BlockKeptSays DEF ViewsMatchMap
<1> QED
  BY <1>1, WorldBlocks, PTL DEF WorldSpec

----------------------------------------------------------------------------
(* The positions.  The players that the running position task moves.       *)
Underway == DOMAIN sync.packets

(* A client that follows a player shows it where the server last           *)
(* transferred it; while the task runs, the packet bridges the difference  *)
(* for the clients that have yet to get it.                                *)
Follows(c, p) ==
    LET shows == shown[c][p]
        packet == sync.packets[p]
    IN  /\ p \notin Underway => shows = transferred[p]
        /\ p \in Underway /\ c \in sync.got /\ ~packet.cut => shows = tmp[p]
        /\ p \in Underway /\ c \notin sync.got /\ p \in sync.got /\ ~packet.cut
              => Pos!Apply(shows, packet) = tmp[p]
        /\ p \in Underway /\ c \notin sync.got /\ p \notin sync.got => shows = transferred[p]

(* What the position task keeps.                                           *)
PosShape ==
    /\ entered \subseteq Travellers
    /\ latest \in [Travellers -> Pos!Position]
    /\ transferred \in [Travellers -> Pos!Position]
    /\ tmp \in [Travellers -> Pos!Position]
    /\ shown \in [Travellers -> [Travellers -> Pos!Position \cup {Pos!Unseen}]]
    /\ sync = [to |-> sync.to, packets |-> sync.packets, got |-> sync.got]
    /\ Underway \subseteq entered
    /\ sync.to \subseteq Underway /\ sync.got \subseteq Underway /\ sync.to \cap sync.got = {}

(* A packet is the way from a position to the one it was made for, and     *)
(* from the last transferred one as long as that has not been replaced.    *)
PacketsBridge ==
    \A p \in Underway :
        /\ \E last \in Pos!Position : sync.packets[p] = Pos!Packet(tmp[p], last)
        /\ p \in sync.got => transferred[p] = tmp[p]
        /\ p \notin sync.got => sync.packets[p] = Pos!Packet(tmp[p], transferred[p])

Tracks ==
    \A c, p \in Travellers :
        shown[c][p] # Pos!Unseen =>
            /\ <<c, p>> \notin drift => Follows(c, p)
            /\ p \in Underway /\ c \in sync.got /\ sync.packets[p].kind = "absolute"
                  => shown[c][p] = tmp[p]

PositionsKept == PosShape /\ PacketsBridge /\ Tracks

(* Residues next to zero. *)
LEMMA SmallResidue ==
  ASSUME NEW m \in Nat \ {0}, NEW x \in Int, 0 - m <= x, x < 2 * m
  PROVE  x % m = IF x < 0 THEN x + m ELSE IF x < m THEN x ELSE x - m
<1> DEFINE p == x \div m
           r == x % m
<1>1. p \in Int /\ r \in 0 .. m - 1 /\ x = m * p + r
  OBVIOUS
<1> HIDE DEF p, r
<1>2. p >= 2 => m * p >= 2 * m
  BY <1>1
<1>3. p <= -2 => m * p <= 0 - m - m
  BY <1>1
<1>4. p \in {-1, 0, 1}
  BY <1>1, <1>2, <1>3
<1>5. p = 0 => m * p = 0
  OBVIOUS
<1>6. p = 1 => m * p = m
  OBVIOUS
<1>7. p = -1 => m * p = 0 - m
  OBVIOUS
<1>8. r = IF x < 0 THEN x + m ELSE IF x < m THEN x ELSE x - m
  BY <1>1, <1>4, <1>5, <1>6, <1>7
<1> QED
  BY <1>8 DEF r

(* A signed number of m values. *)
SignedRange(m) == {d \in Int : 0 - m \div 2 <= d /\ d < m - m \div 2}

(* Halves. *)
LEMMA Halves ==
  ASSUME NEW m \in Nat \ {0}
  PROVE  m \div 2 \in Nat /\ 2 * (m \div 2) <= m /\ m <= 2 * (m \div 2) + 1
  OBVIOUS

(* The signed representative of a difference. *)
LEMMA SignedFacts ==
  ASSUME NEW m \in Nat \ {0}, NEW n \in Int, 0 - m < n, n < m
  PROVE  /\ Pos!Signed(n, m) \in SignedRange(m)
         /\ Pos!Signed(n, m) \in {n - m, n, n + m}
         /\ n \in SignedRange(m) => Pos!Signed(n, m) = n
<1> DEFINE h == m \div 2
<1>1. h \in Nat /\ 2 * h <= m /\ m <= 2 * h + 1
  BY Halves
<1> HIDE DEF h
<1>2. n + h \in Int /\ 0 - m <= n + h /\ n + h < 2 * m
  BY <1>1
<1>3. (n + h) % m = IF n + h < 0 THEN n + h + m
                    ELSE IF n + h < m THEN n + h ELSE n + h - m
  <2>1. PICK x \in Int : x = n + h
    BY <1>2
  <2>2. 0 - m <= x /\ x < 2 * m
    BY <1>2, <2>1
  <2>3. x % m = IF x < 0 THEN x + m ELSE IF x < m THEN x ELSE x - m
    BY <2>2, SmallResidue
  <2> QED
    BY <1>1, <2>1, <2>3
<1>4. Pos!Signed(n, m) = ((n + h) % m) - h
  BY DEF Pos!Signed, h
<1>5. SignedRange(m) = {d \in Int : 0 - h <= d /\ d < m - h}
  BY DEF SignedRange, h
<1> QED
  BY <1>1, <1>2, <1>3, <1>4, <1>5

(* A signed number survives its encoding. *)
LEMMA SignedBack ==
  ASSUME NEW m \in Nat \ {0}, NEW d \in SignedRange(m)
  PROVE  d % m \in 0 .. m - 1 /\ Pos!Signed(d % m, m) = d
<1> DEFINE h == m \div 2
<1>1. h \in Nat /\ 2 * h <= m /\ m <= 2 * h + 1
  BY Halves
<1>2. d \in Int /\ 0 - h <= d /\ d < m - h
  BY DEF SignedRange
<1> HIDE DEF h
<1>3. d % m = IF d < 0 THEN d + m ELSE d
  BY <1>1, <1>2, SmallResidue
<1>4. PICK e \in Int : e = d % m
  BY <1>1, <1>2, <1>3
<1>5. 0 <= e /\ e < m /\ (e = d \/ e = d + m)
  BY <1>1, <1>2, <1>3, <1>4
<1>6. e + h \in Int /\ 0 - m <= e + h /\ e + h < 2 * m
  BY <1>1, <1>5
<1>7. (e + h) % m = IF e + h < 0 THEN e + h + m
                    ELSE IF e + h < m THEN e + h ELSE e + h - m
  <2>1. PICK x \in Int : x = e + h
    BY <1>6
  <2>2. 0 - m <= x /\ x < 2 * m
    BY <1>6, <2>1
  <2>3. x % m = IF x < 0 THEN x + m ELSE IF x < m THEN x ELSE x - m
    BY <2>2, SmallResidue
  <2> QED
    BY <1>1, <2>1, <2>3
<1>8. Pos!Signed(e, m) = ((e + h) % m) - h
  BY DEF Pos!Signed, h
<1>9. Pos!Signed(e, m) = d
  BY <1>1, <1>2, <1>5, <1>7, <1>8
<1> QED
  BY <1>4, <1>5, <1>9

(* The signed difference of two coordinates leads from one to the other. *)
LEMMA SignedLeads ==
  ASSUME NEW m \in Nat \ {0}, NEW a \in 0 .. m - 1, NEW b \in 0 .. m - 1
  PROVE  /\ (a + Pos!Signed(b - a, m)) % m = b
         /\ Pos!Signed(b - a, m) = 0 => a = b
         /\ Pos!Signed(b - a, m) \in Int
<1>1. PICK s \in Int : s = Pos!Signed(b - a, m)
  BY SignedFacts DEF SignedRange
<1>2. s \in {b - a - m, b - a, b - a + m}
  BY <1>1, SignedFacts
<1>3. a + s \in Int /\ 0 - m <= a + s /\ a + s < 2 * m
  BY <1>2
<1>4. (a + s) % m = IF a + s < 0 THEN a + s + m
                    ELSE IF a + s < m THEN a + s ELSE a + s - m
  <2>1. PICK x \in Int : x = a + s
    BY <1>3
  <2>2. 0 - m <= x /\ x < 2 * m
    BY <1>3, <2>1
  <2>3. x % m = IF x < 0 THEN x + m ELSE IF x < m THEN x ELSE x - m
    BY <2>2, SmallResidue
  <2> QED
    BY <2>1, <2>3
<1> QED
  BY <1>1, <1>2, <1>4

(* A position that is shown is not Unseen. *)
LEMMA SeenPositions ==
  ASSUME NEW v \in Pos!Position
  PROVE  /\ v # Pos!Unseen /\ v = [x |-> v.x, z |-> v.z, o |-> v.o]
         /\ v.x \in 0 .. CoordMod - 1 /\ v.z \in 0 .. CoordMod - 1 /\ v.o \in 0 .. 1
<1>1. v.x \in 0 .. CoordMod - 1 /\ v.z \in 0 .. CoordMod - 1 /\ v.o \in 0 .. 1
  BY DEF Pos!Position, Pos!Coord
<1>2. Pos!Unseen.x = -1
  BY DEF Pos!Unseen
<1>3. v # Pos!Unseen
  <2>1. v.x # -1
    BY <1>1
  <2> QED
    BY <1>2, <2>1
<1> QED
  BY <1>1, <1>3 DEF Pos!Position

(* The kinds of a packet, by the difference of the two positions. *)
LEMMA PacketCases ==
  ASSUME Pos!PositionAssumption, NEW now, NEW last, NEW d, d = Pos!Minus(now, last),
         NEW P, P = Pos!Packet(now, last)
  PROVE  LET relative == [x |-> d.x % ByteMod, z |-> d.z % ByteMod, o |-> now.o]
             off == Pos!Signed(d.z, ByteMod) # d.z
         IN  \/ Pos!Far(d) /\ P = [kind |-> "absolute", pos |-> now, cut |-> FALSE]
             \/ ~Pos!Far(d) /\ P = [kind |-> "position", pos |-> relative, cut |-> off]
             \/ /\ ~Pos!Far(d) /\ d.o = 0
                /\ P = [kind |-> "coordinate", pos |-> relative, cut |-> off]
             \/ /\ d.x = 0 /\ d.z = 0
                /\ P = [kind |-> "orientation", pos |-> now, cut |-> FALSE]
             \/ /\ d.x = 0 /\ d.z = 0 /\ d.o = 0
                /\ P = [kind |-> "none", pos |-> now, cut |-> FALSE]
<1> DEFINE relative == [x |-> d.x % ByteMod, z |-> d.z % ByteMod, o |-> now.o]
           off == Pos!Signed(d.z, ByteMod) # d.z
           coordinate == d.x # 0 \/ d.z # 0
           Made(kind, pos) == [kind |-> kind, pos |-> pos,
                               cut |-> kind \in {"position", "coordinate"} /\ off]
<1>1. P = CASE Pos!Far(d)                             -> Made("absolute", now)
            [] ~Pos!Far(d) /\ coordinate /\ d.o # 0   -> Made("position", relative)
            [] ~Pos!Far(d) /\ coordinate /\ d.o = 0   -> Made("coordinate", relative)
            [] ~coordinate /\ d.o # 0                 -> Made("orientation", now)
            [] ~coordinate /\ d.o = 0                 -> Made("none", now)
  BY DEF Pos!Packet
<1>2. /\ Made("absolute", now) = [kind |-> "absolute", pos |-> now, cut |-> FALSE]
      /\ Made("position", relative) = [kind |-> "position", pos |-> relative, cut |-> off]
      /\ Made("coordinate", relative) = [kind |-> "coordinate", pos |-> relative, cut |-> off]
      /\ Made("orientation", now) = [kind |-> "orientation", pos |-> now, cut |-> FALSE]
      /\ Made("none", now) = [kind |-> "none", pos |-> now, cut |-> FALSE]
  OBVIOUS
<1>3. ~coordinate => d.x = 0 /\ d.z = 0 /\ ~Pos!Far(d)
  BY DEF Pos!PositionAssumption, Pos!Far, Pos!Magnitude
<1> HIDE DEF relative, off, coordinate, Made
<1>4. CASE Pos!Far(d)
  BY <1>1, <1>2, <1>3, <1>4 DEF relative, off
<1>5. CASE ~Pos!Far(d) /\ coordinate /\ d.o # 0
  BY <1>1, <1>2, <1>5 DEF relative, off
<1>6. CASE ~Pos!Far(d) /\ coordinate /\ d.o = 0
  BY <1>1, <1>2, <1>6 DEF relative, off
<1>7. CASE ~Pos!Far(d) /\ ~coordinate /\ d.o # 0
  BY <1>1, <1>2, <1>3, <1>7 DEF relative, off
<1>8. CASE ~Pos!Far(d) /\ ~coordinate /\ d.o = 0
  BY <1>1, <1>2, <1>3, <1>8 DEF relative, off
<1> QED
  BY <1>4, <1>5, <1>6, <1>7, <1>8

(* The difference of two positions. *)
LEMMA MinusFacts ==
  ASSUME Pos!PositionAssumption, NEW now \in Pos!Position, NEW last \in Pos!Position,
         NEW d, d = Pos!Minus(now, last)
  PROVE  /\ d.x \in Int /\ (last.x + d.x) % CoordMod = now.x /\ (d.x = 0 => last.x = now.x)
         /\ d.z \in Int /\ (last.z + d.z) % CoordMod = now.z /\ (d.z = 0 => last.z = now.z)
         /\ d.o = 0 => last.o = now.o
<1>1. CoordMod \in Nat \ {0}
  BY DEF Pos!PositionAssumption
<1>2. d.x = Pos!Signed(now.x - last.x, CoordMod) /\ d.z = Pos!Signed(now.z - last.z, CoordMod)
      /\ d.o = (now.o - last.o) % 2
  BY DEF Pos!Minus
<1>3. /\ now.x \in 0 .. CoordMod - 1 /\ now.z \in 0 .. CoordMod - 1 /\ now.o \in 0 .. 1
      /\ last.x \in 0 .. CoordMod - 1 /\ last.z \in 0 .. CoordMod - 1 /\ last.o \in 0 .. 1
  BY SeenPositions
<1>4. /\ d.x \in Int /\ (last.x + d.x) % CoordMod = now.x /\ (d.x = 0 => last.x = now.x)
  <2>1. PICK a \in 0 .. CoordMod - 1, b \in 0 .. CoordMod - 1 : a = last.x /\ b = now.x
    BY <1>3
  <2>2. /\ (a + Pos!Signed(b - a, CoordMod)) % CoordMod = b
        /\ Pos!Signed(b - a, CoordMod) = 0 => a = b
        /\ Pos!Signed(b - a, CoordMod) \in Int
    BY <1>1, SignedLeads
  <2> QED
    BY <1>2, <2>1, <2>2
<1>5. /\ d.z \in Int /\ (last.z + d.z) % CoordMod = now.z /\ (d.z = 0 => last.z = now.z)
  <2>1. PICK a \in 0 .. CoordMod - 1, b \in 0 .. CoordMod - 1 : a = last.z /\ b = now.z
    BY <1>3
  <2>2. /\ (a + Pos!Signed(b - a, CoordMod)) % CoordMod = b
        /\ Pos!Signed(b - a, CoordMod) = 0 => a = b
        /\ Pos!Signed(b - a, CoordMod) \in Int
    BY <1>1, SignedLeads
  <2> QED
    BY <1>2, <2>1, <2>2
<1>6. d.o = 0 => last.o = now.o
  BY <1>2, <1>3
<1> QED
  BY <1>4, <1>5, <1>6

(* A representative lies in its range. *)
LEMMA SignedInRange ==
  ASSUME NEW m \in Nat \ {0}, NEW n \in Int PROVE Pos!Signed(n, m) \in SignedRange(m)
<1> DEFINE h == m \div 2
<1>1. h \in Nat
  BY Halves
<1>2. SignedRange(m) = {d \in Int : 0 - h <= d /\ d < m - h}
  BY DEF SignedRange
<1>3. Pos!Signed(n, m) = ((n + h) % m) - h
  BY DEF Pos!Signed
<1> HIDE DEF h
<1>4. PICK x \in Int : x = n + h
  BY <1>1
<1>5. x % m \in 0 .. m - 1
  BY <1>4
<1> QED
  BY <1>1, <1>2, <1>3, <1>4, <1>5

(* What a relative packet says is the difference, unless a byte cut it. *)
LEMMA BytesHold ==
  ASSUME Pos!PositionAssumption, NEW now \in Pos!Position, NEW last \in Pos!Position,
         NEW d, d = Pos!Minus(now, last)
  PROVE  /\ ~Pos!Far(d) => Pos!Signed(d.x % ByteMod, ByteMod) = d.x
         /\ Pos!Signed(d.z, ByteMod) = d.z => Pos!Signed(d.z % ByteMod, ByteMod) = d.z
<1>1. ByteMod \in Nat \ {0} /\ Threshold \in Nat /\ 2 * Threshold < ByteMod
  BY DEF Pos!PositionAssumption
<1>2. PICK x \in Int, z \in Int : x = d.x /\ z = d.z
  BY MinusFacts
<1>3. ASSUME ~Pos!Far(d) PROVE x \in SignedRange(ByteMod)
  <2>1. 0 - Threshold <= x /\ x <= Threshold
    BY <1>1, <1>2, <1>3 DEF Pos!Far, Pos!Magnitude
  <2>2. ByteMod <= 2 * (ByteMod \div 2) + 1 /\ 2 * (ByteMod \div 2) <= ByteMod
        /\ ByteMod \div 2 \in Nat
    BY <1>1, Halves
  <2> QED
    BY <1>1, <2>1, <2>2 DEF SignedRange
<1>4. ASSUME Pos!Signed(z, ByteMod) = z PROVE z \in SignedRange(ByteMod)
  <2>1. Pos!Signed(z, ByteMod) \in SignedRange(ByteMod)
    BY <1>1, SignedInRange
  <2> QED
    BY <1>4, <2>1
<1>5. x \in SignedRange(ByteMod) => Pos!Signed(x % ByteMod, ByteMod) = x
  BY <1>1, SignedBack
<1>6. z \in SignedRange(ByteMod) => Pos!Signed(z % ByteMod, ByteMod) = z
  BY <1>1, SignedBack
<1> QED
  BY <1>2, <1>3, <1>4, <1>5, <1>6

(* A packet leads from the position it started at to the one it was made   *)
(* for, unless a byte cut its z; an absolute one leads there from anywhere. *)
LEMMA PacketLeads ==
  ASSUME Pos!PositionAssumption, NEW now \in Pos!Position, NEW last \in Pos!Position,
         NEW P, P = Pos!Packet(now, last)
  PROVE  /\ ~P.cut => Pos!Apply(last, P) = now
         /\ P.kind = "absolute" => ~P.cut /\ P.pos = now
         /\ P.kind = "none" => ~P.cut /\ now = last
<1> DEFINE d == Pos!Minus(now, last)
           relative == [x |-> d.x % ByteMod, z |-> d.z % ByteMod, o |-> now.o]
           off == Pos!Signed(d.z, ByteMod) # d.z
           moved == [x |-> (last.x + Pos!Signed(P.pos.x, ByteMod)) % CoordMod,
                     z |-> (last.z + Pos!Signed(P.pos.z, ByteMod)) % CoordMod, o |-> last.o]
<1>1. /\ (last.x + d.x) % CoordMod = now.x /\ (d.x = 0 => last.x = now.x)
      /\ (last.z + d.z) % CoordMod = now.z /\ (d.z = 0 => last.z = now.z)
      /\ d.o = 0 => last.o = now.o
  BY MinusFacts
<1>2. /\ ~Pos!Far(d) => Pos!Signed(d.x % ByteMod, ByteMod) = d.x
      /\ ~off => Pos!Signed(d.z % ByteMod, ByteMod) = d.z
  BY BytesHold
<1>3. /\ now # Pos!Unseen /\ now = [x |-> now.x, z |-> now.z, o |-> now.o]
      /\ last # Pos!Unseen /\ last = [x |-> last.x, z |-> last.z, o |-> last.o]
  BY SeenPositions
<1>4. \/ Pos!Far(d) /\ P = [kind |-> "absolute", pos |-> now, cut |-> FALSE]
      \/ ~Pos!Far(d) /\ P = [kind |-> "position", pos |-> relative, cut |-> off]
      \/ /\ ~Pos!Far(d) /\ d.o = 0
         /\ P = [kind |-> "coordinate", pos |-> relative, cut |-> off]
      \/ d.x = 0 /\ d.z = 0 /\ P = [kind |-> "orientation", pos |-> now, cut |-> FALSE]
      \/ d.x = 0 /\ d.z = 0 /\ d.o = 0 /\ P = [kind |-> "none", pos |-> now, cut |-> FALSE]
  BY PacketCases
<1>5. Pos!Apply(last, P) = CASE P.kind = "absolute"    -> P.pos
                             [] P.kind = "position"    -> [moved EXCEPT !.o = P.pos.o]
                             [] P.kind = "coordinate"  -> moved
                             [] P.kind = "orientation" -> [last EXCEPT !.o = P.pos.o]
                             [] P.kind = "none"        -> last
  BY <1>3, <1>4 DEF Pos!Apply
<1>6. ~Pos!Far(d) /\ ~off /\ P.pos = relative =>
         moved = [x |-> now.x, z |-> now.z, o |-> last.o]
  BY <1>1, <1>2
<1>7. ~Pos!Far(d) /\ ~off /\ P.pos = relative =>
         [moved EXCEPT !.o = P.pos.o] = [x |-> now.x, z |-> now.z, o |-> now.o]
  BY <1>6
<1>8. [last EXCEPT !.o = now.o] = [x |-> last.x, z |-> last.z, o |-> now.o]
  BY <1>3
<1> HIDE DEF d, off, moved
<1>9. CASE Pos!Far(d) /\ P = [kind |-> "absolute", pos |-> now, cut |-> FALSE]
  BY <1>5, <1>9
<1>10. CASE ~Pos!Far(d) /\ P = [kind |-> "position", pos |-> relative, cut |-> off]
  BY <1>3, <1>5, <1>7, <1>10
<1>11. CASE /\ ~Pos!Far(d) /\ d.o = 0
            /\ P = [kind |-> "coordinate", pos |-> relative, cut |-> off]
  BY <1>1, <1>3, <1>5, <1>6, <1>11
<1>12. CASE d.x = 0 /\ d.z = 0 /\ P = [kind |-> "orientation", pos |-> now, cut |-> FALSE]
  BY <1>1, <1>3, <1>5, <1>8, <1>12
<1>13. CASE d.x = 0 /\ d.z = 0 /\ d.o = 0 /\ P = [kind |-> "none", pos |-> now, cut |-> FALSE]
  BY <1>1, <1>3, <1>5, <1>13
<1> QED
  BY <1>4, <1>9, <1>10, <1>11, <1>12, <1>13

(* What a client shows after a packet. *)
LEMMA ApplyKeeps ==
  ASSUME Pos!PositionAssumption, NEW now \in Pos!Position, NEW last \in Pos!Position,
         NEW P, P = Pos!Packet(now, last), NEW v \in Pos!Position \cup {Pos!Unseen}
  PROVE  /\ Pos!Apply(v, P) \in Pos!Position \cup {Pos!Unseen}
         /\ v = Pos!Unseen <=> Pos!Apply(v, P) = Pos!Unseen
         /\ P.kind = "absolute" /\ v # Pos!Unseen => Pos!Apply(v, P) = now
         /\ P.kind = "none" => Pos!Apply(v, P) = v
<1> DEFINE d == Pos!Minus(now, last)
           relative == [x |-> d.x % ByteMod, z |-> d.z % ByteMod, o |-> now.o]
           off == Pos!Signed(d.z, ByteMod) # d.z
           moved == [x |-> (v.x + Pos!Signed(P.pos.x, ByteMod)) % CoordMod,
                     z |-> (v.z + Pos!Signed(P.pos.z, ByteMod)) % CoordMod, o |-> v.o]
<1>1. v = Pos!Unseen => Pos!Apply(v, P) = v
  BY DEF Pos!Apply
<1>2. ASSUME v # Pos!Unseen
      PROVE  /\ Pos!Apply(v, P) \in Pos!Position
             /\ P.kind = "absolute" => Pos!Apply(v, P) = now
             /\ P.kind = "none" => Pos!Apply(v, P) = v
  <2>1. /\ v \in Pos!Position /\ v = [x |-> v.x, z |-> v.z, o |-> v.o]
        /\ v.x \in 0 .. CoordMod - 1 /\ v.z \in 0 .. CoordMod - 1 /\ v.o \in 0 .. 1
        /\ now.o \in 0 .. 1
    BY <1>2, SeenPositions
  <2>2. CoordMod \in Nat \ {0} /\ ByteMod \in Nat \ {0}
    BY DEF Pos!PositionAssumption
  <2>3. d.x \in Int /\ d.z \in Int
    BY MinusFacts
  <2>4. \/ P = [kind |-> "absolute", pos |-> now, cut |-> FALSE]
        \/ P = [kind |-> "position", pos |-> relative, cut |-> off]
        \/ P = [kind |-> "coordinate", pos |-> relative, cut |-> off]
        \/ P = [kind |-> "orientation", pos |-> now, cut |-> FALSE]
        \/ P = [kind |-> "none", pos |-> now, cut |-> FALSE]
    BY PacketCases
  <2>5. Pos!Apply(v, P) = CASE P.kind = "absolute"    -> P.pos
                            [] P.kind = "position"    -> [moved EXCEPT !.o = P.pos.o]
                            [] P.kind = "coordinate"  -> moved
                            [] P.kind = "orientation" -> [v EXCEPT !.o = P.pos.o]
                            [] P.kind = "none"        -> v
    BY <1>2, <2>4 DEF Pos!Apply
  <2>6. ASSUME P.pos = relative PROVE moved \in Pos!Position
    <3>1. d.x % ByteMod \in Int /\ d.z % ByteMod \in Int
      BY <2>2, <2>3
    <3>2. PICK x \in Int, z \in Int : /\ x = v.x + Pos!Signed(d.x % ByteMod, ByteMod)
                                      /\ z = v.z + Pos!Signed(d.z % ByteMod, ByteMod)
      BY <2>1, <2>2, <3>1, SignedInRange DEF SignedRange
    <3>3. x % CoordMod \in 0 .. CoordMod - 1 /\ z % CoordMod \in 0 .. CoordMod - 1
      BY <2>2
    <3>4. moved = [x |-> x % CoordMod, z |-> z % CoordMod, o |-> v.o]
      BY <2>6, <3>2
    <3> QED
      BY <2>1, <3>3, <3>4 DEF Pos!Position, Pos!Coord
  <2> HIDE DEF d, off, moved
  <2>7. \A w \in Pos!Position : [w EXCEPT !.o = now.o] \in Pos!Position
    BY <2>1 DEF Pos!Position
  <2> QED
    BY <2>1, <2>4, <2>5, <2>6, <2>7
<1> QED
  BY <1>1, <1>2, SeenPositions

(* No player is told of another one yet. *)
LEMMA InitPositions == Pos!PositionAssumption /\ Pos!Init => PositionsKept
<1> SUFFICES ASSUME Pos!PositionAssumption, Pos!Init PROVE PositionsKept
  OBVIOUS
<1>1. Pos!Zero \in Pos!Position
  BY DEF Pos!PositionAssumption, Pos!Zero, Pos!Position, Pos!Coord
<1>2. Underway = {}
  BY DEF Pos!Init, Pos!NoSync, Underway
<1>3. PosShape
  BY <1>1, <1>2 DEF Pos!Init, Pos!NoSync, PosShape
<1> QED
  BY <1>2, <1>3 DEF Pos!Init, PositionsKept, PacketsBridge, Tracks

(* Nothing changes. *)
LEMMA StutterPositions ==
  ASSUME PositionsKept, UNCHANGED posVars PROVE PositionsKept'
<1>1. /\ entered' = entered /\ latest' = latest /\ transferred' = transferred /\ tmp' = tmp
      /\ sync' = sync /\ shown' = shown /\ drift' = drift /\ Underway' = Underway
  BY DEF posVars, Underway
<1>2. \A c, p : Follows(c, p)' <=> Follows(c, p)
  BY <1>1 DEF Follows
<1> QED
  BY <1>1, <1>2 DEF PositionsKept, PosShape, PacketsBridge, Tracks

(* A client reports a move. *)
LEMMA MoveTracks ==
  ASSUME Pos!PositionAssumption, PositionsKept,
         NEW p \in Movers, NEW pos \in Targets, Pos!Move(p, pos)
  PROVE  PositionsKept'
<1>1. /\ entered' = entered /\ transferred' = transferred /\ tmp' = tmp
      /\ sync' = sync /\ shown' = shown /\ drift' = drift /\ Underway' = Underway
  BY DEF Pos!Move, Underway
<1>2. latest' \in [Travellers -> Pos!Position]
  BY DEF Pos!Move, Pos!PositionAssumption, PositionsKept, PosShape
<1>3. \A c, q : Follows(c, q)' <=> Follows(c, q)
  BY <1>1 DEF Follows
<1> QED
  BY <1>1, <1>2, <1>3 DEF PositionsKept, PosShape, PacketsBridge, Tracks

(* Without a task no packet is under way. *)
LEMMA NoneUnderway == sync = Pos!NoSync => Underway = {} /\ sync.got = {}
  BY DEF Pos!NoSync, Underway

(* A spawn packet shows a player where it is. *)
LEMMA SpawnTracks ==
  ASSUME Pos!PositionAssumption, PositionsKept, NEW new \in SUBSET Travellers, Pos!Spawn(new)
  PROVE  PositionsKept'
<1>1. PICK come \in SUBSET new, informed \in SUBSET entered :
        LET learns(c, p) == \/ c \in come /\ p \in entered \cup new
                            \/ c \in informed /\ p \in new
            taught == {cp \in Travellers \X Travellers : learns(cp[1], cp[2])}
        IN  /\ entered' = entered \cup come
            /\ shown' = [c \in Travellers |-> [p \in Travellers |->
                          IF <<c, p>> \in taught THEN Pos!ShownAt(p) ELSE shown[c][p]]]
            /\ drift' = (drift \ taught) \cup
                        {cp \in taught : \/ Pos!ShownAt(cp[2]) # transferred[cp[2]]
                                       \/ sync # Pos!NoSync}
  BY DEF Pos!Spawn
<1> DEFINE learns(c, p) == \/ c \in come /\ p \in entered \cup new
                           \/ c \in informed /\ p \in new
<1>2. /\ entered' = entered \cup come
      /\ latest' = latest /\ transferred' = transferred /\ tmp' = tmp /\ sync' = sync
      /\ Underway' = Underway /\ new \subseteq Travellers \ entered
  BY <1>1 DEF Pos!Spawn, Underway
<1>3. ASSUME NEW c \in Travellers, NEW p \in Travellers
      PROVE  /\ shown'[c][p] = IF learns(c, p) THEN Pos!ShownAt(p) ELSE shown[c][p]
             /\ ~learns(c, p) /\ <<c, p>> \in drift => <<c, p>> \in drift'
             /\ learns(c, p) /\ <<c, p>> \notin drift' =>
                  Pos!ShownAt(p) = transferred[p] /\ sync = Pos!NoSync
  BY <1>1
<1>4. \A p \in Travellers : Pos!ShownAt(p) \in Pos!Position
  BY DEF Pos!ShownAt, Pos!PositionAssumption, PositionsKept, PosShape
<1>5. shown' \in [Travellers -> [Travellers -> Pos!Position \cup {Pos!Unseen}]]
  BY <1>1, <1>4 DEF PositionsKept, PosShape
<1>6. PosShape'
  BY <1>2, <1>5 DEF PositionsKept, PosShape
<1>7. PacketsBridge'
  BY <1>2 DEF PositionsKept, PacketsBridge
<1>8. ASSUME NEW c \in Travellers, NEW p \in Travellers, shown'[c][p] # Pos!Unseen
      PROVE  /\ <<c, p>> \notin drift' => Follows(c, p)'
             /\ p \in Underway' /\ c \in sync'.got /\ sync'.packets[p].kind = "absolute"
                   => shown'[c][p] = tmp'[p]
  <2>1. CASE learns(c, p)
    <3>1. c \notin sync.got \/ p \notin Underway
      BY <1>2, <2>1 DEF PositionsKept, PosShape
    <3>2. <<c, p>> \notin drift' => Follows(c, p)'
      BY <1>2, <1>3, <2>1, NoneUnderway DEF Follows
    <3> QED
      BY <1>2, <3>1, <3>2
  <2>2. CASE ~learns(c, p)
    <3>1. shown'[c][p] = shown[c][p] /\ (<<c, p>> \notin drift' => <<c, p>> \notin drift)
      BY <1>3, <2>2
    <3>2. Follows(c, p)' <=> Follows(c, p)
      BY <1>2, <3>1 DEF Follows
    <3> QED
      BY <1>2, <1>8, <3>1, <3>2 DEF PositionsKept, Tracks
  <2> QED
    BY <2>1, <2>2
<1> QED
  BY <1>6, <1>7, <1>8 DEF PositionsKept, Tracks

(* The task makes a packet for every player. *)
LEMMA SerializeTracks ==
  ASSUME PositionsKept, Pos!Serialize
  PROVE  PositionsKept'
<1>1. /\ entered' = entered /\ latest' = latest /\ transferred' = transferred
      /\ shown' = shown /\ drift' = drift
      /\ tmp' = [p \in Travellers |-> IF p \in entered THEN latest[p] ELSE tmp[p]]
      /\ sync'.to = entered /\ sync'.got = {}
      /\ sync'.packets = [p \in entered |-> Pos!Packet(latest[p], transferred[p])]
      /\ sync' = [to |-> sync'.to, packets |-> sync'.packets, got |-> sync'.got]
  BY DEF Pos!Serialize
<1>2. Underway = {} /\ sync.got = {}
  BY NoneUnderway DEF Pos!Serialize
<1>3. Underway' = entered
  BY <1>1 DEF Underway
<1>4. PosShape'
  BY <1>1, <1>3 DEF PositionsKept, PosShape
<1>5. PacketsBridge'
  BY <1>1, <1>3 DEF PositionsKept, PosShape, PacketsBridge
<1>6. ASSUME NEW c \in Travellers, NEW p \in Travellers, Follows(c, p) PROVE Follows(c, p)'
  BY <1>1, <1>2, <1>6 DEF Follows
<1> QED
  BY <1>1, <1>4, <1>5, <1>6 DEF PositionsKept, Tracks

(* A client misses the packets. *)
LEMMA RefusedTracks ==
  ASSUME PositionsKept, NEW c \in Travellers, Pos!MulticastRefused(c)
  PROVE  PositionsKept'
<1>1. /\ entered' = entered /\ latest' = latest /\ transferred' = transferred /\ tmp' = tmp
      /\ shown' = shown /\ drift' = drift /\ sync' = [sync EXCEPT !.to = @ \ {c}]
  BY DEF Pos!MulticastRefused
<1>2. /\ sync'.to = sync.to \ {c} /\ sync'.got = sync.got /\ sync'.packets = sync.packets
      /\ sync' = [to |-> sync'.to, packets |-> sync'.packets, got |-> sync'.got]
  <2>1. sync = [to |-> sync.to, packets |-> sync.packets, got |-> sync.got]
    BY DEF PositionsKept, PosShape
  <2> QED
    BY <1>1, <2>1
<1>3. Underway' = Underway
  BY <1>2 DEF Underway
<1>4. \A b, p : Follows(b, p)' <=> Follows(b, p)
  BY <1>1, <1>2, <1>3 DEF Follows
<1>5. PosShape'
  BY <1>1, <1>2, <1>3 DEF PositionsKept, PosShape
<1> QED
  BY <1>1, <1>2, <1>3, <1>4, <1>5 DEF PositionsKept, PacketsBridge, Tracks

(* A client gets the packets, and its own player is where they say. *)
LEMMA MulticastTracks ==
  ASSUME Pos!PositionAssumption, PositionsKept, NEW c \in Travellers, Pos!MulticastTo(c)
  PROVE  PositionsKept'
<1>1. /\ entered' = entered /\ latest' = latest /\ tmp' = tmp /\ drift' = drift
      /\ transferred' = [transferred EXCEPT ![c] = tmp[c]]
      /\ shown' = [shown EXCEPT ![c] = [p \in Travellers |->
                     IF p \in Underway THEN Pos!Apply(shown[c][p], sync.packets[p])
                                    ELSE shown[c][p]]]
      /\ sync' = [sync EXCEPT !.to = @ \ {c}, !.got = @ \cup {c}]
      /\ c \in sync.to /\ c \in Underway /\ c \notin sync.got
  BY DEF Pos!MulticastTo, Pos!CommitTmp, Pos!Received, PositionsKept, PosShape, Underway
<1>2. /\ sync'.to = sync.to \ {c} /\ sync'.got = sync.got \cup {c}
      /\ sync'.packets = sync.packets
      /\ sync' = [to |-> sync'.to, packets |-> sync'.packets, got |-> sync'.got]
  <2>1. sync = [to |-> sync.to, packets |-> sync.packets, got |-> sync.got]
    BY DEF PositionsKept, PosShape
  <2> QED
    BY <1>1, <2>1
<1>3. Underway' = Underway
  BY <1>2 DEF Underway
<1>4. Underway \subseteq Travellers
  BY DEF PositionsKept, PosShape
<1>5. ASSUME NEW p \in Underway
      PROVE  /\ tmp[p] \in Pos!Position /\ transferred[p] \in Pos!Position
             /\ \E last \in Pos!Position : sync.packets[p] = Pos!Packet(tmp[p], last)
  BY <1>4 DEF PositionsKept, PosShape, PacketsBridge
<1>6. ASSUME NEW p \in Travellers, p \in Underway, NEW v \in Pos!Position \cup {Pos!Unseen}
      PROVE  /\ Pos!Apply(v, sync.packets[p]) \in Pos!Position \cup {Pos!Unseen}
             /\ v = Pos!Unseen <=> Pos!Apply(v, sync.packets[p]) = Pos!Unseen
             /\ sync.packets[p].kind = "absolute" /\ v # Pos!Unseen
                  => Pos!Apply(v, sync.packets[p]) = tmp[p]
  BY <1>5, <1>6, ApplyKeeps
<1>7. \A b, p \in Travellers : shown[b][p] \in Pos!Position \cup {Pos!Unseen}
  BY DEF PositionsKept, PosShape
<1>8. /\ \A p \in Travellers : shown'[c][p] = IF p \in Underway
                                              THEN Pos!Apply(shown[c][p], sync.packets[p])
                                              ELSE shown[c][p]
      /\ \A b, p \in Travellers : b # c => shown'[b][p] = shown[b][p]
  BY <1>1 DEF PositionsKept, PosShape
<1>9. shown' \in [Travellers -> [Travellers -> Pos!Position \cup {Pos!Unseen}]]
  BY <1>1, <1>6, <1>7 DEF PositionsKept, PosShape
<1>10. PosShape'
  BY <1>1, <1>2, <1>3, <1>4, <1>9 DEF PositionsKept, PosShape
<1>11. /\ transferred'[c] = tmp[c]
       /\ \A p \in Travellers : p # c => transferred'[p] = transferred[p]
  BY <1>1 DEF PositionsKept, PosShape
<1>12. PacketsBridge'
  BY <1>1, <1>2, <1>3, <1>4, <1>11 DEF PositionsKept, PacketsBridge
<1>13. ASSUME NEW p \in Underway, p \notin sync.got
       PROVE  ~sync.packets[p].cut => Pos!Apply(transferred[p], sync.packets[p]) = tmp[p]
  <2>1. sync.packets[p] = Pos!Packet(tmp[p], transferred[p])
    BY <1>13 DEF PositionsKept, PacketsBridge
  <2> QED
    BY <1>5, <2>1, PacketLeads
<1>14. ASSUME NEW b \in Travellers, NEW p \in Travellers, shown'[b][p] # Pos!Unseen
       PROVE  /\ <<b, p>> \notin drift' => Follows(b, p)'
              /\ p \in Underway' /\ b \in sync'.got /\ sync'.packets[p].kind = "absolute"
                    => shown'[b][p] = tmp'[p]
  <2>1. shown[b][p] # Pos!Unseen
    BY <1>6, <1>7, <1>8, <1>14
  <2>2. /\ <<b, p>> \notin drift => Follows(b, p)
        /\ p \in Underway /\ b \in sync.got /\ sync.packets[p].kind = "absolute"
              => shown[b][p] = tmp[p]
    BY <2>1 DEF PositionsKept, Tracks
  <2>3. p \in Underway /\ b \in sync'.got /\ sync.packets[p].kind = "absolute"
              => shown'[b][p] = tmp[p]
    BY <1>2, <1>6, <1>7, <1>8, <2>1, <2>2
  <2>4. ASSUME Follows(b, p) PROVE Follows(b, p)'
    <3>1. p \notin Underway => shown'[b][p] = transferred'[p]
      BY <1>1, <1>8, <1>11, <2>4 DEF Follows
    <3>2. ASSUME p \in Underway, b \in sync'.got, ~sync.packets[p].cut PROVE shown'[b][p] = tmp[p]
      <4>1. CASE b = c
        BY <1>1, <1>8, <1>13, <2>4, <3>2, <4>1 DEF Follows
      <4>2. CASE b # c
        BY <1>2, <1>8, <2>4, <3>2, <4>2 DEF Follows
      <4> QED
        BY <4>1, <4>2
    <3>3. ASSUME p \in Underway, b \notin sync'.got, p \in sync'.got, ~sync.packets[p].cut
          PROVE  Pos!Apply(shown'[b][p], sync.packets[p]) = tmp[p]
      <4>1. b # c /\ b \notin sync.got /\ shown'[b][p] = shown[b][p]
        BY <1>2, <1>8, <3>3
      <4> QED
        BY <1>2, <1>13, <2>4, <3>3, <4>1 DEF Follows
    <3>4. ASSUME p \in Underway, b \notin sync'.got, p \notin sync'.got
          PROVE  shown'[b][p] = transferred'[p]
      BY <1>2, <1>8, <1>11, <2>4, <3>4 DEF Follows
    <3> QED
      BY <1>1, <1>2, <1>3, <3>1, <3>2, <3>3, <3>4 DEF Follows
  <2> QED
    BY <1>1, <1>2, <1>3, <2>2, <2>3, <2>4
<1> QED
  BY <1>10, <1>12, <1>14 DEF PositionsKept, Tracks

(* The task ends. *)
LEMMA SyncEndTracks ==
  ASSUME Pos!PositionAssumption, PositionsKept, Pos!SyncEnd
  PROVE  PositionsKept'
<1> DEFINE went(p) == p \in Underway /\ sync.packets[p].kind # "none"
           Lost(c, p) == /\ went(p)
                         /\ \/ (c \in sync.got) # (p \in sync.got)
                            \/ c \in sync.got /\ sync.packets[p].cut
           Found(c, p) == /\ went(p) /\ sync.packets[p].kind = "absolute"
                          /\ c \in sync.got /\ p \in sync.got
<1>1. /\ entered' = entered /\ latest' = latest /\ transferred' = transferred /\ tmp' = tmp
      /\ shown' = shown /\ sync' = Pos!NoSync
      /\ drift' = {cp \in drift : ~Found(cp[1], cp[2])}
                    \cup {cp \in Travellers \X Travellers : Lost(cp[1], cp[2])}
  BY DEF Pos!SyncEnd, Underway
<1>2. Underway' = {} /\ sync'.got = {} /\ sync'.to = {}
  BY <1>1 DEF Pos!NoSync, Underway
<1>3. PosShape'
  BY <1>1, <1>2 DEF PositionsKept, PosShape, Pos!NoSync
<1>4. PacketsBridge'
  BY <1>2 DEF PacketsBridge
<1>5. ASSUME NEW c \in Travellers, NEW p \in Travellers, shown[c][p] # Pos!Unseen,
             <<c, p>> \notin drift'
      PROVE  shown[c][p] = transferred[p]
  <2>1. ~Lost(c, p) /\ (Found(c, p) \/ <<c, p>> \notin drift)
    BY <1>1, <1>5
  <2>2. /\ <<c, p>> \notin drift => Follows(c, p)
        /\ p \in Underway /\ c \in sync.got /\ sync.packets[p].kind = "absolute"
              => shown[c][p] = tmp[p]
    BY <1>5 DEF PositionsKept, Tracks
  <2>3. p \in Underway /\ p \in sync.got => transferred[p] = tmp[p]
    BY DEF PositionsKept, PacketsBridge
  <2>4. CASE Found(c, p)
    BY <2>2, <2>3, <2>4
  <2>5. CASE <<c, p>> \notin drift /\ p \notin Underway
    BY <2>2, <2>5 DEF Follows
  <2>6. CASE <<c, p>> \notin drift /\ went(p)
    <3>1. CASE c \in sync.got /\ p \in sync.got
      BY <2>1, <2>2, <2>3, <2>6, <3>1 DEF Follows
    <3>2. CASE c \notin sync.got /\ p \notin sync.got
      BY <2>1, <2>2, <2>6, <3>2 DEF Follows
    <3> QED
      BY <2>1, <2>6, <3>1, <3>2
  <2>7. CASE <<c, p>> \notin drift /\ p \in Underway /\ sync.packets[p].kind = "none"
    <3>1. /\ tmp[p] \in Pos!Position /\ transferred[p] \in Pos!Position
          /\ shown[c][p] \in Pos!Position \cup {Pos!Unseen}
      BY DEF PositionsKept, PosShape
    <3>2. PICK last \in Pos!Position : sync.packets[p] = Pos!Packet(tmp[p], last)
      BY <2>7 DEF PositionsKept, PacketsBridge
    <3>3. ~sync.packets[p].cut /\ Pos!Apply(shown[c][p], sync.packets[p]) = shown[c][p]
      BY <2>7, <3>1, <3>2, PacketLeads, ApplyKeeps
    <3>4. transferred[p] = tmp[p]
      <4>1. CASE p \in sync.got
        BY <2>3, <2>7, <4>1
      <4>2. CASE p \notin sync.got
        <5>1. sync.packets[p] = Pos!Packet(tmp[p], transferred[p])
          BY <2>7, <4>2 DEF PositionsKept, PacketsBridge
        <5> QED
          BY <2>7, <3>1, <5>1, PacketLeads
      <4> QED
        BY <4>1, <4>2
    <3> QED
      BY <2>2, <2>7, <3>3, <3>4 DEF Follows
  <2> QED
    BY <2>1, <2>4, <2>5, <2>6, <2>7
<1>6. ASSUME NEW c \in Travellers, NEW p \in Travellers, shown'[c][p] # Pos!Unseen,
             <<c, p>> \notin drift'
      PROVE  Follows(c, p)'
  <2>1. shown[c][p] = transferred[p]
    BY <1>1, <1>5, <1>6
  <2> QED
    BY <1>1, <1>2, <2>1 DEF Follows
<1> QED
  BY <1>2, <1>3, <1>4, <1>6 DEF PositionsKept, Tracks

(* Every step of the positions keeps the invariant. *)
LEMMA NextPositions ==
  ASSUME Pos!PositionAssumption, PositionsKept, Pos!Next PROVE PositionsKept'
<1>1. ASSUME NEW p \in Movers, NEW pos \in Targets, Pos!Move(p, pos) PROVE PositionsKept'
  BY <1>1, MoveTracks
<1>2. ASSUME NEW new \in SUBSET Travellers, Pos!Spawn(new) PROVE PositionsKept'
  BY <1>2, SpawnTracks
<1>3. CASE Pos!Serialize
  BY <1>3, SerializeTracks
<1>4. CASE Pos!SyncEnd
  BY <1>4, SyncEndTracks
<1>5. ASSUME NEW c \in Travellers, Pos!MulticastTo(c) PROVE PositionsKept'
  BY <1>5, MulticastTracks
<1>6. ASSUME NEW c \in Travellers, Pos!MulticastRefused(c) PROVE PositionsKept'
  BY <1>6, RefusedTracks
<1> QED
  BY <1>1, <1>2, <1>3, <1>4, <1>5, <1>6 DEF Pos!Next

(* The invariant holds of the part of the world that moves players. *)
LEMMA WorldPositions ==
  /\ WorldInit => (part = "positions" => PositionsKept)
  /\ (part = "positions" => PositionsKept) /\ [WorldNext]_allVars
        => (part = "positions" => PositionsKept)'
<1>0. Pos!PositionAssumption
  BY WorldAssumption
<1>1. WorldInit => (part = "positions" => PositionsKept)
  BY <1>0, InitPositions DEF WorldInit
<1>2. ASSUME part = "positions" => PositionsKept, [WorldNext]_allVars, part' = "positions"
      PROVE  PositionsKept'
  <2>1. part = "positions" /\ PositionsKept
    BY <1>2 DEF WorldNext, allVars
  <2>2. Pos!Next \/ UNCHANGED posVars
    BY <1>2, <2>1 DEF WorldNext, TaskNext, allVars, taskVars
  <2> QED
    BY <1>0, <2>1, <2>2, NextPositions, StutterPositions
<1> QED
  BY <1>1, <1>2

(* Between two runs of the position task, a client shows a player where    *)
(* the server last transferred it, through every mixture of absolute and   *)
(* relative packets, moves, refused multicasts and new players, for any    *)
(* number of players and coordinates of any width, unless one of the named *)
(* causes of drift hit the pair since the last absolute packet.            *)
THEOREM ViewsFollow == WorldSpec => []ViewFollows
<1>1. (part = "positions" => PositionsKept) => ViewFollows
  <2> SUFFICES ASSUME part = "positions", PositionsKept, sync = Pos!NoSync,
                      NEW c \in Travellers, NEW p \in Travellers
               PROVE  \/ shown[c][p] \in {Pos!Unseen, transferred[p]}
                      \/ <<c, p>> \in drift
    BY DEF ViewFollows, Pos!ViewFollows
  <2> QED
    BY NoneUnderway DEF PositionsKept, Tracks, Follows
<1> QED
  BY <1>1, WorldPositions, PTL DEF WorldSpec

----------------------------------------------------------------------------
(* The documents.  The connections that have the user's game data: the     *)
(* document has been read for them, and they are still online.             *)
Accounts == [cur : Documents!States, prev : Documents!States, next : Documents!States,
             answered : BOOLEAN, authenticated : BOOLEAN, loaded : BOOLEAN,
             uuid : Documents!Uuids, data : Nat]
Upserts == [conn : Players, uuid : Documents!Uuids, data : Nat]

HasData(c) == online[c] /\ Documents!IsUser(c) /\ (account[c].loaded \/ load[c] \in Nat)
Newest(c) == IF account[c].loaded THEN account[c].data ELSE load[c]
(* ... and those that the world has not parted from, which may be the only *)
(* ones to have them.                                                      *)
InHand(c) == HasData(c) /\ account[c].loaded /\ account[c].cur # Documents!disconnected

(* What the parts of the state are.                                        *)
DocShape ==
    /\ online \in [Players -> BOOLEAN] /\ account \in [Players -> Accounts]
    /\ load \in [Players -> Int] /\ doc \in [Documents!Uuids -> Int]
    /\ queued \subseteq Players /\ saves \subseteq Upserts
    /\ moves \in Nat /\ earned \in Nat /\ earned <= moves /\ doc["user"] \in Nat
    /\ session # Documents!NoConn => session \in Players /\ Documents!IsUser(session)

(* The way of a connection: with the answer of the login server it becomes *)
(* the user's, then the document is loaded, then the player is let in.     *)
Course(c) ==
    LET a == account[c]
    IN  /\ a.cur \in {Documents!invaild, Documents!disconnecting, Documents!disconnected,
                      Documents!handshaking, Documents!handshaked}
        /\ a.cur \in {Documents!disconnecting, Documents!disconnected}
              => a.next = Documents!disconnected
        /\ a.cur \in {Documents!handshaking, Documents!handshaked}
              => a.next = Documents!handshaked
        /\ a.cur = Documents!invaild => ~a.answered
        /\ a.cur = Documents!handshaked => a.answered /\ (a.uuid = "user" => a.loaded)
        /\ ~a.answered => a.uuid # "user" /\ load[c] = Documents!NoLoad /\ ~a.loaded
        /\ a.uuid = "user" => a.authenticated
        /\ load[c] # Documents!NoLoad => a.uuid = "user" /\ ~a.loaded
        /\ load[c] \in {Documents!NoLoad, Documents!Asked, Documents!Failed} \cup Nat
        /\ c \in queued => a.cur \in {Documents!disconnecting, Documents!disconnected}

(* One connection has the data, they are the newest, and so is what is on  *)
(* its way to the document or has arrived there.                           *)
Holding ==
    /\ \A c, d \in Players : HasData(c) /\ HasData(d) => c = d
    /\ \A c \in Players : HasData(c) => Newest(c) >= earned
Saving ==
    /\ \A s \in saves : s.uuid = "user" =>
         /\ s.data >= earned
         /\ account[s.conn].cur = Documents!disconnected /\ s.conn \notin queued
         /\ \A d \in Players : HasData(d) => s.conn = d
    /\ \A s, t \in saves : s.uuid = "user" /\ t.uuid = "user" => s = t
    /\ \/ \E s \in saves : s.uuid = "user"
       \/ \E c \in Players : InHand(c)
       \/ doc["user"] >= earned

DocKept ==
    /\ DocShape /\ \A c \in Players : Course(c)
    /\ slips = {} => Holding /\ Saving

(* The states that a document meets.                                       *)
LEMMA StateNumbers ==
  /\ Documents!invaild = 0 /\ Documents!disconnecting = 1 /\ Documents!disconnected = 2
  /\ Documents!initialized = 3 /\ Documents!handshaking = 4 /\ Documents!handshaked = 6
  /\ Documents!States = 0 .. 13
  /\ Documents!NoDocument = 0 - 1 /\ Documents!Failed = 0 - 2
  /\ Documents!Asked = 0 - 3 /\ Documents!NoLoad = 0 - 4
BY DEF Documents!invaild, Documents!disconnecting, Documents!disconnected,
       Documents!initialized, Documents!handshaking, Documents!handshaked,
       Documents!States, Documents!spawned, Documents!NoDocument, Documents!Failed,
       Documents!Asked, Documents!NoLoad

(* What the operations on a player leave alone.                            *)
LEMMA AccountFacts ==
  ASSUME NEW p \in Accounts
  PROVE  /\ LET q == Documents!PrepareStateTransition(p, Documents!disconnecting,
                                                      Documents!disconnected)
            IN  /\ q \in Accounts
                /\ q.cur = Documents!disconnecting /\ q.next = Documents!disconnected
                /\ q.answered = p.answered /\ q.authenticated = p.authenticated
                /\ q.loaded = p.loaded /\ q.uuid = p.uuid /\ q.data = p.data
         /\ LET q == Documents!TransitState(p)
            IN  /\ q \in Accounts
                /\ q.cur = p.next /\ q.next = p.next
                /\ q.answered = p.answered /\ q.authenticated = p.authenticated
                /\ q.loaded = p.loaded /\ q.uuid = p.uuid /\ q.data = p.data
         /\ LET q == [p EXCEPT !.answered = TRUE]
            IN  /\ q \in Accounts
                /\ q.cur = p.cur /\ q.next = p.next
                /\ q.answered /\ q.authenticated = p.authenticated
                /\ q.loaded = p.loaded /\ q.uuid = p.uuid /\ q.data = p.data
<1>1. LET q == Documents!PrepareStateTransition(p, Documents!disconnecting,
                                                Documents!disconnected)
      IN  /\ q \in Accounts
          /\ q.cur = Documents!disconnecting /\ q.next = Documents!disconnected
          /\ q.answered = p.answered /\ q.authenticated = p.authenticated
          /\ q.loaded = p.loaded /\ q.uuid = p.uuid /\ q.data = p.data
  <2>1. PICK r : r = Documents!PrepareStateTransition(p, Documents!disconnecting,
                                                      Documents!disconnected)
    OBVIOUS
  <2>2. r = [cur |-> Documents!disconnecting, prev |-> p.cur,
             next |-> Documents!disconnected, answered |-> p.answered,
             authenticated |-> p.authenticated, loaded |-> p.loaded, uuid |-> p.uuid,
             data |-> p.data]
    BY <2>1 DEF Documents!PrepareStateTransition, Accounts
  <2>3. Documents!disconnecting \in Documents!States /\ Documents!disconnected \in Documents!States
    BY StateNumbers
  <2> QED
    BY <2>1, <2>2, <2>3 DEF Accounts
<1>2. LET q == Documents!TransitState(p)
      IN  /\ q \in Accounts
          /\ q.cur = p.next /\ q.next = p.next
          /\ q.answered = p.answered /\ q.authenticated = p.authenticated
          /\ q.loaded = p.loaded /\ q.uuid = p.uuid /\ q.data = p.data
  BY DEF Accounts, Documents!TransitState
<1>3. LET q == [p EXCEPT !.answered = TRUE]
      IN  /\ q \in Accounts
          /\ q.cur = p.cur /\ q.next = p.next
          /\ q.answered /\ q.authenticated = p.authenticated
          /\ q.loaded = p.loaded /\ q.uuid = p.uuid /\ q.data = p.data
  BY DEF Accounts
<1> QED
  BY <1>1, <1>2, <1>3

(* A connection on which nothing happens keeps its course.                 *)
LEMMA CourseStays ==
  ASSUME NEW d \in Players, Course(d), account'[d] = account[d], load'[d] = load[d],
         d \in queued' => d \in queued
  PROVE  Course(d)'
BY DEF Course

(* What was asked of the data stays true as long as nobody comes to new    *)
(* data, nobody in whose hand they are loses them, and who was torn down   *)
(* stays so.                                                               *)
LEMMA DataStay ==
  ASSUME DocKept, DocShape', \A c \in Players : Course(c)', slips' = {} => slips = {},
         doc' = doc, saves' = saves, earned' = earned,
         slips' = {} =>
           \A c \in Players :
             /\ HasData(c)' => HasData(c) /\ Newest(c)' = Newest(c)
             /\ InHand(c) => InHand(c)'
             /\ account[c].cur = Documents!disconnected /\ c \notin queued
                  => account'[c].cur = Documents!disconnected /\ c \notin queued'
  PROVE  DocKept'
<1>1. SUFFICES ASSUME slips' = {} PROVE Holding' /\ Saving'
  BY DEF DocKept
<1>2. Holding /\ Saving
  BY <1>1 DEF DocKept
<1>3. Holding'
  BY <1>1, <1>2 DEF Holding
<1>4. Saving'
  <2>1. ASSUME NEW s \in saves', s.uuid = "user"
        PROVE  /\ s.data >= earned'
               /\ account'[s.conn].cur = Documents!disconnected /\ s.conn \notin queued'
               /\ \A d \in Players : HasData(d)' => s.conn = d
    <3>1. s.conn \in Players
      BY DEF DocKept, DocShape, Upserts
    <3> QED
      BY <1>1, <1>2, <2>1, <3>1 DEF Saving
  <2>2. \A s, t \in saves' : s.uuid = "user" /\ t.uuid = "user" => s = t
    BY <1>2 DEF Saving
  <2>3. \/ \E s \in saves' : s.uuid = "user"
        \/ \E c \in Players : InHand(c)'
        \/ doc'["user"] >= earned'
    BY <1>1, <1>2 DEF Saving
  <2> QED
    BY <2>1, <2>2, <2>3 DEF Saving
<1> QED
  BY <1>3, <1>4

(* Connection::disconnect: in the world's hands the data stay; offline go  *)
(* those that have none, or had been saved, or the slip is recorded.       *)
LEMMA LeavesKeeps ==
  ASSUME DocKept, NEW c \in Players, NEW p \in Accounts, Documents!Leaves(c, p),
         online[c], account[c].cur # Documents!invaild,
         p.cur = account[c].cur, p.next = account[c].next, p.uuid = account[c].uuid,
         p.authenticated = account[c].authenticated, p.loaded = account[c].loaded,
         p.data = account[c].data, account[c].answered => p.answered,
         load' = load \/ (load' = [load EXCEPT ![c] = Documents!NoLoad]
                          /\ load[c] = Documents!Failed),
         UNCHANGED <<session, queued, doc, saves, moves, earned>>
  PROVE  DocKept'
<1> DEFINE q == Documents!PrepareStateTransition(p, Documents!disconnecting,
                                                 Documents!disconnected)
<1>1. DocShape /\ Course(c) /\ account[c] \in Accounts /\ load[c] \in Int
  BY DEF DocKept, DocShape
<1>2. PICK r \in Accounts : r = IF Documents!Delegates(p) THEN q ELSE p
  BY AccountFacts
<1>3. /\ account' = [account EXCEPT ![c] = r]
      /\ online' = [online EXCEPT ![c] = Documents!Delegates(p)]
      /\ slips' = slips \cup (IF p.cur = Documents!disconnecting /\ Documents!IsUser(c)
                              THEN {"early"} ELSE {})
  BY <1>2 DEF Documents!Leaves
<1>4. /\ r.uuid = account[c].uuid /\ r.authenticated = account[c].authenticated
      /\ r.loaded = account[c].loaded /\ r.data = account[c].data
      /\ account[c].answered => r.answered
  BY <1>2, AccountFacts
<1>5. /\ Documents!Delegates(p)
           => r.cur = Documents!disconnecting /\ r.next = Documents!disconnected
      /\ ~Documents!Delegates(p) => r.cur = account[c].cur /\ r.next = account[c].next
  BY <1>2, AccountFacts
<1>6. /\ Documents!Delegates(p)
           => account[c].cur \in {Documents!handshaking, Documents!handshaked}
      /\ ~Documents!Delegates(p)
           => account[c].cur \in {Documents!disconnecting, Documents!disconnected}
  BY <1>1, StateNumbers DEF Course, Documents!Delegates
<1> HIDE DEF q
<1>7. account'[c] = r /\ \A d \in Players : d # c => account'[d] = account[d]
  BY <1>1, <1>3 DEF DocShape
<1>8. /\ online'[c] <=> Documents!Delegates(p)
      /\ \A d \in Players : d # c => online'[d] = online[d]
  BY <1>1, <1>3 DEF DocShape, Documents!Delegates
<1>9. /\ load'[c] = load[c] \/ (load'[c] = Documents!NoLoad /\ load[c] = Documents!Failed)
      /\ \A d \in Players : d # c => load'[d] = load[d]
  BY <1>1 DEF DocShape
<1>10. DocShape'
  <2>1. online' \in [Players -> BOOLEAN] /\ account' \in [Players -> Accounts]
    BY <1>1, <1>3 DEF DocShape, Documents!Delegates
  <2>2. load' \in [Players -> Int]
    BY <1>1, StateNumbers DEF DocShape
  <2>3. session # Documents!NoConn => session \in Players /\ account'[session].uuid = "user"
    BY <1>1, <1>4, <1>7 DEF DocShape, Documents!IsUser
  <2> QED
    BY <1>1, <2>1, <2>2, <2>3 DEF DocShape, Documents!IsUser
<1>11. \A d \in Players : Course(d)'
  <2>1. Course(c)'
    BY <1>1, <1>4, <1>5, <1>6, <1>7, <1>9, StateNumbers DEF Course
  <2>2. ASSUME NEW d \in Players, d # c PROVE Course(d)'
    BY <1>7, <1>9, <2>2, CourseStays DEF DocKept
  <2> QED
    BY <2>1, <2>2
<1>12. ASSUME slips' = {}, NEW d \in Players
      PROVE  /\ HasData(d)' => HasData(d) /\ Newest(d)' = Newest(d)
             /\ InHand(d) => InHand(d)'
             /\ account[d].cur = Documents!disconnected /\ d \notin queued
                  => account'[d].cur = Documents!disconnected /\ d \notin queued'
  <2>1. CASE d # c
    BY <1>7, <1>8, <1>9, <2>1 DEF HasData, InHand, Newest, Documents!IsUser
  <2>2. CASE d = c
    <3>1. HasData(c)' => HasData(c) /\ Newest(c)' = Newest(c)
      <4> SUFFICES ASSUME HasData(c)' PROVE HasData(c) /\ Newest(c)' = Newest(c)
        OBVIOUS
      <4>1. Documents!Delegates(p) /\ account[c].uuid = "user"
        BY <1>4, <1>7, <1>8 DEF HasData, Documents!IsUser
      <4> QED
        BY <1>4, <1>7, <1>8, <1>9, <4>1, StateNumbers DEF HasData, Newest, Documents!IsUser
    <3>2. InHand(c) => InHand(c)'
      <4> SUFFICES ASSUME InHand(c) PROVE InHand(c)'
        OBVIOUS
      <4>1. Documents!IsUser(c) /\ account[c].cur # Documents!disconnected /\ account[c].loaded
        BY DEF InHand, HasData
      <4>2. Documents!Delegates(p)
        BY <1>3, <1>6, <1>12, <4>1
      <4>3. online'[c] /\ account'[c] = r
        BY <1>7, <1>8, <4>2
      <4>4. r.uuid = "user" /\ r.loaded /\ r.cur # Documents!disconnected
        BY <1>4, <1>5, <4>1, <4>2, StateNumbers DEF Documents!IsUser
      <4> QED
        BY <4>3, <4>4 DEF InHand, HasData, Documents!IsUser
    <3>3. account[c].cur = Documents!disconnected => account'[c].cur = Documents!disconnected
      BY <1>5, <1>6, <1>7, StateNumbers
    <3> QED
      BY <2>2, <3>1, <3>2, <3>3
  <2> QED
    BY <2>1, <2>2
<1> QED
  BY <1>3, <1>10, <1>11, <1>12, DataStay

(* A step of one connection that stays online keeps the documents if it    *)
(* does for the connection itself.                                         *)
LEMMA OneAccount ==
  ASSUME DocKept, NEW c \in Players, NEW r \in Accounts,
         account' = [account EXCEPT ![c] = r],
         load' \in [Players -> Int], \A d \in Players : d # c => load'[d] = load[d],
         UNCHANGED <<online, session, queued, doc, saves, moves, earned, slips>>,
         account[c].uuid = "user" => r.uuid = "user",
         Course(c)',
         HasData(c)' => HasData(c) /\ Newest(c)' = Newest(c),
         InHand(c) => InHand(c)',
         account[c].cur = Documents!disconnected => r.cur = Documents!disconnected
  PROVE  DocKept'
<1>1. account'[c] = r /\ \A d \in Players : d # c => account'[d] = account[d]
  BY DEF DocKept, DocShape
<1>2. DocShape'
  <2>1. account' \in [Players -> Accounts]
    BY DEF DocKept, DocShape
  <2>2. session # Documents!NoConn => session \in Players /\ account'[session].uuid = "user"
    BY <1>1 DEF DocKept, DocShape, Documents!IsUser
  <2> QED
    BY <2>1, <2>2 DEF DocKept, DocShape, Documents!IsUser
<1>3. \A d \in Players : Course(d)'
  <2>1. ASSUME NEW d \in Players, d # c PROVE Course(d)'
    BY <1>1, <2>1, CourseStays DEF DocKept
  <2> QED
    BY <2>1
<1>4. ASSUME NEW d \in Players
      PROVE  /\ HasData(d)' => HasData(d) /\ Newest(d)' = Newest(d)
             /\ InHand(d) => InHand(d)'
             /\ account[d].cur = Documents!disconnected /\ d \notin queued
                  => account'[d].cur = Documents!disconnected /\ d \notin queued'
  <2>1. CASE d # c
    BY <1>1, <2>1 DEF HasData, InHand, Newest, Documents!IsUser
  <2>2. CASE d = c
    BY <1>1, <2>2
  <2> QED
    BY <2>1, <2>2
<1> QED
  BY <1>2, <1>3, <1>4, DataStay

(* What is known of a connection.                                          *)
LEMMA ConnectionFacts ==
  ASSUME DocKept, NEW c \in Players
  PROVE  DocShape /\ Course(c) /\ account[c] \in Accounts /\ load[c] \in Int
BY DEF DocKept, DocShape

(* Connection::disconnect, called by a thread of the connection itself.     *)
LEMMA DisconnectKeeps ==
  ASSUME DocKept, NEW c \in Players, Documents!Disconnect(c)
  PROVE  DocKept'
<1>1. PICK p \in Accounts : p = account[c]
  BY ConnectionFacts
<1> QED
  BY <1>1, LeavesKeeps DEF Documents!Disconnect

(* A new Player object knows no user yet.                                  *)
LEMMA HandshakeKeeps ==
  ASSUME DocKept, NEW c \in Players, Documents!Handshake(c)
  PROVE  DocKept'
<1>1. DocShape /\ Course(c) /\ account[c] \in Accounts /\ load[c] \in Int
  BY ConnectionFacts
<1>2. PICK garbage \in BOOLEAN :
        account' = [account EXCEPT ![c] =
          [Documents!NoPlayer EXCEPT !.prev = Documents!initialized,
                                     !.cur = Documents!handshaking,
                                     !.next = Documents!handshaked,
                                     !.authenticated = garbage]]
  BY DEF Documents!Handshake
<1>3. PICK r : r = [Documents!NoPlayer EXCEPT !.prev = Documents!initialized,
                                             !.cur = Documents!handshaking,
                                             !.next = Documents!handshaked,
                                             !.authenticated = garbage]
  OBVIOUS
<1>4. "" \in Documents!Uuids /\ "" # "user"
  BY Zenon DEF Documents!Uuids
<1>5. PICK blank \in Documents!Uuids :
        /\ blank # "user"
        /\ Documents!NoPlayer =
             [cur |-> Documents!invaild, prev |-> Documents!invaild,
              next |-> Documents!invaild, answered |-> FALSE, authenticated |-> FALSE,
              uuid |-> blank, data |-> 0, loaded |-> FALSE]
  BY <1>4, Zenon DEF Documents!NoPlayer
<1>6. r = [cur |-> Documents!handshaking, prev |-> Documents!initialized,
           next |-> Documents!handshaked, answered |-> FALSE, authenticated |-> garbage,
           uuid |-> blank, data |-> 0, loaded |-> FALSE]
  BY <1>3, <1>5
<1>7. /\ r \in Accounts /\ r.uuid # "user"
      /\ r.cur = Documents!handshaking /\ r.next = Documents!handshaked
      /\ ~r.answered /\ ~r.loaded
  BY <1>5, <1>6, StateNumbers DEF Accounts
<1>8. account[c].cur = Documents!invaild
  BY DEF Documents!Handshake
<1>9. account[c].uuid # "user" /\ load[c] = Documents!NoLoad /\ c \notin queued
  BY <1>1, <1>8, StateNumbers DEF Course
<1>10. account' = [account EXCEPT ![c] = r]
  BY <1>2, <1>3
<1>11. account'[c] = r
  BY <1>1, <1>10 DEF DocShape
<1>12. UNCHANGED <<online, load, session, queued, doc, saves, moves, earned, slips>>
  BY DEF Documents!Handshake
<1>13. Course(c)'
  BY <1>7, <1>9, <1>11, <1>12, StateNumbers DEF Course
<1>14. ~HasData(c)' /\ ~InHand(c)
  BY <1>7, <1>9, <1>11 DEF HasData, InHand, Documents!IsUser
<1>15. load' \in [Players -> Int] /\ \A d \in Players : load'[d] = load[d]
  BY <1>1, <1>12 DEF DocShape
<1>16. account[c].cur # Documents!disconnected
  BY <1>8, StateNumbers
<1> QED
  BY <1>7, <1>9, <1>10, <1>12, <1>13, <1>14, <1>15, <1>16, OneAccount

(* The answers that name no user: a guest, and a refused login.            *)
LEMMA AnswerGuestKeeps ==
  ASSUME DocKept, NEW c \in Players, Documents!AnswerGuest(c)
  PROVE  DocKept'
<1>1. DocShape /\ Course(c) /\ account[c] \in Accounts /\ load[c] \in Int
  BY ConnectionFacts
<1>2. PICK p : p = [Documents!Answered(c) EXCEPT !.authenticated = FALSE]
  OBVIOUS
<1>3. /\ p \in Accounts /\ p.answered /\ p.next = account[c].next
      /\ p.uuid = account[c].uuid /\ p.loaded = account[c].loaded
  BY <1>1, <1>2 DEF Documents!Answered, Accounts
<1>4. PICK r \in Accounts : r = Documents!TransitState(p)
  BY <1>3, AccountFacts
<1>5. /\ r.answered /\ r.cur = account[c].next /\ r.next = account[c].next
      /\ r.uuid = account[c].uuid /\ r.loaded = account[c].loaded
  BY <1>3, <1>4, AccountFacts
<1>6. account' = [account EXCEPT ![c] = r]
  BY <1>2, <1>4 DEF Documents!AnswerGuest
<1>7. account'[c] = r
  BY <1>1, <1>6 DEF DocShape
<1>8. UNCHANGED <<online, load, session, queued, doc, saves, moves, earned, slips>>
  BY DEF Documents!AnswerGuest
<1>9. ~account[c].answered /\ account[c].cur # Documents!invaild
  BY DEF Documents!AnswerGuest, Documents!Unanswered
<1>10. account[c].uuid # "user" /\ load[c] = Documents!NoLoad
  BY <1>1, <1>9 DEF Course
<1>11. Course(c)'
  BY <1>1, <1>5, <1>7, <1>8, <1>9, <1>10, StateNumbers DEF Course
<1>12. ~HasData(c)' /\ ~InHand(c)
  BY <1>5, <1>7, <1>10 DEF HasData, InHand, Documents!IsUser
<1>13. load' \in [Players -> Int] /\ \A d \in Players : load'[d] = load[d]
  BY <1>1, <1>8 DEF DocShape
<1>14. account[c].cur = Documents!disconnected => r.cur = Documents!disconnected
  BY <1>1, <1>5, StateNumbers DEF Course
<1> QED
  BY <1>6, <1>8, <1>10, <1>11, <1>12, <1>13, <1>14, OneAccount

(* ... which ends the connection.                                          *)
LEMMA AnswerRefusedKeeps ==
  ASSUME DocKept, NEW c \in Players, Documents!AnswerRefused(c)
  PROVE  DocKept'
<1>1. PICK p \in Accounts : p = Documents!Answered(c)
  BY ConnectionFacts, AccountFacts DEF Documents!Answered
<1>2. /\ p.cur = account[c].cur /\ p.next = account[c].next /\ p.uuid = account[c].uuid
      /\ p.authenticated = account[c].authenticated /\ p.loaded = account[c].loaded
      /\ p.data = account[c].data /\ p.answered
  BY <1>1, ConnectionFacts, AccountFacts DEF Documents!Answered
<1> QED
  BY <1>1, <1>2, LeavesKeeps DEF Documents!AnswerRefused, Documents!Unanswered

(* A load that failed brings nothing.                                      *)
LEMMA ReadFailsKeeps ==
  ASSUME DocKept, NEW c \in Players, Documents!ReadFails(c)
  PROVE  DocKept'
<1>1. DocShape /\ Course(c) /\ account[c] \in Accounts /\ load[c] \in Int
  BY ConnectionFacts
<1>2. PICK r \in Accounts : r = account[c]
  BY <1>1
<1>3. /\ load[c] = Documents!Asked /\ load' = [load EXCEPT ![c] = Documents!Failed]
      /\ UNCHANGED <<online, account, session, queued, doc, saves, moves, earned, slips>>
  BY DEF Documents!ReadFails
<1>4. account' = [account EXCEPT ![c] = r] /\ account'[c] = account[c]
  BY <1>1, <1>2, <1>3 DEF DocShape
<1>5. /\ load' \in [Players -> Int] /\ load'[c] = Documents!Failed
      /\ \A d \in Players : d # c => load'[d] = load[d]
  BY <1>1, <1>3, StateNumbers DEF DocShape
<1>6. Course(c)'
  BY <1>1, <1>3, <1>4, <1>5, StateNumbers DEF Course
<1>7. /\ HasData(c)' => HasData(c) /\ Newest(c)' = Newest(c)
      /\ InHand(c) => InHand(c)'
  BY <1>3, <1>4, <1>5, StateNumbers DEF HasData, InHand, Newest, Documents!IsUser
<1> QED
  BY <1>2, <1>3, <1>4, <1>5, <1>6, <1>7, OneAccount

(* What a load brought is the newest, and passes to the Player object.     *)
LEMMA LoadedKeeps ==
  ASSUME DocKept, NEW c \in Players, Documents!Loaded(c)
  PROVE  DocKept'
<1>1. DocShape /\ Course(c) /\ account[c] \in Accounts /\ load[c] \in Int
  BY ConnectionFacts
<1>2. /\ load[c] \notin {Documents!NoLoad, Documents!Asked}
      /\ load' = [load EXCEPT ![c] = Documents!NoLoad]
      /\ UNCHANGED <<session, queued, doc, saves, moves, earned>>
  BY DEF Documents!Loaded
<1>3. /\ load' \in [Players -> Int] /\ load'[c] = Documents!NoLoad
      /\ \A d \in Players : d # c => load'[d] = load[d]
  BY <1>1, <1>2, StateNumbers DEF DocShape
<1>4. /\ account[c].uuid = "user" /\ ~account[c].loaded /\ account[c].answered
      /\ account[c].cur # Documents!invaild
      /\ load[c] = Documents!Failed \/ load[c] \in Nat
  BY <1>1, <1>2 DEF Course
<1>5. CASE ~online[c]
  <2>1. UNCHANGED <<online, account, slips>>
    BY <1>5 DEF Documents!Loaded
  <2>2. PICK r \in Accounts : r = account[c]
    BY <1>1
  <2>3. account' = [account EXCEPT ![c] = r] /\ account'[c] = account[c]
    BY <1>1, <2>1, <2>2 DEF DocShape
  <2>4. Course(c)'
    BY <1>1, <1>2, <1>3, <1>4, <2>3, StateNumbers DEF Course
  <2>5. ~HasData(c)' /\ ~InHand(c)
    BY <1>5, <2>1 DEF HasData, InHand
  <2> QED
    BY <1>2, <1>3, <2>1, <2>2, <2>3, <2>4, <2>5, OneAccount
<1>6. CASE online[c] /\ load[c] = Documents!Failed
  <2>1. PICK p \in Accounts : p = account[c]
    BY <1>1
  <2>2. Documents!Leaves(c, p)
    BY <1>6, <2>1 DEF Documents!Loaded
  <2> QED
    BY <1>2, <1>4, <1>6, <2>1, <2>2, LeavesKeeps
<1>7. CASE online[c] /\ load[c] # Documents!Failed
  <2>1. load[c] \in Nat /\ load[c] # Documents!NoDocument
    BY <1>4, <1>7, StateNumbers
  <2>2. PICK p : p = [account[c] EXCEPT !.loaded = TRUE, !.data = load[c]]
    OBVIOUS
  <2>3. /\ p \in Accounts /\ p.answered /\ p.next = account[c].next
        /\ p.authenticated = account[c].authenticated
        /\ p.uuid = "user" /\ p.loaded /\ p.data = load[c]
    BY <1>1, <1>4, <2>1, <2>2 DEF Accounts
  <2>4. PICK r \in Accounts : r = Documents!TransitState(p)
    BY <2>3, AccountFacts
  <2>5. /\ r.answered /\ r.cur = account[c].next /\ r.next = account[c].next
        /\ r.authenticated = account[c].authenticated
        /\ r.uuid = "user" /\ r.loaded /\ r.data = load[c]
    BY <2>3, <2>4, AccountFacts
  <2>6. /\ account' = [account EXCEPT ![c] = r]
        /\ UNCHANGED <<online, slips>>
    BY <1>7, <2>1, <2>2, <2>4 DEF Documents!Loaded
  <2>7. account'[c] = r /\ online'[c] = online[c]
    BY <1>1, <2>6 DEF DocShape
  <2>8. Course(c)'
    BY <1>1, <1>2, <1>3, <1>4, <2>5, <2>7, StateNumbers DEF Course
  <2>9. HasData(c) /\ Newest(c)' = Newest(c)
    BY <1>4, <1>7, <2>1, <2>5, <2>7 DEF HasData, Newest, Documents!IsUser
  <2>10. ~InHand(c)
    BY <1>4 DEF InHand
  <2>11. account[c].cur = Documents!disconnected => r.cur = Documents!disconnected
    BY <1>1, <2>5, StateNumbers DEF Course
  <2> QED
    BY <1>2, <1>3, <2>5, <2>6, <2>8, <2>9, <2>10, <2>11, OneAccount
<1> QED
  BY <1>5, <1>6, <1>7

(* The previous connection of the user is kicked.                          *)
LEMMA AnswerSuccessKeeps ==
  ASSUME DocKept, NEW c \in Players, Documents!AnswerSuccess(c)
  PROVE  DocKept'
<1>1. DocShape /\ Course(c) /\ account[c] \in Accounts /\ load[c] \in Int
  BY ConnectionFacts
<1>2. /\ online[c] /\ ~account[c].answered /\ account[c].cur # Documents!invaild
      /\ load' = [load EXCEPT ![c] = Documents!Asked] /\ session' = c
      /\ UNCHANGED <<queued, doc, saves, moves, earned>>
  BY DEF Documents!AnswerSuccess, Documents!Unanswered
<1>3. account[c].uuid # "user" /\ load[c] = Documents!NoLoad
  BY <1>1, <1>2 DEF Course
<1>4. PICK p : p = [Documents!Answered(c) EXCEPT !.authenticated = TRUE, !.uuid = "user"]
  OBVIOUS
<1>5. "user" \in Documents!Uuids
  BY Zenon DEF Documents!Uuids
<1>6. /\ p \in Accounts /\ p.answered /\ p.authenticated /\ p.uuid = "user"
      /\ p.cur = account[c].cur /\ p.next = account[c].next /\ p.loaded = account[c].loaded
  BY <1>1, <1>4, <1>5 DEF Documents!Answered, Accounts
<1>7. ~account[c].loaded /\ account[c].cur # Documents!handshaked
  BY <1>1, <1>2 DEF Course
<1>8. /\ load' \in [Players -> Int] /\ load'[c] = Documents!Asked
      /\ \A d \in Players : d # c => load'[d] = load[d]
  BY <1>1, <1>2, StateNumbers DEF DocShape
(* What becomes of the new connection is the same in both cases. *)
<1>9. ASSUME account'[c] = p
      PROVE  /\ Course(c)' /\ ~HasData(c)' /\ ~InHand(c)
             /\ account[c].cur = Documents!disconnected
                  => account'[c].cur = Documents!disconnected
  <2>1. Course(c)'
    BY <1>1, <1>2, <1>6, <1>7, <1>8, <1>9, StateNumbers DEF Course
  <2>2. ~HasData(c)' /\ ~InHand(c)
    BY <1>3, <1>6, <1>7, <1>8, <1>9, StateNumbers DEF HasData, InHand, Documents!IsUser
  <2> QED
    BY <1>6, <1>9, <2>1, <2>2
<1>10. CASE session # Documents!NoConn /\ online[session]
  <2>1. PICK old \in Players : old = session /\ account[old].uuid = "user" /\ old # c
    BY <1>1, <1>3, <1>10 DEF DocShape, Documents!IsUser
  <2>2. Course(old) /\ account[old] \in Accounts /\ account[old].cur # Documents!invaild
    BY <2>1, ConnectionFacts DEF Course
  <2>3. PICK q \in Accounts :
          q = IF Documents!Delegates(account[old])
              THEN Documents!PrepareStateTransition(account[old], Documents!disconnecting,
                                                    Documents!disconnected)
              ELSE account[old]
    BY <2>2, AccountFacts
  <2>4. /\ q.uuid = "user" /\ q.authenticated = account[old].authenticated
        /\ q.answered = account[old].answered
        /\ q.loaded = account[old].loaded /\ q.data = account[old].data
    BY <2>1, <2>2, <2>3, AccountFacts
  <2>5. /\ Documents!Delegates(account[old])
             => q.cur = Documents!disconnecting /\ q.next = Documents!disconnected
        /\ ~Documents!Delegates(account[old])
             => q.cur = account[old].cur /\ q.next = account[old].next
    BY <2>2, <2>3, AccountFacts
  <2>6. /\ Documents!Delegates(account[old])
             => account[old].cur \in {Documents!handshaking, Documents!handshaked}
        /\ ~Documents!Delegates(account[old])
             => account[old].cur \in {Documents!disconnecting, Documents!disconnected}
    BY <2>2, StateNumbers DEF Course, Documents!Delegates
  <2>7. account' = [[account EXCEPT ![c] = p] EXCEPT ![old] =
                      IF Documents!Delegates(@)
                      THEN Documents!PrepareStateTransition(@, Documents!disconnecting,
                                                            Documents!disconnected)
                      ELSE @]
    BY <1>4, <1>10, <2>1 DEF Documents!AnswerSuccess
  <2>8. account' = [[account EXCEPT ![c] = p] EXCEPT ![old] = q]
    BY <1>1, <2>1, <2>3, <2>7 DEF DocShape
  <2>9. /\ account' \in [Players -> Accounts] /\ account'[c] = p /\ account'[old] = q
        /\ \A d \in Players : d # c /\ d # old => account'[d] = account[d]
    BY <1>1, <1>6, <2>1, <2>8 DEF DocShape
  <2>10. /\ online' = [online EXCEPT ![old] = Documents!Delegates(account[old])]
         /\ slips' = slips \cup
              (IF account[old].cur = Documents!disconnecting THEN {"early"} ELSE {})
    BY <1>10, <2>1 DEF Documents!AnswerSuccess
  <2>11. /\ online' \in [Players -> BOOLEAN]
         /\ online'[old] <=> Documents!Delegates(account[old])
         /\ \A d \in Players : d # old => online'[d] = online[d]
    <3>1. PICK a \in Accounts : a = account[old] /\ a.cur \in Int
      BY <2>2, StateNumbers DEF Accounts
    <3>2. online' = [online EXCEPT ![old] = Documents!Delegates(a)]
      BY <2>10, <3>1
    <3>3. online \in [Players -> BOOLEAN]
      BY <1>1 DEF DocShape
    <3>4. /\ online'[old] <=> Documents!Delegates(a)
          /\ \A d \in Players : d # old => online'[d] = online[d]
      BY <3>2, <3>3 DEF Documents!Delegates
    <3>5. online' \in [Players -> BOOLEAN]
      BY <3>2, <3>3 DEF Documents!Delegates
    <3> QED
      BY <3>1, <3>4, <3>5
  <2>12. DocShape'
    <3>1. session' \in Players /\ account'[session'].uuid = "user"
      BY <1>2, <1>6, <2>9
    <3> QED
      BY <1>1, <1>2, <1>8, <2>9, <2>11, <3>1 DEF DocShape, Documents!IsUser
  <2>13. \A d \in Players : Course(d)'
    <3>1. Course(old)'
      BY <1>2, <1>8, <2>1, <2>2, <2>4, <2>5, <2>6, <2>9, StateNumbers DEF Course
    <3>2. ASSUME NEW d \in Players, d # c, d # old PROVE Course(d)'
      BY <1>2, <1>8, <2>9, <3>2, CourseStays DEF DocKept
    <3> QED
      BY <1>9, <2>9, <3>1, <3>2
  <2>14. ASSUME slips' = {}, NEW d \in Players
         PROVE  /\ HasData(d)' => HasData(d) /\ Newest(d)' = Newest(d)
                /\ InHand(d) => InHand(d)'
                /\ account[d].cur = Documents!disconnected /\ d \notin queued
                     => account'[d].cur = Documents!disconnected /\ d \notin queued'
    <3>1. CASE d # c /\ d # old
      BY <1>2, <1>8, <2>9, <2>11, <3>1 DEF HasData, InHand, Newest, Documents!IsUser
    <3>2. CASE d = c
      BY <1>2, <1>9, <2>9, <3>2
    <3>3. CASE d = old
      <4>1. online[old] /\ account[old].uuid = "user"
        BY <1>10, <2>1
      <4>2. HasData(old)' => HasData(old) /\ Newest(old)' = Newest(old)
        BY <1>8, <2>1, <2>4, <2>9, <4>1 DEF HasData, Newest, Documents!IsUser
      <4>3. InHand(old) => InHand(old)'
        <5> SUFFICES ASSUME InHand(old) PROVE InHand(old)'
          OBVIOUS
        <5>1. account[old].cur # Documents!disconnected /\ account[old].loaded
          BY DEF InHand
        <5>2. Documents!Delegates(account[old])
          BY <2>6, <2>10, <2>14, <5>1
        <5>3. online'[old] /\ account'[old] = q
          BY <2>9, <2>11, <5>2
        <5>4. q.uuid = "user" /\ q.loaded /\ q.cur # Documents!disconnected
          BY <2>4, <2>5, <5>1, <5>2, StateNumbers
        <5> QED
          BY <5>3, <5>4 DEF InHand, HasData, Documents!IsUser
      <4>4. account[old].cur = Documents!disconnected
              => account'[old].cur = Documents!disconnected
        BY <2>5, <2>6, <2>9, StateNumbers
      <4> QED
        BY <1>2, <3>3, <4>2, <4>3, <4>4
    <3> QED
      BY <3>1, <3>2, <3>3
  <2> QED
    BY <1>2, <2>10, <2>12, <2>13, <2>14, DataStay
<1>11. CASE ~(session # Documents!NoConn /\ online[session])
  <2>1. account' = [account EXCEPT ![c] = p] /\ UNCHANGED <<online, slips>>
    BY <1>4, <1>11 DEF Documents!AnswerSuccess
  <2>2. /\ account' \in [Players -> Accounts] /\ account'[c] = p
        /\ \A d \in Players : d # c => account'[d] = account[d]
    BY <1>1, <1>6, <2>1 DEF DocShape
  <2>3. DocShape'
    <3>1. session' \in Players /\ account'[session'].uuid = "user"
      BY <1>2, <1>6, <2>2
    <3> QED
      BY <1>1, <1>2, <1>8, <2>1, <2>2, <3>1 DEF DocShape, Documents!IsUser
  <2>4. \A d \in Players : Course(d)'
    <3>1. ASSUME NEW d \in Players, d # c PROVE Course(d)'
      BY <1>2, <1>8, <2>2, <3>1, CourseStays DEF DocKept
    <3> QED
      BY <1>9, <2>2, <3>1
  <2>5. ASSUME NEW d \in Players
        PROVE  /\ HasData(d)' => HasData(d) /\ Newest(d)' = Newest(d)
               /\ InHand(d) => InHand(d)'
               /\ account[d].cur = Documents!disconnected /\ d \notin queued
                    => account'[d].cur = Documents!disconnected /\ d \notin queued'
    <3>1. CASE d # c
      BY <1>2, <1>8, <2>1, <2>2, <3>1 DEF HasData, InHand, Newest, Documents!IsUser
    <3>2. CASE d = c
      BY <1>2, <1>9, <2>2, <3>2
    <3> QED
      BY <3>1, <3>2
  <2> QED
    BY <1>2, <2>1, <2>3, <2>4, <2>5, DataStay
<1> QED
  BY <1>10, <1>11

(* A player that is queued for the disconnect task keeps its data.         *)
LEMMA TickLeaveKeeps ==
  ASSUME DocKept, NEW c \in Players, Documents!TickLeave(c)
  PROVE  DocKept'
<1>1. /\ account[c].cur = Documents!disconnecting /\ queued' = queued \cup {c}
      /\ UNCHANGED <<online, account, session, load, doc, saves, moves, earned, slips>>
  BY DEF Documents!TickLeave
<1>2. DocShape'
  BY <1>1 DEF DocKept, DocShape, Documents!IsUser
<1>3. \A d \in Players : Course(d)'
  <2>1. ASSUME NEW d \in Players, d # c PROVE Course(d)'
    BY <1>1, <2>1, CourseStays DEF DocKept
  <2>2. Course(c)'
    BY <1>1 DEF DocKept, Course
  <2> QED
    BY <2>1, <2>2
<1>4. ASSUME NEW d \in Players
      PROVE  /\ HasData(d)' => HasData(d) /\ Newest(d)' = Newest(d)
             /\ InHand(d) => InHand(d)'
             /\ account[d].cur = Documents!disconnected /\ d \notin queued
                  => account'[d].cur = Documents!disconnected /\ d \notin queued'
  BY <1>1, StateNumbers DEF HasData, InHand, Newest, Documents!IsUser
<1> QED
  BY <1>1, <1>2, <1>3, <1>4, DataStay

(* The document is read: without a slip nobody else has newer data.        *)
LEMMA ReadKeeps ==
  ASSUME DocKept, NEW c \in Players, Documents!Read(c)
  PROVE  DocKept'
<1>1. DocShape /\ Course(c) /\ account[c] \in Accounts /\ load[c] \in Int
  BY ConnectionFacts
<1>2. /\ load[c] = Documents!Asked /\ load' = [load EXCEPT ![c] = doc["user"]]
      /\ slips' = slips \cup
           (IF \/ \E s \in saves : s.uuid = "user"
               \/ \E d \in Players \ {c} : online[d] /\ Documents!IsUser(d)
            THEN {"overlap"} ELSE {})
      /\ UNCHANGED <<online, account, session, queued, doc, saves, moves, earned>>
  BY DEF Documents!Read
<1>3. PICK n \in Nat : n = doc["user"]
  BY <1>1 DEF DocShape
<1>4. /\ load' \in [Players -> Int] /\ load'[c] = n
      /\ \A d \in Players : d # c => load'[d] = load[d]
  BY <1>1, <1>2, <1>3 DEF DocShape
<1>5. account[c].uuid = "user" /\ ~account[c].loaded
  BY <1>1, <1>2, StateNumbers DEF Course
<1>6. DocShape'
  BY <1>1, <1>2, <1>4 DEF DocShape, Documents!IsUser
<1>7. \A d \in Players : Course(d)'
  <2>1. ASSUME NEW d \in Players, d # c PROVE Course(d)'
    BY <1>2, <1>4, <2>1, CourseStays DEF DocKept
  <2>2. Course(c)'
    BY <1>1, <1>2, <1>4, StateNumbers DEF Course
  <2> QED
    BY <2>1, <2>2
<1>8. ASSUME slips' = {} PROVE Holding' /\ Saving'
  <2>1. Holding /\ Saving
    BY <1>2, <1>8 DEF DocKept
  <2>2. ~\E s \in saves : s.uuid = "user"
    BY <1>2, <1>8
  <2>3. \A d \in Players : online[d] /\ Documents!IsUser(d) => d = c
    BY <1>2, <1>8
  <2>4. \A d \in Players : ~InHand(d)
    BY <1>5, <2>3 DEF InHand, HasData
  <2>5. n >= earned
    BY <1>3, <2>1, <2>2, <2>4 DEF Saving
  <2>6. \A d \in Players : HasData(d)' => d = c
    BY <1>2, <2>3 DEF HasData, Documents!IsUser
  <2>7. Newest(c)' = n
    BY <1>2, <1>4, <1>5 DEF Newest
  <2>8. Holding'
    BY <1>2, <2>5, <2>6, <2>7 DEF Holding
  <2>9. Saving'
    BY <1>2, <1>3, <2>2, <2>5 DEF Saving
  <2> QED
    BY <2>8, <2>9
<1> QED
  BY <1>6, <1>7, <1>8 DEF DocKept

(* A move of an admitted user is of the connection that has the data.      *)
LEMMA MoveKeeps ==
  ASSUME DocKept, NEW c \in Players, Documents!Move(c)
  PROVE  DocKept'
<1>1. DocShape /\ Course(c) /\ account[c] \in Accounts /\ load[c] \in Int
  BY ConnectionFacts
<1>2. PICK n \in Nat : n = moves + 1
  BY <1>1 DEF DocShape
<1>3. PICK e \in Nat : e = earned
  BY <1>1 DEF DocShape
<1>4. /\ online[c] /\ moves' = n /\ account[c].cur # Documents!invaild
      /\ account' = [account EXCEPT ![c] = [@ EXCEPT !.data = n]]
      /\ earned' = IF Documents!IsUser(c) /\ account[c].cur >= Documents!handshaked
                   THEN n ELSE earned
      /\ UNCHANGED <<online, session, load, queued, doc, saves, slips>>
  BY <1>2 DEF Documents!Move
<1>5. e < n
  BY <1>1, <1>2, <1>3 DEF DocShape
<1>6. PICK r : r = [account[c] EXCEPT !.data = n]
  OBVIOUS
<1>7. /\ r \in Accounts /\ r.data = n /\ r.cur = account[c].cur /\ r.next = account[c].next
      /\ r.answered = account[c].answered /\ r.authenticated = account[c].authenticated
      /\ r.loaded = account[c].loaded /\ r.uuid = account[c].uuid
  BY <1>1, <1>6 DEF Accounts
<1>8. account' = [account EXCEPT ![c] = r]
  BY <1>4, <1>6
<1>9. /\ account' \in [Players -> Accounts] /\ account'[c] = r
      /\ \A d \in Players : d # c => account'[d] = account[d]
  BY <1>1, <1>7, <1>8 DEF DocShape
<1>10. earned' \in {n, e}
  BY <1>3, <1>4
<1>11. DocShape'
  <2>1. earned' \in Nat /\ earned' <= moves'
    BY <1>4, <1>5, <1>10
  <2>2. session # Documents!NoConn => session \in Players /\ account'[session].uuid = "user"
    BY <1>1, <1>7, <1>9 DEF DocShape, Documents!IsUser
  <2> QED
    BY <1>1, <1>4, <1>9, <2>1, <2>2 DEF DocShape, Documents!IsUser
<1>12. \A d \in Players : Course(d)'
  <2>1. ASSUME NEW d \in Players, d # c PROVE Course(d)'
    BY <1>4, <1>9, <2>1, CourseStays DEF DocKept
  <2>2. Course(c)'
    BY <1>1, <1>4, <1>7, <1>9 DEF Course
  <2> QED
    BY <2>1, <2>2
<1>13. \A d \in Players : (HasData(d)' <=> HasData(d)) /\ (InHand(d)' <=> InHand(d))
  <2>1. ASSUME NEW d \in Players, d # c
        PROVE  (HasData(d)' <=> HasData(d)) /\ (InHand(d)' <=> InHand(d))
    BY <1>4, <1>9, <2>1 DEF HasData, InHand, Documents!IsUser
  <2>2. (HasData(c)' <=> HasData(c)) /\ (InHand(c)' <=> InHand(c))
    BY <1>4, <1>7, <1>9 DEF HasData, InHand, Documents!IsUser
  <2> QED
    BY <2>1, <2>2
<1>14. ASSUME slips' = {} PROVE Holding' /\ Saving'
  <2>1. Holding /\ Saving
    BY <1>4, <1>14 DEF DocKept
  <2>2. \A d \in Players : d # c => Newest(d)' = Newest(d)
    BY <1>4, <1>9 DEF Newest
  <2>3. Newest(c)' = n \/ Newest(c)' = Newest(c)
    BY <1>4, <1>7, <1>9 DEF Newest
  <2>4. CASE Documents!IsUser(c) /\ account[c].cur >= Documents!handshaked
    <3>1. earned' = n
      BY <1>4, <2>4
    <3>2. account[c].cur = Documents!handshaked
      BY <1>1, <2>4, StateNumbers DEF Course
    <3>3. HasData(c) /\ InHand(c) /\ account[c].loaded
      BY <1>1, <1>4, <2>4, <3>2, StateNumbers DEF Course, HasData, InHand, Documents!IsUser
    <3>4. Newest(c)' = n
      BY <1>7, <1>9, <3>3 DEF Newest
    <3>5. Holding'
      BY <1>13, <2>1, <3>1, <3>3, <3>4 DEF Holding
    <3>6. ~\E s \in saves : s.uuid = "user"
      BY <2>1, <3>2, <3>3, StateNumbers DEF Saving
    <3>7. Saving'
      BY <1>4, <1>13, <3>3, <3>6 DEF Saving
    <3> QED
      BY <3>5, <3>7
  <2>5. CASE ~(Documents!IsUser(c) /\ account[c].cur >= Documents!handshaked)
    <3>1. earned' = e
      BY <1>3, <1>4, <2>5
    <3>2. \A d \in Players : HasData(d) => Newest(d) >= e
      BY <1>3, <2>1 DEF Holding
    <3>3. \A d \in Players : HasData(d) => Newest(d)' >= e
      BY <1>5, <2>2, <2>3, <3>2
    <3>4. Holding'
      BY <1>13, <2>1, <3>1, <3>3 DEF Holding
    <3>5. \A d \in Players : account'[d].cur = account[d].cur
      BY <1>7, <1>9
    <3>6. Saving'
      <4>1. ASSUME NEW s \in saves', s.uuid = "user"
            PROVE  /\ s.data >= earned'
                   /\ account'[s.conn].cur = Documents!disconnected /\ s.conn \notin queued'
                   /\ \A d \in Players : HasData(d)' => s.conn = d
        <5>1. s.conn \in Players /\ s \in saves
          BY <1>1, <1>4 DEF DocShape, Upserts
        <5> QED
          BY <1>3, <1>4, <1>13, <2>1, <3>1, <3>5, <4>1, <5>1 DEF Saving
      <4>2. \A s, t \in saves' : s.uuid = "user" /\ t.uuid = "user" => s = t
        BY <1>4, <2>1 DEF Saving
      <4>3. \/ \E s \in saves' : s.uuid = "user"
            \/ \E d \in Players : InHand(d)'
            \/ doc'["user"] >= earned'
        BY <1>3, <1>4, <1>13, <2>1, <3>1 DEF Saving
      <4> QED
        BY <4>1, <4>2, <4>3 DEF Saving
    <3> QED
      BY <3>4, <3>6
  <2> QED
    BY <2>4, <2>5
<1> QED
  BY <1>11, <1>12, <1>14 DEF DocKept

(* The disconnect task: the save of the user's data is the only one, and   *)
(* takes them out of the connection's hands.                               *)
LEMMA TeardownKeeps ==
  ASSUME DocKept, NEW c \in Players, Documents!Teardown(c)
  PROVE  DocKept'
<1>1. DocShape /\ Course(c) /\ account[c] \in Accounts /\ load[c] \in Int
  BY ConnectionFacts
<1>2. /\ c \in queued /\ queued' = queued \ {c}
      /\ UNCHANGED <<online, session, load, doc, moves, earned>>
  BY DEF Documents!Teardown
<1>3. account[c].next = Documents!disconnected /\ account[c].cur # Documents!handshaked
  BY <1>1, <1>2, StateNumbers DEF Course
<1>4. CASE ~online[c]
  <2>1. UNCHANGED <<account, saves, slips>>
    BY <1>4 DEF Documents!Teardown
  <2>2. DocShape'
    BY <1>1, <1>2, <2>1 DEF DocShape, Documents!IsUser
  <2>3. \A d \in Players : Course(d)'
    BY <1>2, <2>1, CourseStays DEF DocKept
  <2>4. ASSUME NEW d \in Players
        PROVE  /\ HasData(d)' => HasData(d) /\ Newest(d)' = Newest(d)
               /\ InHand(d) => InHand(d)'
               /\ account[d].cur = Documents!disconnected /\ d \notin queued
                    => account'[d].cur = Documents!disconnected /\ d \notin queued'
    BY <1>2, <2>1 DEF HasData, InHand, Newest, Documents!IsUser
  <2> QED
    BY <1>2, <2>1, <2>2, <2>3, <2>4, DataStay
<1>5. CASE online[c]
  <2>1. PICK r \in Accounts : r = Documents!TransitState(account[c])
    BY <1>1, AccountFacts
  <2>2. /\ r.cur = Documents!disconnected /\ r.next = Documents!disconnected
        /\ r.answered = account[c].answered /\ r.authenticated = account[c].authenticated
        /\ r.uuid = account[c].uuid /\ r.loaded = account[c].loaded
        /\ r.data = account[c].data
    BY <1>1, <1>3, <2>1, AccountFacts
  <2>3. account' = [account EXCEPT ![c] = r]
    BY <1>1, <1>5, <2>1 DEF Documents!Teardown, DocShape
  <2>4. /\ account' \in [Players -> Accounts] /\ account'[c] = r
        /\ \A d \in Players : d # c => account'[d] = account[d]
    BY <1>1, <2>3 DEF DocShape
  <2>5. PICK u : u = [conn |-> c, uuid |-> account[c].uuid, data |-> account[c].data]
    OBVIOUS
  <2>6. u \in Upserts /\ u.conn = c /\ u.uuid = account[c].uuid /\ u.data = account[c].data
    BY <1>1, <2>5 DEF Upserts, Accounts
  <2>7. /\ saves' = IF Documents!IsSupportGamedataSaving(account[c]) THEN saves \cup {u}
                    ELSE saves
        /\ slips' = IF Documents!IsSupportGamedataSaving(account[c])
                       /\ Documents!IsUser(c) /\ ~account[c].loaded
                    THEN slips \cup {"blank"} ELSE slips
    BY <1>5, <2>5 DEF Documents!Teardown
  <2>8. saves' \subseteq Upserts
    BY <1>1, <2>6, <2>7 DEF DocShape
  <2>9. DocShape'
    <3>1. session # Documents!NoConn => session \in Players /\ account'[session].uuid = "user"
      BY <1>1, <2>2, <2>4 DEF DocShape, Documents!IsUser
    <3> QED
      BY <1>1, <1>2, <2>4, <2>8, <3>1 DEF DocShape, Documents!IsUser
  <2>10. \A d \in Players : Course(d)'
    <3>1. ASSUME NEW d \in Players, d # c PROVE Course(d)'
      BY <1>2, <2>4, <3>1, CourseStays DEF DocKept
    <3>2. Course(c)'
      BY <1>1, <1>2, <2>2, <2>4, StateNumbers DEF Course
    <3> QED
      BY <3>1, <3>2
  <2>11. ASSUME NEW d \in Players
         PROVE  /\ HasData(d)' <=> HasData(d)
                /\ Newest(d)' = Newest(d)
                /\ d # c => (InHand(d)' <=> InHand(d))
    <3>1. CASE d # c
      BY <1>2, <2>4, <3>1 DEF HasData, InHand, Newest, Documents!IsUser
    <3>2. CASE d = c
      BY <1>2, <2>2, <2>4, <3>2 DEF HasData, Newest, Documents!IsUser
    <3> QED
      BY <3>1, <3>2
  <2>12. ASSUME slips' = {} PROVE Holding' /\ Saving'
    <3>1. Holding /\ Saving
      BY <2>7, <2>12 DEF DocKept
    <3>2. Holding'
      BY <1>2, <2>11, <3>1 DEF Holding
    <3>3. CASE Documents!IsUser(c)
      <4>1. Documents!IsSupportGamedataSaving(account[c])
        BY <1>1, <3>3 DEF Course, Documents!IsUser, Documents!IsSupportGamedataSaving
      <4>2. account[c].loaded /\ saves' = saves \cup {u}
        BY <2>7, <2>12, <3>3, <4>1
      <4>3. HasData(c) /\ Newest(c) = account[c].data
        BY <1>5, <3>3, <4>2 DEF HasData, Newest
      <4>4. u.data >= earned
        BY <2>6, <3>1, <4>3 DEF Holding
      <4>5. ~\E s \in saves : s.uuid = "user"
        BY <1>2, <3>1, <4>3 DEF Saving
      <4>6. \A s \in saves' : s.uuid = "user" => s = u
        BY <4>2, <4>5
      <4>7. u \in saves' /\ u.uuid = "user"
        BY <2>6, <3>3, <4>2 DEF Documents!IsUser
      <4>8. \A d \in Players : HasData(d)' => d = c
        BY <2>11, <3>1, <4>3 DEF Holding
      <4>9. account'[c].cur = Documents!disconnected /\ c \notin queued'
        BY <1>2, <2>2, <2>4
      <4> QED
        BY <1>2, <2>6, <3>2, <4>4, <4>6, <4>7, <4>8, <4>9 DEF Saving
    <3>4. CASE ~Documents!IsUser(c)
      <4>1. u.uuid # "user" /\ ~InHand(c)
        BY <2>6, <3>4 DEF InHand, HasData, Documents!IsUser
      <4>2. \A s : s.uuid = "user" => (s \in saves' <=> s \in saves)
        BY <2>7, <4>1
      <4>3. ASSUME NEW s \in saves', s.uuid = "user"
            PROVE  /\ s.data >= earned'
                   /\ account'[s.conn].cur = Documents!disconnected /\ s.conn \notin queued'
                   /\ \A d \in Players : HasData(d)' => s.conn = d
        <5>1. s \in saves
          BY <4>2, <4>3
        <5>2. s.conn \in Players /\ s.conn # c
          BY <1>1, <1>2, <3>1, <4>3, <5>1 DEF DocShape, Upserts, Saving
        <5>3. account'[s.conn] = account[s.conn]
          BY <2>4, <5>2
        <5> QED
          BY <1>2, <2>11, <3>1, <4>3, <5>1, <5>3 DEF Saving
      <4>4. \A s, t \in saves' : s.uuid = "user" /\ t.uuid = "user" => s = t
        BY <3>1, <4>2 DEF Saving
      <4>5. \/ \E s \in saves' : s.uuid = "user"
            \/ \E d \in Players : InHand(d)'
            \/ doc'["user"] >= earned'
        BY <1>2, <2>11, <3>1, <4>1, <4>2 DEF Saving
      <4> QED
        BY <3>2, <4>3, <4>4, <4>5 DEF Saving
    <3> QED
      BY <3>3, <3>4
  <2> QED
    BY <2>9, <2>10, <2>12 DEF DocKept
<1> QED
  BY <1>4, <1>5

(* The user's save brings the newest data, another one writes elsewhere.   *)
LEMMA SaveArrivesKeeps ==
  ASSUME DocKept, NEW s \in saves, Documents!SaveArrives(s)
  PROVE  DocKept'
<1>1. DocShape /\ s \in Upserts
  BY DEF DocKept, DocShape
<1>2. /\ doc' = [doc EXCEPT ![s.uuid] = s.data] /\ saves' = saves \ {s}
      /\ UNCHANGED <<online, account, session, load, queued, moves, earned, slips>>
  BY DEF Documents!SaveArrives
<1>3. s.uuid \in Documents!Uuids /\ s.data \in Nat
  BY <1>1 DEF Upserts
<1>4. "user" \in Documents!Uuids
  BY Zenon DEF Documents!Uuids
<1>5. /\ doc' \in [Documents!Uuids -> Int]
      /\ doc'["user"] = IF s.uuid = "user" THEN s.data ELSE doc["user"]
  BY <1>1, <1>2, <1>3, <1>4 DEF DocShape
<1>6. DocShape'
  BY <1>1, <1>2, <1>3, <1>5 DEF DocShape, Documents!IsUser
<1>7. \A c \in Players : Course(c)'
  BY <1>2, CourseStays DEF DocKept
<1>8. \A c \in Players : /\ HasData(c)' <=> HasData(c)
                         /\ Newest(c)' = Newest(c)
                         /\ InHand(c)' <=> InHand(c)
  BY <1>2 DEF HasData, InHand, Newest, Documents!IsUser
<1>9. ASSUME slips' = {} PROVE Holding' /\ Saving'
  <2>1. Holding /\ Saving
    BY <1>2, <1>9 DEF DocKept
  <2>2. Holding'
    BY <1>2, <1>8, <2>1 DEF Holding
  <2>3. ASSUME NEW t \in saves', t.uuid = "user"
        PROVE  /\ t.data >= earned'
               /\ account'[t.conn].cur = Documents!disconnected /\ t.conn \notin queued'
               /\ \A d \in Players : HasData(d)' => t.conn = d
    BY <1>2, <1>8, <2>1, <2>3 DEF Saving
  <2>4. \A t, v \in saves' : t.uuid = "user" /\ v.uuid = "user" => t = v
    BY <1>2, <2>1 DEF Saving
  <2>5. \/ \E t \in saves' : t.uuid = "user"
        \/ \E c \in Players : InHand(c)'
        \/ doc'["user"] >= earned'
    BY <1>2, <1>5, <1>8, <2>1 DEF Saving
  <2> QED
    BY <2>2, <2>3, <2>4, <2>5 DEF Saving
<1> QED
  BY <1>6, <1>7, <1>9 DEF DocKept

(* A save that fails is a slip.                                            *)
LEMMA SaveFailsKeeps ==
  ASSUME DocKept, NEW s \in saves, Documents!SaveFails(s)
  PROVE  DocKept'
<1>1. /\ slips' = slips \cup {"failed"} /\ saves' = saves \ {s}
      /\ UNCHANGED <<online, account, session, load, queued, doc, moves, earned>>
  BY DEF Documents!SaveFails
<1>2. DocShape'
  BY <1>1 DEF DocKept, DocShape, Documents!IsUser
<1>3. \A c \in Players : Course(c)'
  BY <1>1, CourseStays DEF DocKept
<1> QED
  BY <1>1, <1>2, <1>3 DEF DocKept

(* The steps of the other parts of MCWorld.                                *)
LEMMA StutterDocuments == DocKept /\ UNCHANGED documentVars => DocKept'
<1> SUFFICES ASSUME DocKept, UNCHANGED documentVars PROVE DocKept'
  OBVIOUS
<1>1. DocShape'
  BY DEF DocKept, DocShape, documentVars, Documents!IsUser
<1>2. \A c \in Players : Course(c)'
  BY CourseStays DEF DocKept, documentVars
<1>3. \A c \in Players : /\ HasData(c)' => HasData(c) /\ Newest(c)' = Newest(c)
                         /\ InHand(c) => InHand(c)'
  BY DEF HasData, InHand, Newest, Documents!IsUser, documentVars
<1> QED
  BY <1>1, <1>2, <1>3, DataStay DEF documentVars

(* Every step keeps what is known of the documents.                        *)
LEMMA NextDocuments == DocKept /\ Documents!Next => DocKept'
BY DisconnectKeeps, HandshakeKeeps, AnswerGuestKeeps, AnswerRefusedKeeps, AnswerSuccessKeeps,
   ReadKeeps, ReadFailsKeeps, LoadedKeeps, MoveKeeps, TickLeaveKeeps, TeardownKeeps,
   SaveArrivesKeeps, SaveFailsKeeps
DEF Documents!Next

(* The document of the user's first login.                                 *)
LEMMA InitDocuments == Documents!Init => DocKept
<1> SUFFICES ASSUME Documents!Init PROVE DocKept
  OBVIOUS
<1>1. "" \in Documents!Uuids /\ "" # "user"
  BY Zenon DEF Documents!Uuids
<1>2. PICK blank \in Documents!Uuids :
        /\ blank # "user"
        /\ Documents!NoPlayer =
             [cur |-> Documents!invaild, prev |-> Documents!invaild,
              next |-> Documents!invaild, answered |-> FALSE, authenticated |-> FALSE,
              uuid |-> blank, data |-> 0, loaded |-> FALSE]
  BY <1>1, Zenon DEF Documents!NoPlayer
<1>3. PICK r : r = Documents!NoPlayer
  OBVIOUS
<1>4. /\ r \in Accounts /\ r.uuid # "user" /\ ~r.answered /\ ~r.loaded
      /\ r.cur = Documents!invaild
  BY <1>2, <1>3, StateNumbers DEF Accounts
<1>5. "user" \in Documents!Uuids
  BY Zenon DEF Documents!Uuids
<1>6. /\ online = [c \in Players |-> TRUE] /\ account = [c \in Players |-> r]
      /\ session = Documents!NoConn /\ load = [c \in Players |-> Documents!NoLoad]
      /\ queued = {} /\ saves = {} /\ moves = 1 /\ earned = 1
      /\ doc = [u \in Documents!Uuids |-> IF u = "user" THEN 1 ELSE Documents!NoDocument]
  BY <1>3 DEF Documents!Init
<1>7. DocShape
  BY <1>4, <1>5, <1>6, StateNumbers DEF DocShape
<1>8. \A c \in Players : Course(c)
  BY <1>4, <1>6, StateNumbers DEF Course
<1>9. \A c \in Players : ~HasData(c)
  BY <1>4, <1>6 DEF HasData, Documents!IsUser
<1>10. Holding
  BY <1>9 DEF Holding
<1>11. Saving
  BY <1>5, <1>6 DEF Saving
<1> QED
  BY <1>7, <1>8, <1>10, <1>11 DEF DocKept

(* ... in MCWorld.                                                         *)
LEMMA WorldDocuments ==
  /\ WorldInit => (part = "documents" => DocKept)
  /\ (part = "documents" => DocKept) /\ [WorldNext]_allVars
        => (part = "documents" => DocKept)'
<1>1. WorldInit => (part = "documents" => DocKept)
  BY InitDocuments DEF WorldInit
<1>2. ASSUME part = "documents" => DocKept, [WorldNext]_allVars, part' = "documents"
      PROVE  DocKept'
  <2>1. part = "documents" /\ DocKept
    BY <1>2 DEF WorldNext, allVars
  <2>2. Documents!Next \/ UNCHANGED documentVars
    BY <1>2, <2>1 DEF WorldNext, TaskNext, allVars
  <2> QED
    BY <2>1, <2>2, NextDocuments, StutterDocuments
<1> QED
  BY <1>1, <1>2

(* A user whose connections are gone finds the latest move that he made as *)
(* an admitted player in the document, through any number of logins, kicks *)
(* and disconnects, loads and saves in any order, unless one of the four   *)
(* named slips happened.                                                   *)
THEOREM MovesStayKept == WorldSpec => []MovesAreKept
<1>1. (part = "documents" => DocKept) => MovesAreKept
  <2> SUFFICES ASSUME DocKept, slips = {},
                      \A c \in Players : Documents!IsUser(c) => ~online[c],
                      \A s \in saves : s.uuid # "user"
               PROVE  doc["user"] >= earned
    BY DEF MovesAreKept, Documents!MovesAreKept
  <2> QED
    BY DEF DocKept, Saving, InHand, HasData
<1> QED
  BY <1>1, WorldDocuments, PTL DEF WorldSpec
=============================================================================
