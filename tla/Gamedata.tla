------------------------------ MODULE Gamedata ------------------------------
(***************************************************************************)
(* What becomes of a player's game data.  One user logs in on several      *)
(* connections, one after the other or at once: the login server's answer  *)
(* makes the player an authenticated one, a coroutine loads the document   *)
(* of the user, the player moves, and the world's disconnect task saves    *)
(* what the Player object holds then.  Loads and saves are database calls  *)
(* that nobody waits for.                                                  *)
(*                                                                         *)
(* Game data is abstracted to the time of the move it holds; 0 is the      *)
(* zeroed PlayerGamedata of a new Player object.                           *)
(***************************************************************************)
EXTENDS Integers, FiniteSets, PlayerState

CONSTANTS
    Conns,      \* the user's connections
    MaxMoves,   \* bounds: moves of the user, failing database calls
    MaxFaults

GamedataAssumption == IsFiniteSet(Conns) /\ MaxMoves \in Nat /\ MaxFaults \in Nat

VARIABLES
    online,     \* Connection::_is_online
    player,     \* the connection's Player
    session,    \* the connection the login server named last
    load,       \* the coroutine's get_document: NoLoad, Asked or its result
    queued,     \* players in disconnect_player_task
    doc,        \* the documents player_gamedata, by uuid
    saves,      \* upserts on their way
    moves,      \* the time of the latest move
    earned,     \* history: the latest move of an admitted user
    slips,      \* history: what cost the user game data
    faults

vars == <<online, player, session, load, queued, doc, saves, moves, earned, slips, faults>>

Uuids == {"", "user"}   \* a guest's uuid is empty
NoDocument == -1
Failed == -2            \* of a load
Asked == -3
NoLoad == -4
NoConn == "none"

NoPlayer == [cur |-> invaild, prev |-> invaild, next |-> invaild,
             answered |-> FALSE, authenticated |-> FALSE, uuid |-> "", data |-> 0,
             loaded |-> FALSE]

TypeOK ==
    /\ online \in [Conns -> BOOLEAN]
    /\ player \in [Conns -> [cur : States, prev : States, next : States,
                             answered : BOOLEAN, authenticated : BOOLEAN, loaded : BOOLEAN,
                             uuid : Uuids, data : Nat]]
    /\ session \in Conns \cup {NoConn}
    /\ load \in [Conns -> Int]
    /\ queued \in SUBSET Conns
    /\ doc \in [Uuids -> Int]
    /\ saves \in SUBSET [conn : Conns, uuid : Uuids, data : Nat]
    /\ moves \in Nat /\ earned \in Nat /\ faults \in Nat
    /\ slips \in SUBSET {"blank", "early", "overlap", "failed"}

(* The user has played before: a document with move 1 exists.              *)
Init ==
    /\ online = [c \in Conns |-> TRUE]
    /\ player = [c \in Conns |-> NoPlayer]
    /\ session = NoConn
    /\ load = [c \in Conns |-> NoLoad]
    /\ queued = {}
    /\ doc = [u \in Uuids |-> IF u = "user" THEN 1 ELSE NoDocument]
    /\ saves = {}
    /\ moves = 1 /\ earned = 1
    /\ slips = {} /\ faults = 0

----------------------------------------------------------------------------
IsUser(c) == player[c].uuid = "user"

(* Connection::disconnect.  The first call hands the player to the world;  *)
(* another one finds a state below handshaking and goes offline.           *)
Delegates(p) == p.cur >= handshaking

Leaves(c, p) ==
    /\ player' = [player EXCEPT ![c] =
         IF Delegates(p) THEN PrepareStateTransition(p, disconnecting, disconnected) ELSE p]
    /\ online' = [online EXCEPT ![c] = Delegates(p)]
    /\ slips' = slips \cup
         (IF p.cur = disconnecting /\ IsUser(c) THEN {"early"} ELSE {})

Disconnect(c) ==
    /\ online[c] /\ player[c].cur # invaild
    /\ Leaves(c, player[c])
    /\ UNCHANGED <<session, load, queued, doc, saves, moves, earned, faults>>

----------------------------------------------------------------------------
(* handle_handshake_packet: the Player object is new; nothing sets its     *)
(* type before the login server answers.                                   *)
Handshake(c) ==
    /\ online[c] /\ player[c].cur = invaild
    /\ \E garbage \in BOOLEAN :
         player' = [player EXCEPT ![c] =
           [NoPlayer EXCEPT !.prev = initialized, !.cur = handshaking, !.next = handshaked,
                            !.authenticated = garbage]]
    /\ UNCHANGED <<online, session, load, queued, doc, saves, moves, earned, slips, faults>>

(* The answer of the login server, once, while the connection is there.    *)
Unanswered(c) == online[c] /\ player[c].cur # invaild /\ ~player[c].answered

Answered(c) == [player[c] EXCEPT !.answered = TRUE]

AnswerGuest(c) ==
    /\ Unanswered(c)
    /\ player' = [player EXCEPT ![c] =
                    TransitState([Answered(c) EXCEPT !.authenticated = FALSE])]
    /\ UNCHANGED <<online, session, load, queued, doc, saves, moves, earned, slips, faults>>

AnswerRefused(c) ==
    /\ Unanswered(c)
    /\ Leaves(c, Answered(c))
    /\ UNCHANGED <<session, load, queued, doc, saves, moves, earned, faults>>

(* The user's password is right: the connection of the previous login is   *)
(* kicked, and the load begins.                                            *)
AnswerSuccess(c) ==
    LET named == [player EXCEPT ![c] = [Answered(c) EXCEPT !.authenticated = TRUE, !.uuid = "user"]]
        old == session
    IN  /\ Unanswered(c)
        /\ load' = [load EXCEPT ![c] = Asked]
        /\ session' = c
        /\ IF old # NoConn /\ online[old]
           THEN /\ player' = [named EXCEPT ![old] =
                     IF Delegates(@) THEN PrepareStateTransition(@, disconnecting, disconnected)
                     ELSE @]
                /\ online' = [online EXCEPT ![old] = Delegates(player[old])]
                /\ slips' = slips \cup
                     (IF player[old].cur = disconnecting THEN {"early"} ELSE {})
           ELSE player' = named /\ UNCHANGED <<online, slips>>
        /\ UNCHANGED <<queued, doc, saves, moves, earned, faults>>

(* The database reads the document, or fails.                              *)
Read(c) ==
    /\ load[c] = Asked
    /\ load' = [load EXCEPT ![c] = doc["user"]]
    /\ slips' = slips \cup
         (IF \/ \E s \in saves : s.uuid = "user"
             \/ \E d \in Conns \ {c} : online[d] /\ IsUser(d)
          THEN {"overlap"} ELSE {})
    /\ UNCHANGED <<online, player, session, queued, doc, saves, moves, earned, faults>>

ReadFails(c) ==
    /\ load[c] = Asked /\ faults < MaxFaults
    /\ load' = [load EXCEPT ![c] = Failed]
    /\ faults' = faults + 1
    /\ UNCHANGED <<online, player, session, queued, doc, saves, moves, earned, slips>>

(* handle_handshake_response_message resumes.                              *)
Loaded(c) ==
    /\ load[c] \notin {NoLoad, Asked}
    /\ load' = [load EXCEPT ![c] = NoLoad]
    /\ IF ~online[c] THEN UNCHANGED <<online, player, slips>>
       ELSE IF load[c] = Failed THEN Leaves(c, player[c])
       ELSE /\ player' = [player EXCEPT ![c] =
                 TransitState([@ EXCEPT !.loaded = TRUE,
                                 !.data = IF load[c] = NoDocument THEN @ ELSE load[c]])]
            /\ UNCHANGED <<online, slips>>
    /\ UNCHANGED <<session, queued, doc, saves, moves, earned, faults>>

(* handle_player_position_packet, whatever the state of the player.        *)
Move(c) ==
    /\ online[c] /\ player[c].cur # invaild /\ moves <= MaxMoves
    /\ moves' = moves + 1
    /\ player' = [player EXCEPT ![c] = [@ EXCEPT !.data = moves']]
    /\ earned' = IF IsUser(c) /\ player[c].cur >= handshaked THEN moves' ELSE earned
    /\ UNCHANGED <<online, session, load, queued, doc, saves, slips, faults>>

----------------------------------------------------------------------------
(* World::tick, and the handler of disconnect_player_task.                 *)
TickLeave(c) ==
    /\ online[c] /\ player[c].cur = disconnecting
    /\ queued' = queued \cup {c}
    /\ UNCHANGED <<online, player, session, load, doc, saves, moves, earned, slips, faults>>

SupportsSavingNow(p) ==     \* mutant: the state of the moment alone
    p.cur >= handshaked

IsSupportGamedataSaving(p) ==
    p.authenticated \/ p.cur >= handshaked \/ p.prev >= handshaked

Teardown(c) ==
    /\ c \in queued /\ queued' = queued \ {c}
    /\ IF online[c]
       THEN /\ player' = [player EXCEPT ![c] = TransitState(@)]
            /\ IF IsSupportGamedataSaving(player[c])
               THEN /\ saves' = saves \cup
                         {[conn |-> c, uuid |-> player[c].uuid, data |-> player[c].data]}
                    /\ slips' = slips \cup
                         (IF IsUser(c) /\ ~player[c].loaded THEN {"blank"} ELSE {})
               ELSE UNCHANGED <<saves, slips>>
       ELSE UNCHANGED <<player, saves, slips>>
    /\ UNCHANGED <<online, session, load, doc, moves, earned, faults>>

(* The upserts arrive in any order.                                        *)
SaveArrives(s) ==
    /\ doc' = [doc EXCEPT ![s.uuid] = s.data]
    /\ saves' = saves \ {s}
    /\ UNCHANGED <<online, player, session, load, queued, moves, earned, slips, faults>>

SaveFails(s) ==
    /\ faults < MaxFaults
    /\ faults' = faults + 1
    /\ saves' = saves \ {s}
    /\ slips' = slips \cup {"failed"}
    /\ UNCHANGED <<online, player, session, load, queued, doc, moves, earned>>

Next ==
    \/ \E c \in Conns :
         \/ Disconnect(c) \/ Handshake(c) \/ AnswerGuest(c) \/ AnswerRefused(c)
         \/ AnswerSuccess(c) \/ Read(c) \/ ReadFails(c) \/ Loaded(c) \/ Move(c)
         \/ TickLeave(c) \/ Teardown(c)
    \/ \E s \in saves : SaveArrives(s) \/ SaveFails(s)

Spec == Init /\ [][Next]_vars

----------------------------------------------------------------------------
(* Properties.                                                             *)

(* A user whose connections are gone finds the latest move in the          *)
(* document.  Four slips cost him game data: a player whose load did not   *)
(* finish is saved (blank), a second disconnect skips the teardown         *)
(* (early), the document is read before the previous login's save arrived  *)
(* (overlap), and a save that fails is not repeated (failed).              *)
MovesAreKept ==
    (slips = {} /\ (\A c \in Conns : IsUser(c) => ~online[c]) /\ \A s \in saves : s.uuid # "user")
      => doc["user"] >= earned

(* world.cpp:137 "Update player game data then set offline."  The document *)
(* is never replaced by an older state of the player.                      *)
DocumentNeverGoesBack == [][doc'["user"] >= doc["user"]]_vars

=============================================================================
