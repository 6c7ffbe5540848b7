---------------------------- MODULE LoginSession ----------------------------
(***************************************************************************)
(* One user, several connections: how the login server                     *)
(* (login::net::LoginServer) and the game server's response handler are    *)
(* meant to keep a user logged in at most once.                            *)
(*                                                                         *)
(* The login server keeps one document per user, player_login_session,     *)
(* with the key of the connection that logged in last.  A handler reads    *)
(* the document, answers with the key it found, and overwrites it.  The    *)
(* game server disconnects the connection of that key.  The handlers are   *)
(* coroutines: the UDP thread takes the next request while one waits for   *)
(* the database.  Requests and responses are UDP datagrams: unordered, and *)
(* lost without notice.                                                    *)
(*                                                                         *)
(* A connection is reduced to what the login changes; GameSession has the  *)
(* player's states.  "in" is any state from handshaked on, "leaving" a     *)
(* disconnect prepared before the player got there, "kicked" one prepared  *)
(* after.  A key is used for one handshake only.                           *)
(***************************************************************************)
EXTENDS Naturals, FiniteSets

CONSTANTS
    Keys,       \* the user's connections on the game server, by their key
    None,       \* no key: no session document, or no prev_connection_key
    MaxFaults   \* bound: datagrams lost and database operations failed

ASSUME LoginAssumption == None \notin Keys /\ MaxFaults \in Nat

VARIABLES
    conn,       \* Keys -> how far the connection is
    loading,    \* keys whose handler waits for the game data
    session,    \* the player_login_session document
    handler,    \* Keys -> the coroutine handling its handshake
    request,    \* forwarded handshakes on their way
    response,   \* PacketHandshakeResponse datagrams on their way
    faults,     \* faults so far
    slips       \* what got in the way of a single login (history)

vars == <<conn, loading, session, handler, request, response, faults, slips>>

Idle == [stage |-> "idle", prev |-> None]

Init ==
    /\ conn = [k \in Keys |-> "new"]
    /\ loading = {}
    /\ session = None
    /\ handler = [k \in Keys |-> Idle]
    /\ request = {} /\ response = {}
    /\ faults = 0 /\ slips = {}

(* ConnectionEnvironment::try_acquire_connection finds it. *)
Online(k) == k \in Keys /\ conn[k] \notin {"new", "out"}

Fault(kind) == /\ faults < MaxFaults /\ faults' = faults + 1
               /\ slips' = slips \cup {kind}

NoFault == UNCHANGED <<faults, slips>>

----------------------------------------------------------------------------
(* Game server: a client connects and handle_handshake_packet forwards it.  *)
Handshake(k) ==
    /\ conn[k] = "new"
    /\ conn' = [conn EXCEPT ![k] = "waiting"]
    /\ request' = request \cup {k}
    /\ UNCHANGED <<loading, session, handler, response>> /\ NoFault

(* It goes offline: it left, it expired, or the world tore it down. *)
Leave(k) ==
    /\ Online(k)
    /\ conn' = [conn EXCEPT ![k] = "out"]
    /\ UNCHANGED <<loading, session, handler, request, response>> /\ NoFault

Lose ==
    /\ Fault("loss")
    /\ \/ \E k \in request : request' = request \ {k} /\ response' = response
       \/ \E m \in response : response' = response \ {m} /\ request' = request
    /\ UNCHANGED <<conn, loading, session, handler>>

----------------------------------------------------------------------------
(* Login server: LoginServer::handle_handshake_packet.                      *)

(* The coroutine runs to its first co_await. *)
Receive(k) ==
    /\ k \in request
    /\ request' = request \ {k}
    /\ handler' = [handler EXCEPT ![k].stage = "auth"]
    /\ UNCHANGED <<conn, loading, session, response>> /\ NoFault

(* The coroutine ends and its deferred send_response runs. *)
Reply(k, result, prev) ==
    /\ handler' = [handler EXCEPT ![k] = Idle]
    /\ response' = response \cup {[conn |-> k, result |-> result, prev |-> prev]}

(* player_login: unknown user, an error or a wrong password, or success. *)
Authenticate(k) ==
    /\ handler[k].stage = "auth"
    /\ \/ \E result \in {"not_exist", "fail"} : Reply(k, result, None)
       \/ handler' = [handler EXCEPT ![k].stage = "get"] /\ response' = response
    /\ UNCHANGED <<conn, loading, session, request>> /\ NoFault

(* get_document(player_login_session).  An error other than not-found ends  *)
(* the coroutine, whose response already says success.                      *)
GetSession(k) ==
    /\ handler[k].stage = "get"
    /\ \/ /\ handler' = [handler EXCEPT ![k] = [stage |-> "upsert", prev |-> session]]
          /\ response' = response /\ faults' = faults
          /\ slips' = IF \E j \in Keys : handler[j].stage = "upsert"
                      THEN slips \cup {"race"} ELSE slips
       \/ Reply(k, "success", None) /\ Fault("failure")
    /\ UNCHANGED <<conn, loading, session, request>>

(* upsert_document(player_login_session); a failure is only logged. *)
UpsertSession(k) ==
    /\ handler[k].stage = "upsert"
    /\ Reply(k, "success", handler[k].prev)
    /\ \/ session' = k /\ NoFault
       \/ session' = session /\ Fault("failure")
    /\ UNCHANGED <<conn, loading, request>>

----------------------------------------------------------------------------
(* Game server: handle_handshake_response_message on the UDP thread.        *)

(* Connection::kick on the connections S: a disconnect is prepared, which    *)
(* the world carries out.                                                    *)
KickForgets(S) == conn          \* mutant: nobody is kicked
KickTarget(k) == IF conn[k] \in {"in", "kicked"} THEN "kicked" ELSE "leaving"
Kick(S) == [k \in Keys |-> IF k \in S /\ Online(k) THEN KickTarget(k) ELSE conn[k]]

(* World::tick read the state of a logged-in player before the kick, and now *)
(* prepares the transition it chose then: the kick is forgotten.             *)
WorldOverwrites(k) ==
    /\ conn[k] = "kicked"
    /\ conn' = [conn EXCEPT ![k] = "in"]
    /\ slips' = slips \cup {"overwritten"}
    /\ UNCHANGED <<loading, session, handler, request, response, faults>>

HandleResponse(m) ==
    /\ m \in response /\ response' = response \ {m}
    /\ \/ /\ ~Online(m.conn)
          /\ slips' = IF m.prev = None THEN slips ELSE slips \cup {"gone"}
          /\ UNCHANGED <<conn, loading>>
       \/ /\ Online(m.conn) /\ m.result = "not_exist"
          /\ conn' = [conn EXCEPT ![m.conn] = IF @ = "waiting" THEN "guest" ELSE @]
          /\ UNCHANGED <<loading, slips>>
       \/ /\ Online(m.conn) /\ m.result = "fail"
          /\ conn' = Kick({m.conn})
          /\ UNCHANGED <<loading, slips>>
       \/ /\ Online(m.conn) /\ m.result = "success"
          /\ conn' = Kick({m.prev})
          /\ loading' = loading \cup {m.conn}
          /\ UNCHANGED slips
    /\ UNCHANGED <<session, handler, request, faults>>

(* The game data arrived, or could not be read: a player on its way out     *)
(* takes the transition that was prepared for it, which is to disconnect.   *)
LoadedReset(k) ==   \* mutant: the transition names its target itself
    /\ k \in loading /\ loading' = loading \ {k}
    /\ conn' = IF Online(k) THEN [conn EXCEPT ![k] = "in"] ELSE conn
    /\ UNCHANGED <<session, handler, request, response>> /\ NoFault

Loaded(k) ==
    /\ k \in loading /\ loading' = loading \ {k}
    /\ \/ conn' = [conn EXCEPT ![k] = IF @ = "waiting" THEN "in" ELSE @]
       \/ conn' = Kick({k})
    /\ UNCHANGED <<session, handler, request, response>> /\ NoFault

Next ==
    \/ \E k \in Keys : \/ Handshake(k) \/ Leave(k)
                       \/ Receive(k) \/ Authenticate(k)
                       \/ GetSession(k) \/ UpsertSession(k)
                       \/ Loaded(k) \/ WorldOverwrites(k)
    \/ \E m \in response : HandleResponse(m)
    \/ Lose

Spec == Init /\ [][Next]_vars

----------------------------------------------------------------------------
(* Properties.                                                              *)

Message == [conn : Keys, result : {"not_exist", "fail", "success"},
            prev : Keys \cup {None}]

(* The shape of the connections, the document, the coroutines and the       *)
(* datagrams; only a successful response names another connection.          *)
TypeOK ==
    /\ conn \in [Keys -> {"new", "waiting", "guest", "in", "leaving",
                      "kicked", "out"}]
    /\ loading \subseteq Keys
    /\ session \in Keys \cup {None}
    /\ handler \in [Keys -> [stage : {"idle", "auth", "get", "upsert"},
                             prev : Keys \cup {None}]]
    /\ request \subseteq Keys /\ response \subseteq Message
    /\ faults \in Nat
    /\ slips \subseteq {"loss", "failure", "race", "gone", "overwritten"}
    /\ \A m \in response : m.result # "success" => m.prev = None

(* There are exactly five ways a user ends up logged in twice: a datagram   *)
(* is lost, a database operation fails, two handlers overlap between        *)
(* reading and writing the session, the new connection is gone before its   *)
(* response arrives, or World::tick overwrites the kick.  Otherwise a       *)
(* logged-in connection that is not the one of the session document has its *)
(* kick on the way, whatever the order in which responses arrive and game   *)
(* data is loaded.                                                          *)
SupersededIsKicked ==
    slips = {} =>
        \A k \in Keys : conn[k] = "in" /\ k # session =>
            \E m \in response : m.prev = k

(* A connection disconnected while its own login is still under way never   *)
(* comes in: the late response and the late game data take the transition   *)
(* that the kick prepared.                                                  *)
LeavingStaysOut ==
    [][\A k \in Keys : conn[k] \in {"leaving", "out"}
                          => conn'[k] \in {"leaving", "out"}]_vars

(* game_server.cpp, "Disconnect already logged in player.": when nothing is *)
(* on its way any more the user is logged in at most once.  The code does   *)
(* not keep this.                                                           *)
Quiet == /\ request = {} /\ response = {} /\ loading = {}
         /\ \A k \in Keys : handler[k].stage = "idle"
SingleLogin == Quiet => Cardinality({k \in Keys : conn[k] = "in"}) <= 1

=============================================================================
