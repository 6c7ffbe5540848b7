------------------------- MODULE LoginSessionProofs -------------------------
(***************************************************************************)
(* Proof, for any number of connections of the user and any number of      *)
(* faults, that a superseded login has its kick on the way unless one of   *)
(* the recorded slips happened.                                            *)
(***************************************************************************)
EXTENDS LoginSession, TLAPS

(* A connection the login server answered with success, on its way in.      *)
Accepted(k) ==
    \/ \E m \in response : m.conn = k /\ m.result = "success"
    \/ k \in loading
    \/ conn[k] = "in"

KickPending(k) == \E m \in response : m.prev = k

Out == {"leaving", "kicked", "out"}

(* Nothing is accepted before its handshake. *)
NewIsFresh ==
    \A k \in Keys : conn[k] = "new" =>
        /\ ~Accepted(k) /\ handler[k].stage = "idle" /\ k \notin request
        /\ session # k

(* Without overlap one handler is between reading and writing the session,  *)
(* and what it read is still there.                                         *)
ReaderIsAlone ==
    \A k \in Keys : handler[k].stage = "upsert" =>
        /\ handler[k].prev = session
        /\ \A j \in Keys : handler[j].stage = "upsert" => j = k

(* An accepted connection that is not the session's is on its way out or    *)
(* has its kick pending.                                                    *)
SupersededLeaves ==
    \A k \in Keys : Accepted(k) /\ k # session =>
        conn[k] \in Out \/ KickPending(k)

IInv == /\ TypeOK
        /\ NewIsFresh
        /\ slips = {} => ReaderIsAlone /\ SupersededLeaves

----------------------------------------------------------------------------
(* Initially no connection is anywhere near a login. *)
LEMMA InitInv == Init => IInv
<1> SUFFICES ASSUME Init PROVE IInv
  OBVIOUS
<1>1. Idle \in [stage : {"idle", "auth", "get", "upsert"}, prev : Keys \cup {None}]
  BY DEF Idle
<1>2. TypeOK
  BY <1>1, LoginAssumption DEF Init, TypeOK, Message
<1>3. NewIsFresh /\ ReaderIsAlone /\ SupersededLeaves
  BY LoginAssumption
  DEF Init, Idle, NewIsFresh, ReaderIsAlone, SupersededLeaves, Accepted
<1> QED
  BY <1>2, <1>3 DEF IInv

(* Kick changes the connections it is given and keeps their shape. *)
LEMMA KickShape ==
  ASSUME TypeOK, NEW S
  PROVE  /\ Kick(S) \in [Keys -> {"new", "waiting", "guest", "in", "leaving",
                                  "kicked", "out"}]
         /\ \A k \in Keys : Kick(S)[k] = conn[k] \/ Kick(S)[k] \in {"leaving", "kicked"}
         /\ \A k \in Keys : k \in S /\ conn[k] # "new" => Kick(S)[k] \in Out
         /\ \A k \in Keys : conn[k] \in {"new", "out"} => Kick(S)[k] = conn[k]
BY DEF Kick, KickTarget, Online, TypeOK, Out

(* An answer in flight has the shape of a datagram. *)
LEMMA ReplyShape ==
  ASSUME TypeOK, NEW k \in Keys, NEW result \in {"not_exist", "fail", "success"},
         NEW prev \in Keys \cup {None}, result # "success" => prev = None,
         Reply(k, result, prev)
  PROVE  /\ handler' \in [Keys -> [stage : {"idle", "auth", "get", "upsert"},
                                   prev : Keys \cup {None}]]
         /\ response' \subseteq Message
         /\ \A m \in response' : m.result # "success" => m.prev = None
<1>1. Idle \in [stage : {"idle", "auth", "get", "upsert"}, prev : Keys \cup {None}]
  BY DEF Idle
<1>2. handler' \in [Keys -> [stage : {"idle", "auth", "get", "upsert"},
                             prev : Keys \cup {None}]]
  BY <1>1 DEF Reply, TypeOK
<1>3. [conn |-> k, result |-> result, prev |-> prev] \in Message
  BY DEF Message
<1> QED
  BY <1>2, <1>3 DEF Reply, TypeOK

(* Type correctness of every step. *)
LEMMA TypeStep == TypeOK /\ [Next]_vars => TypeOK'
<1> SUFFICES ASSUME TypeOK, [Next]_vars PROVE TypeOK'
  OBVIOUS
<1> USE DEF NoFault, Fault
<1>1. ASSUME NEW k \in Keys, Handshake(k) PROVE TypeOK'
  BY <1>1 DEF Handshake, TypeOK
<1>2. ASSUME NEW k \in Keys, Leave(k) PROVE TypeOK'
  BY <1>2 DEF Leave, TypeOK
<1>3. ASSUME NEW k \in Keys, Receive(k) PROVE TypeOK'
  BY <1>3 DEF Receive, TypeOK
<1>4. ASSUME NEW k \in Keys, Authenticate(k) PROVE TypeOK'
  <2>1. CASE \E result \in {"not_exist", "fail"} : Reply(k, result, None)
    <3>1. PICK result \in {"not_exist", "fail"} : Reply(k, result, None)
      BY <2>1
    <3>2. /\ handler' \in [Keys -> [stage : {"idle", "auth", "get", "upsert"},
                                    prev : Keys \cup {None}]]
          /\ response' \subseteq Message
          /\ \A m \in response' : m.result # "success" => m.prev = None
      BY <3>1, ReplyShape
    <3> QED
      BY <1>4, <3>2 DEF Authenticate, TypeOK
  <2>2. CASE /\ handler' = [handler EXCEPT ![k].stage = "get"]
             /\ response' = response
    BY <1>4, <2>2 DEF Authenticate, TypeOK
  <2> QED
    BY <1>4, <2>1, <2>2 DEF Authenticate
<1>5. ASSUME NEW k \in Keys, GetSession(k) PROVE TypeOK'
  <2>1. CASE handler' = [handler EXCEPT ![k] = [stage |-> "upsert", prev |-> session]]
             /\ response' = response /\ faults' = faults
             /\ slips' \subseteq slips \cup {"race"}
    BY <1>5, <2>1 DEF GetSession, TypeOK
  <2>2. CASE Reply(k, "success", None) /\ Fault("failure")
    <3>1. /\ handler' \in [Keys -> [stage : {"idle", "auth", "get", "upsert"},
                                    prev : Keys \cup {None}]]
          /\ response' \subseteq Message
          /\ \A m \in response' : m.result # "success" => m.prev = None
      BY <2>2, ReplyShape
    <3> QED
      BY <1>5, <2>2, <3>1 DEF GetSession, TypeOK
  <2> QED
    BY <1>5, <2>1, <2>2 DEF GetSession
<1>6. ASSUME NEW k \in Keys, UpsertSession(k) PROVE TypeOK'
  <2>1. Reply(k, "success", handler[k].prev) /\ handler[k].prev \in Keys \cup {None}
    BY <1>6 DEF UpsertSession, TypeOK
  <2>2. /\ handler' \in [Keys -> [stage : {"idle", "auth", "get", "upsert"},
                                  prev : Keys \cup {None}]]
        /\ response' \subseteq Message
        /\ \A m \in response' : m.result # "success" => m.prev = None
    BY <2>1, ReplyShape
  <2>3. CASE session' = k /\ NoFault
    BY <1>6, <2>2, <2>3 DEF UpsertSession, TypeOK
  <2>4. CASE session' = session /\ Fault("failure")
    BY <1>6, <2>2, <2>4 DEF UpsertSession, TypeOK
  <2> QED
    BY <1>6, <2>3, <2>4 DEF UpsertSession
<1>7. ASSUME NEW k \in Keys, Loaded(k) PROVE TypeOK'
  BY <1>7, KickShape DEF Loaded, TypeOK
<1>8. ASSUME NEW k \in Keys, WorldOverwrites(k) PROVE TypeOK'
  BY <1>8 DEF WorldOverwrites, TypeOK
<1>9. ASSUME NEW m \in response, HandleResponse(m) PROVE TypeOK'
  <2>1. m.conn \in Keys
    BY <1>9 DEF TypeOK, Message
  <2>2. /\ conn' \in [Keys -> {"new", "waiting", "guest", "in", "leaving",
                               "kicked", "out"}]
        /\ loading' \subseteq Keys
        /\ slips' \subseteq {"loss", "failure", "race", "gone", "overwritten"}
    <3>1. CASE ~Online(m.conn)
      BY <1>9, <3>1 DEF HandleResponse, TypeOK
    <3>2. CASE Online(m.conn) /\ m.result = "not_exist"
      BY <1>9, <2>1, <3>2 DEF HandleResponse, TypeOK
    <3>3. CASE m.result = "fail"
      BY <1>9, <2>1, <3>1, <3>3, KickShape DEF HandleResponse, TypeOK
    <3>4. CASE Online(m.conn) /\ m.result = "success"
      <4>1. conn' = Kick({m.prev}) /\ loading' = loading \cup {m.conn} /\ slips' = slips
        BY <1>9, <3>4 DEF HandleResponse
      <4>2. Kick({m.prev}) \in [Keys -> {"new", "waiting", "guest", "in", "leaving",
                                        "kicked", "out"}]
        BY KickShape
      <4> QED
        BY <2>1, <4>1, <4>2 DEF TypeOK
    <3> QED
      BY <1>9, <3>1, <3>2, <3>3, <3>4 DEF HandleResponse
  <2> QED
    BY <1>9, <2>2 DEF HandleResponse, TypeOK
<1>10. CASE Lose
  BY <1>10 DEF Lose, TypeOK
<1>11. CASE UNCHANGED vars
  BY <1>11 DEF vars, TypeOK
<1> QED
  BY <1>1, <1>2, <1>3, <1>4, <1>5, <1>6, <1>7, <1>8, <1>9, <1>10, <1>11 DEF Next

----------------------------------------------------------------------------
(* A connection is new only before its handshake, and nothing brings it back. *)
LEMMA NewStep == IInv /\ [Next]_vars => NewIsFresh'
<1> SUFFICES ASSUME IInv, [Next]_vars, NEW q \in Keys, conn'[q] = "new"
             PROVE  /\ ~Accepted(q)' /\ handler'[q].stage = "idle" /\ q \notin request'
                    /\ session' # q
  BY DEF NewIsFresh
<1> USE DEF NoFault, Fault
<1>t. TypeOK
  BY DEF IInv
<1>1. ASSUME conn[q] = "new"
      PROVE  ~Accepted(q) /\ handler[q].stage = "idle" /\ q \notin request /\ session # q
  BY <1>1 DEF IInv, NewIsFresh
<1>2. ASSUME NEW k \in Keys, Handshake(k) \/ Leave(k) \/ Receive(k)
      PROVE  /\ ~Accepted(q)' /\ handler'[q].stage = "idle" /\ q \notin request'
             /\ session' # q
  BY <1>t, <1>1, <1>2 DEF Handshake, Leave, Receive, TypeOK, Accepted
<1>3. ASSUME NEW k \in Keys, Authenticate(k) \/ GetSession(k) \/ UpsertSession(k)
      PROVE  /\ ~Accepted(q)' /\ handler'[q].stage = "idle" /\ q \notin request'
             /\ session' # q
  BY <1>t, <1>1, <1>3 DEF Authenticate, GetSession, UpsertSession, Reply, TypeOK,
                          Accepted
<1>4. ASSUME NEW k \in Keys, Loaded(k) \/ WorldOverwrites(k)
      PROVE  /\ ~Accepted(q)' /\ handler'[q].stage = "idle" /\ q \notin request'
             /\ session' # q
  BY <1>t, <1>1, <1>4, KickShape DEF Loaded, WorldOverwrites, TypeOK, Accepted
<1>5. ASSUME NEW m \in response, HandleResponse(m)
      PROVE  /\ ~Accepted(q)' /\ handler'[q].stage = "idle" /\ q \notin request'
             /\ session' # q
  <2>1. conn[q] = "new"
    BY <1>t, <1>5, KickShape DEF HandleResponse, TypeOK, Message
  <2>2. Online(m.conn) => m.conn # q
    BY <2>1 DEF Online
  <2>3. loading' \subseteq loading \cup {m.conn} /\ (~Online(m.conn) => loading' = loading)
    BY <1>5 DEF HandleResponse
  <2> QED
    BY <1>1, <1>5, <2>1, <2>2, <2>3 DEF HandleResponse, Accepted
<1>6. CASE Lose \/ UNCHANGED vars
  BY <1>1, <1>6 DEF Lose, vars, Accepted
<1> QED
  BY <1>2, <1>3, <1>4, <1>5, <1>6 DEF Next

(* As long as nothing slipped, one handler at a time is between reading and  *)
(* writing the session document.                                             *)
LEMMA ReaderStep == IInv /\ [Next]_vars => (slips' = {} => ReaderIsAlone')
<1> SUFFICES ASSUME IInv, [Next]_vars, slips' = {} PROVE ReaderIsAlone'
  OBVIOUS
<1> USE DEF NoFault, Fault
<1>1. slips = {}
  BY DEF Next, Handshake, Leave, Receive, Authenticate, GetSession, UpsertSession,
         Loaded, WorldOverwrites, HandleResponse, Lose, vars
<1>2. TypeOK /\ ReaderIsAlone
  BY <1>1 DEF IInv
<1>3. ASSUME NEW k \in Keys, Authenticate(k) PROVE ReaderIsAlone'
  BY <1>2, <1>3 DEF Authenticate, Reply, Idle, ReaderIsAlone, TypeOK
<1>4. ASSUME NEW k \in Keys, GetSession(k) PROVE ReaderIsAlone'
  <2>1. CASE Reply(k, "success", None)
    BY <1>2, <1>4, <2>1 DEF GetSession, Reply, Idle, ReaderIsAlone, TypeOK
  <2>2. CASE handler' = [handler EXCEPT ![k] = [stage |-> "upsert", prev |-> session]]
             /\ slips' = IF \E j \in Keys : handler[j].stage = "upsert"
                         THEN slips \cup {"race"} ELSE slips
    <3>1. \A j \in Keys : handler[j].stage # "upsert"
      BY <2>2
    <3>2. /\ handler'[k] = [stage |-> "upsert", prev |-> session]
          /\ \A j \in Keys : j # k => handler'[j] = handler[j]
      BY <1>2, <2>2 DEF TypeOK
    <3> QED
      BY <1>4, <3>1, <3>2 DEF GetSession, ReaderIsAlone
  <2> QED
    BY <1>4, <2>1, <2>2 DEF GetSession
<1>5. ASSUME NEW k \in Keys, UpsertSession(k) PROVE ReaderIsAlone'
  <2>1. handler' = [handler EXCEPT ![k] = Idle] /\ handler[k].stage = "upsert"
    BY <1>5 DEF UpsertSession, Reply
  <2>2. \A j \in Keys : handler'[j].stage # "upsert"
    BY <1>2, <2>1 DEF Idle, ReaderIsAlone, TypeOK
  <2> QED
    BY <2>2 DEF ReaderIsAlone
<1>6. ASSUME NEW k \in Keys, Receive(k) PROVE ReaderIsAlone'
  BY <1>2, <1>6 DEF Receive, ReaderIsAlone, TypeOK
<1>7. ASSUME UNCHANGED <<handler, session>> PROVE ReaderIsAlone'
  BY <1>2, <1>7 DEF ReaderIsAlone
<1> QED
  BY <1>3, <1>4, <1>5, <1>6, <1>7
  DEF Next, Handshake, Leave, Loaded, WorldOverwrites, HandleResponse, Lose, vars

(* Every accepted connection the session has moved on from keeps its kick    *)
(* until it is carried out.                                                  *)
LEMMA SupersededStep == IInv /\ [Next]_vars => (slips' = {} => SupersededLeaves')
<1> SUFFICES ASSUME IInv, [Next]_vars, slips' = {},
                    NEW q \in Keys, Accepted(q)', q # session'
             PROVE  conn'[q] \in Out \/ KickPending(q)'
  BY DEF SupersededLeaves
<1> USE DEF NoFault, Fault
<1>1. slips = {}
  BY DEF Next, Handshake, Leave, Receive, Authenticate, GetSession, UpsertSession,
         Loaded, WorldOverwrites, HandleResponse, Lose, vars
<1>2. TypeOK /\ ReaderIsAlone /\ SupersededLeaves /\ NewIsFresh
  BY <1>1 DEF IInv
<1>3. ASSUME Accepted(q), q # session PROVE conn[q] \in Out \/ KickPending(q)
  BY <1>2, <1>3 DEF SupersededLeaves
<1>4. ASSUME NEW k \in Keys, Handshake(k) \/ Leave(k) \/ Receive(k)
      PROVE  conn'[q] \in Out \/ KickPending(q)'
  <2>1. Accepted(q)
    BY <1>2, <1>4 DEF Handshake, Leave, Receive, Accepted, TypeOK
  <2>2. conn[q] \in Out => conn'[q] \in Out
    BY <1>2, <1>4 DEF Handshake, Leave, Receive, Out, TypeOK
  <2> QED
    BY <1>3, <1>4, <2>1, <2>2 DEF Handshake, Leave, Receive, KickPending
<1>5. ASSUME NEW k \in Keys, Authenticate(k)
      PROVE  conn'[q] \in Out \/ KickPending(q)'
  BY <1>3, <1>5 DEF Authenticate, Reply, Accepted, KickPending
<1>6. ASSUME NEW k \in Keys, GetSession(k)
      PROVE  conn'[q] \in Out \/ KickPending(q)'
  BY <1>3, <1>6 DEF GetSession, Accepted, KickPending
<1>7. ASSUME NEW k \in Keys, UpsertSession(k)
      PROVE  conn'[q] \in Out \/ KickPending(q)'
  <2>1. session' = k /\ Reply(k, "success", session) /\ conn' = conn /\ loading' = loading
    BY <1>1, <1>2, <1>7 DEF UpsertSession, ReaderIsAlone
  <2>2. Accepted(q)
    BY <2>1 DEF Reply, Accepted
  <2>3. CASE q = session
    <3>1. [conn |-> k, result |-> "success", prev |-> session] \in response'
      BY <2>1 DEF Reply
    <3> QED
      BY <2>3, <3>1 DEF KickPending
  <2>4. CASE q # session
    BY <1>3, <2>1, <2>2, <2>4 DEF Reply, KickPending
  <2> QED
    BY <2>3, <2>4
<1>8. ASSUME NEW k \in Keys, Loaded(k)
      PROVE  conn'[q] \in Out \/ KickPending(q)'
  <2>1. Accepted(q)
    BY <1>2, <1>8, KickShape DEF Loaded, Accepted, TypeOK
  <2>2. conn[q] \in Out => conn'[q] \in Out
    BY <1>2, <1>8, KickShape DEF Loaded, Out, TypeOK
  <2> QED
    BY <1>3, <1>8, <2>1, <2>2 DEF Loaded, KickPending
<1>9. ASSUME NEW m \in response, HandleResponse(m)
      PROVE  conn'[q] \in Out \/ KickPending(q)'
  <2>1. m.conn \in Keys /\ (m.result # "success" => m.prev = None)
    BY <1>2 DEF TypeOK, Message
  <2>2. Accepted(q)
    BY <1>2, <1>9, <2>1, KickShape DEF HandleResponse, Accepted, TypeOK, Message
  <2>3. conn[q] \in Out => conn'[q] \in Out
    BY <1>2, <1>9, <2>1, KickShape DEF HandleResponse, Out, TypeOK
  <2>4. q # session
    BY <1>9 DEF HandleResponse
  <2>5. CASE m.prev = q
    <3>1. Online(m.conn) /\ m.result = "success"
      BY <1>1, <1>9, <2>1, <2>5, LoginAssumption DEF HandleResponse
    <3>2. conn' = Kick({q})
      BY <1>9, <2>5, <3>1 DEF HandleResponse
    <3>3. conn[q] # "new"
      BY <1>2, <2>2 DEF NewIsFresh
    <3> QED
      BY <1>2, <3>2, <3>3, KickShape
  <2>6. CASE m.prev # q
    BY <1>3, <1>9, <2>2, <2>3, <2>4, <2>6 DEF HandleResponse, KickPending
  <2> QED
    BY <2>5, <2>6
<1>10. ASSUME NEW k \in Keys, WorldOverwrites(k) PROVE FALSE
  BY <1>10 DEF WorldOverwrites
<1>11. CASE Lose
  BY <1>11 DEF Lose
<1>12. CASE UNCHANGED vars
  BY <1>3, <1>12 DEF vars, Accepted, KickPending
<1> QED
  BY <1>4, <1>5, <1>6, <1>7, <1>8, <1>9, <1>10, <1>11, <1>12 DEF Next

(* The inductive invariant holds in every reachable state. *)
THEOREM Invariant == Spec => []IInv
<1>1. IInv /\ [Next]_vars => IInv'
  BY TypeStep, NewStep, ReaderStep, SupersededStep DEF IInv
<1> QED
  BY InitInv, <1>1, PTL DEF Spec

(* Type correctness: in particular only a success names another connection. *)
THEOREM TypeCorrect == Spec => []TypeOK
<1>1. IInv => TypeOK
  BY DEF IInv
<1> QED
  BY <1>1, Invariant, PTL

(* A user is logged in twice only if a datagram was lost, the database      *)
(* failed, two handlers overlapped, the newer connection was gone before    *)
(* its response, or World::tick overwrote the kick: for any number of       *)
(* connections.                                                             *)
THEOREM SupersededGetsKicked == Spec => []SupersededIsKicked
<1>1. IInv => SupersededIsKicked
  BY DEF IInv, SupersededIsKicked, SupersededLeaves, Accepted, KickPending, Out
<1> QED
  BY <1>1, Invariant, PTL

(* A connection disconnected during its own login never comes in. *)
THEOREM LeavingNeverEnters == Spec => LeavingStaysOut
<1> DEFINE Stays == \A k \in Keys : conn[k] \in {"leaving", "out"}
                                      => conn'[k] \in {"leaving", "out"}
<1>1. TypeOK /\ [Next]_vars => [Stays]_vars
  <2> SUFFICES ASSUME TypeOK, Next, NEW k \in Keys, conn[k] \in {"leaving", "out"}
               PROVE  conn'[k] \in {"leaving", "out"}
    OBVIOUS
  <2>1. ASSUME NEW S PROVE Kick(S)[k] \in {"leaving", "out"}
    BY DEF Kick, KickTarget
  <2> QED
    BY <2>1 DEF Next, Handshake, Leave, Receive, Authenticate, GetSession,
                UpsertSession, Loaded, WorldOverwrites, HandleResponse, Lose,
                TypeOK
<1> QED
  BY <1>1, TypeCorrect, PTL DEF Spec, LeavingStaysOut

=============================================================================
