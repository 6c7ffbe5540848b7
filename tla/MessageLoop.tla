---------------------------- MODULE MessageLoop ----------------------------
(***************************************************************************)
(* The UDP side of a server: event threads that read one datagram after    *)
(* the other into a MessageRequest of their own, the common and the        *)
(* server's own handlers, and the coroutines some of these handlers are.   *)
(* A coroutine runs in the handler's call up to its first database call;   *)
(* the thread then reads on into the same request, and the coroutine goes  *)
(* on in a thread of the database client.                                  *)
(*                                                                         *)
(* Each client sends one message.  What a message is about is its sender:  *)
(* the connection of a handshake, the user of a logout.                    *)
(***************************************************************************)
EXTENDS Naturals, Sequences, FiniteSets

CONSTANTS
    Threads,    \* event threads of the server
    Clients     \* senders

MessageLoopAssumption == IsFiniteSet(Threads) /\ IsFiniteSet(Clients)

VARIABLES
    role,       \* which server this is
    inbox,      \* datagrams not read yet
    sent,       \* all datagrams
    at,         \* per thread: in recvfrom, the common handlers or its own
    request,    \* per thread: the MessageRequest it reads into
    frames,     \* suspended coroutines
    replies,    \* replies sent, in order
    registered, \* announced servers
    logged,     \* users whose chat message is in the database
    loggedOut   \* users whose session was removed

vars == <<role, inbox, sent, at, request, frames, replies, registered, logged, loggedOut>>

Roles == {"game", "login", "chat", "router"}

(* The tables and switches of the four servers; server_announcement is in  *)
(* the table of the communicator, which every server has.                  *)
Handles == [
    game   |-> {"handshake_response"},
    login  |-> {"packet_handshake", "player_logout"},
    chat   |-> {"chat_message", "chat_command"},
    router |-> {"fetch_server_address"}]

Kinds == UNION {Handles[r] : r \in Roles} \cup {"server_announcement"}

Messages == [kind : Kinds, from : Clients]

(* The collections connect_collections prepares; the chat server never     *)
(* connects.                                                               *)
Connected(r) ==
    IF r \in {"chat", "router"} THEN {}
    ELSE {"player_login", "player_gamedata", "player_login_session"}

(* Database calls of a coroutine, by collection.                           *)
Calls == [
    handshake_response |-> <<"player_gamedata">>,
    packet_handshake   |-> <<"player_login", "player_login_session", "player_login_session">>,
    player_logout      |-> <<"player_login_session">>,
    chat_message       |-> <<"chat_message_common">>]

Coroutines == DOMAIN Calls

TypeOK ==
    /\ role \in Roles /\ sent \in SUBSET Messages /\ inbox \in SUBSET sent
    /\ at \in [Threads -> {"reading", "common", "app"}]
    /\ request \in [Threads -> Messages \cup {<<>>}]
    /\ frames \in SUBSET [copy : Messages, thread : Threads, calls : 1 .. 3]
    /\ replies \in Seq([to : Clients, about : Clients])
    /\ registered \in SUBSET Clients
    /\ logged \in SUBSET Clients /\ loggedOut \in SUBSET Clients

Init ==
    /\ role \in Roles
    /\ \E kinds \in [Clients -> Kinds] : sent = {[kind |-> kinds[c], from |-> c] : c \in Clients}
    /\ inbox = sent
    /\ at = [t \in Threads |-> "reading"]
    /\ request = [t \in Threads |-> <<>>]
    /\ frames = {} /\ replies = <<>>
    /\ registered = {} /\ logged = {} /\ loggedOut = {}

----------------------------------------------------------------------------
(* run_event_loop_forever, and the common handlers of UdpServer. *)
ReadMessage(t) ==
    /\ at[t] = "reading"
    /\ \E m \in inbox :
         /\ request' = [request EXCEPT ![t] = m]
         /\ inbox' = inbox \ {m}
    /\ at' = [at EXCEPT ![t] = "common"]
    /\ UNCHANGED <<role, sent, frames, replies, registered, logged, loggedOut>>

HandleCommonMessage(t) ==
    /\ at[t] = "common"
    /\ registered' = IF request[t].kind = "server_announcement"
                     THEN registered \cup {request[t].from} ELSE registered
    /\ at' = [at EXCEPT ![t] = "app"]
    /\ UNCHANGED <<role, inbox, sent, request, frames, replies, logged, loggedOut>>

----------------------------------------------------------------------------
(* A database call in a collection that is not connected throws out of     *)
(* await_suspend; the promise swallows it, and the coroutine has ended.    *)
Suspends(f) ==
    LET kind == f.copy.kind
    IN  f.calls <= Len(Calls[kind]) /\ Calls[kind][f.calls] \in Connected(role)

ReplyToThread(f) ==     \* mutant: the handler takes the thread's request
    request[f.thread].from

(* send_reply of the coroutine's own copy of the request.                  *)
ReplyTo(f) == f.copy.from

(* The end of a coroutine.  However handle_handshake_packet ends, its      *)
(* deferred send_response runs.                                            *)
Reply(f) ==
    replies' = IF f.copy.kind = "packet_handshake"
               THEN Append(replies, [to |-> ReplyTo(f), about |-> f.copy.from])
               ELSE replies

(* handle_message: a coroutine up to its first database call, or a plain   *)
(* handler.  handle_fetch_server_address answers when it knows the server. *)
HandleMessage(t) ==
    LET m == request[t]
        f == [copy |-> m, thread |-> t, calls |-> 1]
    IN  /\ at[t] = "app"
        /\ at' = [at EXCEPT ![t] = "reading"]
        /\ IF m.kind \notin Handles[role] THEN UNCHANGED <<frames, replies>>
           ELSE IF m.kind \in Coroutines /\ Suspends(f)
                THEN frames' = frames \cup {f} /\ UNCHANGED replies
           ELSE /\ frames' = frames
                /\ replies' = IF m.kind = "fetch_server_address" /\ registered # {}
                              THEN Append(replies, [to |-> m.from, about |-> m.from])
                              ELSE replies
        /\ UNCHANGED <<role, inbox, sent, request, registered, logged, loggedOut>>

(* A call's result resumes its coroutine: it makes the next call, or ends  *)
(* (an error, a missing document, a wrong password, or the last call).     *)
Resume(f) ==
    LET next == [f EXCEPT !.calls = @ + 1]
    IN  /\ \/ /\ Suspends(next)
              /\ frames' = (frames \ {f}) \cup {next}
              /\ UNCHANGED replies
           \/ /\ frames' = frames \ {f}
              /\ Reply(f)
        /\ loggedOut' = IF f.copy.kind = "player_logout" THEN loggedOut \cup {f.copy.from}
                        ELSE loggedOut
        /\ logged' = IF f.copy.kind = "chat_message" THEN logged \cup {f.copy.from} ELSE logged
        /\ UNCHANGED <<role, inbox, sent, at, request, registered>>

Next ==
    \/ \E t \in Threads : ReadMessage(t) \/ HandleCommonMessage(t) \/ HandleMessage(t)
    \/ \E f \in frames : Resume(f)

Spec == Init /\ [][Next]_vars

----------------------------------------------------------------------------
(* Properties.                                                             *)

(* No thread, datagram or coroutine has to do with it any more. *)
Handled(m) ==
    /\ m \notin inbox
    /\ \A t \in Threads : request[t] = m => at[t] = "reading"
    /\ \A f \in frames : f.copy # m

(* login_server.h:26 "it need to copy MessageRequest to reply handshake    *)
(* results": a reply goes to the client whose message it answers, although *)
(* the thread has read other messages meanwhile, and every handshake that  *)
(* was handled, in whatever way, has one reply.                            *)
AnsweredOnce ==
    /\ \A i \in DOMAIN replies : replies[i].to = replies[i].about
    /\ \A m \in sent :
         role = "login" /\ m.kind = "packet_handshake" /\ Handled(m) =>
           Cardinality({i \in DOMAIN replies : replies[i].about = m.from}) = 1

(* chat_server.cpp:43 "if common chat just logging."  The collection it    *)
(* inserts into is never connected.                                        *)
CommonChatIsLogged ==
    \A m \in sent :
        role = "chat" /\ m.kind = "chat_message" /\ Handled(m) => m.from \in logged

=============================================================================
