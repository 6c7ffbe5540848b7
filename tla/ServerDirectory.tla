-------------------------- MODULE ServerDirectory --------------------------
(***************************************************************************)
(* How the servers find each other.  The router keeps the configuration    *)
(* files and a table of addresses in memory; every server fetches its      *)
(* configuration from it before it starts, announces its address to it     *)
(* every five seconds, and the game server also fetches the addresses of   *)
(* the others, once, before it starts.  All of this is UDP: what is        *)
(* fetched is asked for again every three seconds, on a socket of its own  *)
(* for each fetch, what is announced is lost until the next announcement.  *)
(*                                                                         *)
(* An address is <<server, version>>: the version of its configuration     *)
(* file.                                                                   *)
(***************************************************************************)
EXTENDS Naturals, Sequences, FiniteSets

CONSTANTS
    Game,       \* the game server
    Others,     \* the servers whose addresses it fetches, in their order
    MaxChanges  \* bound: configuration files edited, servers restarted

OtherServers == {Others[i] : i \in DOMAIN Others}
Servers == {Game} \cup OtherServers

DirectoryAssumption ==
    /\ Others \in Seq(Servers) /\ Game \notin OtherServers
    /\ MaxChanges \in Nat

VARIABLES
    file,       \* version of each configuration file of the router
    table,      \* _servers of the router; <<s, 0>> has no port
    server,     \* Servers -> fetches done, incarnation, whether a request is
                \* out, own address
    known,      \* _servers of the game server
    net,        \* datagrams under way
    announced,  \* addresses servers have announced (history)
    changes

directoryVars == <<file, table, server, known, net, announced, changes>>

Versions == 1 .. MaxChanges + 1
Unknown(s) == <<s, 0>>

(* What a server fetches before it starts. *)
Fetches(s) == IF s = Game THEN <<Game>> \o Others ELSE <<s>>
Up(s) == server[s].done = Len(Fetches(s))
Wanted(s) == Fetches(s)[server[s].done + 1]
Kind(s) == IF server[s].done = 0 THEN "config" ELSE "address"

(* send_message_reliably: a socket per call. *)
SharedSocket(s) == <<s, 0, 0>>  \* mutant: the server's own socket
Socket(s) == <<s, server[s].life, server[s].done>>

Started == [done |-> 0, life |-> 0, asked |-> FALSE, address |-> 0]

Init ==
    /\ file = [s \in Servers |-> 1]
    /\ table = [s \in Servers |-> Unknown(s)]
    /\ server = [s \in Servers |-> Started]
    /\ known = [s \in OtherServers |-> Unknown(s)]
    /\ net = {} /\ announced = {}
    /\ changes = 0

(* A datagram for a socket that was closed reaches nobody; nor will the    *)
(* answer to a request from one.                                           *)
Reachable(datagrams) ==
    {m \in datagrams : m.type = "announce" \/ m.socket = Socket(m.socket[1])'}

----------------------------------------------------------------------------
(* fetch_config and fetch_server_address: send, wait three seconds for a   *)
(* reply, send again, for as long as it takes.                             *)
AskOnce(s) ==   \* mutant: no retry
    /\ ~Up(s) /\ ~server[s].asked
    /\ net' = net \cup {[type |-> Kind(s), of |-> Wanted(s), socket |-> Socket(s)]}
    /\ server' = [server EXCEPT ![s].asked = TRUE]
    /\ UNCHANGED <<file, table, known, announced, changes>>

Ask(s) ==
    /\ ~Up(s)
    /\ net' = net \cup {[type |-> Kind(s), of |-> Wanted(s), socket |-> Socket(s)]}
    /\ server' = [server EXCEPT ![s].asked = TRUE]
    /\ UNCHANGED <<file, table, known, announced, changes>>

(* The reply is read from the socket of the call, whatever it is about.    *)
ReadReply(s) ==
    \E m \in net :
        /\ ~Up(s) /\ server[s].asked
        /\ m.type = "reply" /\ m.socket = Socket(s)
        /\ IF Kind(s) = "config"
           THEN /\ server' = [server EXCEPT ![s].done = @ + 1, ![s].asked = FALSE,
                                            ![s].address = m.address[2]]
                /\ known' = known
           ELSE /\ server' = [server EXCEPT ![s].done = @ + 1, ![s].asked = FALSE]
                /\ known' = [known EXCEPT ![Wanted(s)] = m.address]
        /\ net' = Reachable(net \ {m})
        /\ UNCHANGED <<file, table, announced, changes>>

(* announce_server, an interval task *)
Announce(s) ==
    LET address == <<s, server[s].address>> IN
    /\ Up(s)
    /\ net' = net \cup {[type |-> "announce", address |-> address]}
    /\ announced' = announced \cup {address}
    /\ UNCHANGED <<file, table, server, known, changes>>

----------------------------------------------------------------------------
(* The router: handle_server_announcement, ...                             *)
RouterRegistersOnce(s) ==   \* mutant: the first announcement stays
    \E m \in net :
        /\ m.type = "announce" /\ m.address[1] = s
        /\ net' = net \ {m}
        /\ table' = [table EXCEPT ![s] = IF @ = Unknown(s) THEN m.address ELSE @]
        /\ UNCHANGED <<file, server, known, announced, changes>>

RouterRegisters(s) ==
    \E m \in net :
        /\ m.type = "announce" /\ m.address[1] = s
        /\ net' = net \ {m}
        /\ table' = [table EXCEPT ![s] = m.address]
        /\ UNCHANGED <<file, server, known, announced, changes>>

(* ... handle_fetch_config, which reads the file, and                      *)
(* handle_fetch_server_address, which does not answer for a server that    *)
(* has no port yet.                                                        *)
Reply(m, address) ==
    net' = (net \ {m}) \cup {[type |-> "reply", socket |-> m.socket, address |-> address]}

Answers(s) == table[s] # Unknown(s)

RouterReplies(s) ==
    \E m \in net :
        /\ m.type \in {"config", "address"} /\ m.socket[1] = s
        /\ IF m.type = "config" THEN Reply(m, <<m.of, file[m.of]>>)
           ELSE IF Answers(m.of) THEN Reply(m, table[m.of]) ELSE net' = net \ {m}
        /\ UNCHANGED <<file, table, server, known, announced, changes>>

(* The network loses a datagram (external); one that arrives twice is like *)
(* one that was sent twice.                                                *)
Lose == \E m \in net : net' = net \ {m}
                       /\ UNCHANGED <<file, table, server, known, announced, changes>>

(* An operator restarts the router, which forgets its table, edits a file, *)
(* or restarts a server.                                                   *)
Change == changes < MaxChanges /\ changes' = changes + 1

RouterRestarts ==
    /\ Change
    /\ table' = [s \in Servers |-> Unknown(s)]
    /\ UNCHANGED <<file, server, known, net, announced>>

ServerMoves(s) ==
    /\ Change /\ Up(s)
    /\ file' = [file EXCEPT ![s] = @ + 1]
    /\ server' = [server EXCEPT ![s] = [Started EXCEPT !.life = server[s].life + 1]]
    /\ net' = Reachable(net)
    /\ known' = IF s = Game THEN [o \in OtherServers |-> Unknown(o)] ELSE known
    /\ UNCHANGED <<table, announced>>

Operate == RouterRestarts \/ \E s \in Servers : ServerMoves(s)

Next ==
    \/ \E s \in Servers : \/ Ask(s) \/ ReadReply(s) \/ Announce(s)
                          \/ RouterRegisters(s) \/ RouterReplies(s)
    \/ Lose \/ Operate

Spec == Init /\ [][Next]_directoryVars

(* A server goes on asking and announcing, and the network does not lose   *)
(* what is sent again and again.                                           *)
FairSpec ==
    /\ Spec
    /\ \A s \in Servers :
         /\ WF_directoryVars(Ask(s)) /\ WF_directoryVars(Announce(s))
         /\ SF_directoryVars(ReadReply(s))
         /\ SF_directoryVars(RouterRegisters(s)) /\ SF_directoryVars(RouterReplies(s))

----------------------------------------------------------------------------
(* Properties.                                                             *)

(* Tables and servers keep their shape.                                    *)
TypeOK ==
    /\ file \in [Servers -> Versions]
    /\ \A s \in Servers : table[s] \in {s} \X (0 .. MaxChanges + 1)
    /\ server \in [Servers -> [done : 0 .. Len(Others) + 1, life : 0 .. MaxChanges,
                               asked : BOOLEAN, address : 0 .. MaxChanges + 1]]
    /\ changes \in 0 .. MaxChanges

(* What the game server knows of a server that server has announced as its *)
(* own address, whatever was lost, repeated or late, and although the      *)
(* reply's type is not looked at: never an empty address or another's.     *)
LearnedWasAnnounced ==
    \A s \in OtherServers :
        known[s] # Unknown(s) \/ Up(Game) => known[s][1] = s /\ known[s] \in announced

(* The game server gets past its fetches, in whatever order the servers    *)
(* are started and although every datagram may be lost.                    *)
GameServerStarts == []<>Up(Game)

(* The router has the current address of each server in the end, through   *)
(* restarts of both and late announcements.                                *)
RouterCatchesUp ==
    <>[](\A s \in Servers : table[s] = <<s, file[s]>>)

=============================================================================
