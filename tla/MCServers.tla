----------------------------- MODULE MCServers -----------------------------
(* Small instances of the parts that stand alone: the datagrams by which    *)
(* the servers find each other (directory), the threads that handle them    *)
(* (messages) and those that handle the completions of TCP (loop), the      *)
(* layout of the packets (codec), the commands of the chat server (command) *)
(* and the client of the load generator (bot).  They share no state, so a   *)
(* behaviour of this module is a behaviour of one of them (part).           *)
EXTENDS ServerDirectory, Integers

CONSTANTS
    Threads, Clients,                               \* messages
    Requests, MaxResults, MaxThrows, MaxRefusals,   \* loop, with Threads
    Base, ChunkSize, Numbers, Strings, MaxLevel,    \* codec
    Letters, CommandSize, NameSize,                 \* command
    PacketSize, Cut, MaxExtra                       \* bot

VARIABLES
    part,
    packet, data, got,
    command, buffer, scan, tokens, answer,
    state, worker, receive, rest, remain, sent, wire, parsed, late, blocks,
    role, inbox, datagrams, at, request, frames, replies, registered, logged, loggedOut,
    busy, inflight, cq, armed, iocp, thread, tcp, accepting, main, task, throws, refusals, lost

ShortPackets == [k \in {"handshake", "chunk", "finalize", "block", "disconnect"} |->
                   IF k \in {"handshake", "chunk"} THEN 3 ELSE 2]

(* Numbers at the edges of the fields' widths, in a base small enough for   *)
(* their carries; texts around the 64 characters of a string.               *)
SampleNumbers == <<-128, -8, -2, -1, 0, 1, 3, 7, 127, 30000>>
Text(n) == [i \in 1 .. n |-> IF i % 3 = 0 THEN " " ELSE "a"]
SampleStrings == LET n == <<0, 1, 3, 62, 63, 64, 65, 67>> IN [i \in DOMAIN n |-> Text(n[i])]

(* The servers whose addresses the game server fetches. *)
Fetched == <<"login", "chat">>

Codec == INSTANCE PacketCodec
Command == INSTANCE ChatCommand WITH Size <- CommandSize
Bot == INSTANCE ClientBot WITH Size <- PacketSize
Messages == INSTANCE MessageLoop WITH sent <- datagrams
Loop == INSTANCE EventLoop WITH server <- tcp

ASSUME ServersAssumption ==
    /\ DirectoryAssumption /\ Codec!CodecAssumption
    /\ Command!CommandAssumption /\ Bot!BotAssumption
    /\ Messages!MessageLoopAssumption /\ Loop!EventLoopAssumption

codecVars == <<packet, data, got>>
commandVars == <<command, buffer, scan, tokens, answer>>
botVars == <<state, worker, receive, rest, remain, sent, wire, parsed, late, blocks>>
messageVars == <<role, inbox, datagrams, at, request, frames, replies, registered,
                 logged, loggedOut>>
loopVars == <<busy, inflight, cq, armed, iocp, thread, tcp, accepting, main, task,
              throws, refusals, lost>>
allVars == <<part, directoryVars, codecVars, commandVars, botVars, messageVars, loopVars>>

ServersInit ==
    /\ part \in {"directory", "codec", "command", "bot", "messages", "loop"}
    /\ Init /\ Bot!Init /\ Loop!Init
    /\ IF part = "codec" THEN Codec!Init ELSE packet = <<>> /\ data = <<>> /\ got = <<>>
    /\ IF part = "command" THEN Command!Init
       ELSE command = <<>> /\ buffer = <<>> /\ scan = <<>> /\ tokens = <<>> /\ answer = <<>>
    /\ IF part = "messages" THEN Messages!Init
       ELSE /\ role = "" /\ inbox = {} /\ datagrams = {} /\ at = "" /\ request = <<>>
            /\ frames = {} /\ replies = <<>> /\ registered = {} /\ logged = {} /\ loggedOut = {}

OnDirectory(A) ==
    part = "directory" /\ A
    /\ UNCHANGED <<part, codecVars, commandVars, botVars, messageVars, loopVars>>
OnCodec(A) ==
    part = "codec" /\ A
    /\ UNCHANGED <<part, directoryVars, commandVars, botVars, messageVars, loopVars>>
OnCommand(A) ==
    part = "command" /\ A
    /\ UNCHANGED <<part, directoryVars, codecVars, botVars, messageVars, loopVars>>
OnBot(A) ==
    part = "bot" /\ A
    /\ UNCHANGED <<part, directoryVars, codecVars, commandVars, messageVars, loopVars>>
OnMessages(A) ==
    part = "messages" /\ A
    /\ UNCHANGED <<part, directoryVars, codecVars, commandVars, botVars, loopVars>>
OnLoop(A) ==
    part = "loop" /\ A
    /\ UNCHANGED <<part, directoryVars, codecVars, commandVars, botVars, messageVars>>

ServersNext ==
    \/ OnDirectory(Next) \/ OnCodec(Codec!Next)
    \/ OnCommand(Command!Next) \/ OnBot(Bot!Next)
    \/ OnMessages(Messages!Next) \/ OnLoop(Loop!Next)

(* The fairness of the directory and of the event threads, as FairSpec of   *)
(* ServerDirectory and of EventLoop states it.                              *)
ServersSpec ==
    /\ ServersInit /\ [][ServersNext]_allVars
    /\ \A s \in Servers :
         /\ WF_directoryVars(OnDirectory(Ask(s)))
         /\ WF_directoryVars(OnDirectory(Announce(s)))
         /\ SF_directoryVars(OnDirectory(ReadReply(s)))
         /\ SF_directoryVars(OnDirectory(RouterRegisters(s)))
         /\ SF_directoryVars(OnDirectory(RouterReplies(s)))
    /\ \A t \in Threads : WF_loopVars(OnLoop(Loop!ThreadStep(t)))
    /\ \A r \in Requests : WF_loopVars(OnLoop(Loop!Completes(r)))
    /\ WF_loopVars(OnLoop(Loop!MainRestarts)) /\ WF_loopVars(OnLoop(Loop!MainPosts))

----------------------------------------------------------------------------
(* The properties of the parts.                                             *)

(* The game server gets past its fetches. *)
ServersStart == part = "directory" => GameServerStarts
(* The router has everyone's current address in the end. *)
RouterKnowsAll == part = "directory" => RouterCatchesUp

(* A packet and a level are read as they were written. *)
RoundTrip == part = "codec" => Codec!RoundTrip

(* A direct message goes to the second word and carries the third. *)
MessageIsThirdWord == part = "command" => Command!MessageIsThirdWord

(* The client's state follows what the server sent. *)
StateFollowsServer == part = "bot" => Bot!StateFollowsServer

(* Every message is answered once, to its sender. *)
AnsweredOnce == part = "messages" => Messages!AnsweredOnce

(* The RIO notification is never lost or doubled. *)
OneNotification == part = "loop" => Loop!OneNotification
(* The accept event is posted once. *)
OneAccept == part = "loop" => Loop!OneAccept
(* What was posted is handled, but for what an exception cut off. *)
StuckOnlyByThrow == part = "loop" => Loop!StuckOnlyByThrow

=============================================================================
