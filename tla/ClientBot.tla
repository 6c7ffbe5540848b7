----------------------------- MODULE ClientBot -----------------------------
(***************************************************************************)
(* A bot of the load generator in the random block scenario: a worker      *)
(* thread looks at the state of the bot, sends and sets the state, while   *)
(* an I/O thread goes through what the server sends, which is cut          *)
(* anywhere, keeps no byte of it, and sets the state too.                  *)
(***************************************************************************)
EXTENDS Integers, Sequences

CONSTANTS
    Size,       \* of the packets the server sends
    Cut,        \* bytes that one receive takes at most
    MaxExtra    \* bound: packets the server sends behind the level

BotAssumption ==
    /\ Size \in [{"handshake", "chunk", "finalize", "block", "disconnect"} -> Nat \ {0}]
    /\ Cut \in Nat \ {0} /\ MaxExtra \in Nat

VARIABLES
    state,      \* ClientState
    worker,     \* where the scenario's thread is with this bot
    receive,    \* none, posted, parsing
    rest,       \* data_begin .. data_end
    remain,     \* remain_packet_size
    sent,       \* packets the server has sent
    wire,       \* bytes of them under way
    parsed,     \* first bytes the bot has looked at (history)
    late,       \* set_state overwrote what the I/O thread had set (history)
    blocks      \* the bot has sent a block

botVars == <<state, worker, receive, rest, remain, sent, wire, parsed, late, blocks>>

(* ClientState, in its order *)
Error            == 0
Initialized      == 1
Connected        == 2
Requested        == 3   \* Handshake_Requested
Completed        == 4   \* Handshake_Completed
LevelInitialized == 5   \* Level_Initialized

Init ==
    /\ state = Initialized /\ worker = "away"
    /\ receive = "none" /\ rest = <<>> /\ remain = 0
    /\ sent = <<>> /\ wire = <<>> /\ parsed = <<>>
    /\ late = FALSE /\ blocks = FALSE

(* The connect event completes. *)
Connect ==
    /\ state = Initialized
    /\ state' = Connected /\ receive' = "posted"
    /\ UNCHANGED <<worker, rest, remain, sent, wire, parsed, late, blocks>>

----------------------------------------------------------------------------
(* RandomBlockScenario::start: a bot that is connected sends its           *)
(* handshake; what has arrived by the time of set_state is overwritten.    *)
SendHandshake ==
    /\ worker = "away" /\ state = Connected
    /\ worker' = "sent"
    /\ UNCHANGED <<state, receive, rest, remain, sent, wire, parsed, late, blocks>>

SetRequested ==
    /\ worker = "sent"
    /\ state' = Requested /\ late' = (late \/ state # Connected)
    /\ worker' = "away"
    /\ UNCHANGED <<receive, rest, remain, sent, wire, parsed, blocks>>

SendBlock ==
    /\ worker = "away" /\ state = LevelInitialized /\ ~blocks
    /\ blocks' = TRUE
    /\ UNCHANGED <<state, worker, receive, rest, remain, sent, wire, parsed, late>>

(* The server answers a handshake with its own, sends the level, then      *)
(* blocks, and ends with a reason (external).                              *)
Offer ==
    IF sent = <<>> THEN IF worker = "sent" \/ state > Connected THEN {"handshake"} ELSE {}
    ELSE CASE sent[Len(sent)] = "handshake" -> {"chunk", "disconnect"}
           [] sent[Len(sent)] = "chunk"     -> {"finalize"}
           [] sent[Len(sent)] = "disconnect" -> {}
           [] OTHER -> IF Len(sent) < 3 + MaxExtra THEN {"block", "disconnect"} ELSE {}

ServerSends(kind) ==
    /\ kind \in Offer
    /\ sent' = Append(sent, kind)
    /\ wire' = wire \o [j \in 1 .. Size[kind] |-> <<Len(sent) + 1, j>>]
    /\ UNCHANGED <<state, worker, receive, rest, remain, parsed, late, blocks>>

----------------------------------------------------------------------------
(* handle_io_event: skip what is left of a packet that was cut ...         *)
Skip(n, length) == IF n < length THEN n ELSE length

Receive(n) ==
    /\ receive = "posted" /\ n \in 1 .. Len(wire) /\ n <= Cut
    /\ receive' = "parsing"
    /\ rest' = SubSeq(wire, Skip(remain, n) + 1, n)
    /\ remain' = remain - Skip(remain, n)
    /\ wire' = SubSeq(wire, n + 1, Len(wire))
    /\ UNCHANGED <<state, worker, sent, parsed, late, blocks>>

(* ... and then go by the id of each packet, which counts as soon as its   *)
(* first byte is there.                                                    *)
StateAfter(kind) ==
    CASE kind = "handshake"  -> Completed
      [] kind = "finalize"   -> LevelInitialized
      [] kind = "disconnect" -> Error
      [] OTHER               -> state

ParseWhole ==   \* mutant: the state waits for the whole packet
    LET kind == sent[rest[1][1]]
        here == Skip(Size[kind], Len(rest))
    IN  /\ receive = "parsing" /\ remain = 0 /\ rest # <<>>
        /\ parsed' = Append(parsed, rest[1])
        /\ remain' = Size[kind] - here
        /\ rest' = SubSeq(rest, here + 1, Len(rest))
        /\ state' = IF here = Size[kind] THEN StateAfter(kind) ELSE state
        /\ UNCHANGED <<worker, receive, sent, wire, late, blocks>>

ParsePacket ==
    LET kind == sent[rest[1][1]]
        here == Skip(Size[kind], Len(rest))
    IN  /\ receive = "parsing" /\ remain = 0 /\ rest # <<>>
        /\ parsed' = Append(parsed, rest[1])
        /\ remain' = Size[kind] - here
        /\ rest' = SubSeq(rest, here + 1, Len(rest))
        /\ state' = StateAfter(kind)
        /\ UNCHANGED <<worker, receive, sent, wire, late, blocks>>

(* on_complete: the next receive, unless the bot has failed                *)
ReceiveEnds ==
    /\ receive = "parsing" /\ (remain > 0 \/ rest = <<>>)
    /\ receive' = IF state # Error THEN "posted" ELSE "none"
    /\ UNCHANGED <<state, worker, rest, remain, sent, wire, parsed, late, blocks>>

Next ==
    \/ Connect \/ SendHandshake \/ SetRequested \/ SendBlock
    \/ \E kind \in DOMAIN Size : ServerSends(kind)
    \/ \E n \in 1 .. Cut : Receive(n)
    \/ ParsePacket \/ ReceiveEnds

Spec == Init /\ [][Next]_botVars

----------------------------------------------------------------------------
(* Properties.                                                             *)

(* The state follows the last packet that changes it, unless set_state     *)
(* came after that packet: then a bot that has the level still waits for   *)
(* its handshake, and sends no block.                                      *)
Means == [handshake |-> Completed, finalize |-> LevelInitialized, disconnect |-> Error]
Deciding == {k \in DOMAIN parsed : sent[k] \in DOMAIN Means}
StateFollowsServer ==
    Deciding # {} /\ ~late =>
        \E k \in Deciding : (\A j \in Deciding : j <= k) /\ state = Means[sent[k]]

=============================================================================
