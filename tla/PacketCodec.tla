---------------------------- MODULE PacketCodec ----------------------------
(***************************************************************************)
(* The packets as bytes: what serialize writes, what parse reads, and the  *)
(* sizes that protocol_db and the buffers go by.  A number is written in   *)
(* digits, the most significant first, a string padded with blanks to its  *)
(* full length.  The level is the one packet of variable length: the       *)
(* compressed map cut into chunks, and the finalization behind them.       *)
(*                                                                         *)
(* Base stands for 256, ChunkSize for 1024; a string keeps its 64 places.  *)
(***************************************************************************)
EXTENDS Integers, Sequences, SequencesExt

CONSTANTS
    Base,           \* values of a byte
    ChunkSize,      \* chunk_size of the level
    Numbers,        \* numbers and strings put into packets
    Strings,
    MaxLevel        \* bound: length of the compressed level

CodecAssumption ==
    /\ Base \in Nat \ {0, 1} /\ ChunkSize \in Nat \ {0} /\ MaxLevel \in Nat
    /\ Numbers \in Seq(Int)
    /\ Strings \in Seq(Seq(STRING)) /\ Strings # <<>>

VARIABLES
    packet,     \* the packet to send: its kind and its fields
    data,       \* its bytes
    got         \* the fields the receiver reads

codecVars == <<packet, data, got>>

StringLength == 64
Blank == " "

(* f, and g where f is not defined.                                        *)
Joined(f, g) == [x \in DOMAIN f \cup DOMAIN g |-> IF x \in DOMAIN f THEN f[x] ELSE g[x]]

----------------------------------------------------------------------------
(* The structs of packet.h: their packet_size, and the width of each field. *)
(* A union (user name and server name, password and motd) is one field.    *)
SessionStructs == [
    handshake         |-> [size |-> 131, fields |-> [version |-> "byte", name |-> "string",
                                                     motd |-> "string", flag |-> "byte"]],
    ping              |-> [size |-> 1, fields |-> <<>>],
    level_initialize  |-> [size |-> 1, fields |-> <<>>],
    set_block_client  |-> [size |-> 9, fields |-> [x |-> "short", y |-> "short", z |-> "short",
                                                   mode |-> "byte", block_id |-> "byte"]],
    set_block_server  |-> [size |-> 8, fields |-> [x |-> "short", y |-> "short", z |-> "short",
                                                   block_id |-> "byte"]]]

PlayerStructs == [
    set_player_position |-> [size |-> 10, fields |->
        [player_id |-> "byte", x |-> "short", y |-> "short", z |-> "short",
         yaw |-> "byte", pitch |-> "byte"]],
    spawn_player      |-> [size |-> 74, fields |->
        [player_id |-> "byte", name |-> "string", x |-> "short", y |-> "short", z |-> "short",
         yaw |-> "byte", pitch |-> "byte"]],
    despawn_player    |-> [size |-> 2, fields |-> [player_id |-> "byte"]],
    chat_message      |-> [size |-> 66, fields |-> [player_id |-> "byte", message |-> "string"]],
    disconnect_player |-> [size |-> 65, fields |-> [reason |-> "string"]],
    set_playerid      |-> [size |-> 2, fields |-> [player_id |-> "byte"]]]

ExtensionStructs == [
    ext_info          |-> [size |-> 67, fields |-> [name |-> "string", count |-> "short"]],
    ext_entry         |-> [size |-> 69, fields |-> [name |-> "string", version |-> "int"]],
    ext_message       |-> [size |-> 66, fields |-> [type |-> "byte", message |-> "string"]],
    ext_ping          |-> [size |-> 9, fields |-> [request_time |-> "uint64"]]]

(* Relative moves have no struct; the sizes are what a client reads.       *)
MoveStructs == [
    update_player_position    |-> [size |-> 7, fields |->
        [player_id |-> "byte", x |-> "sbyte", y |-> "sbyte", z |-> "sbyte",
         yaw |-> "byte", pitch |-> "byte"]],
    update_player_coordinate  |-> [size |-> 5, fields |->
        [player_id |-> "byte", x |-> "sbyte", y |-> "sbyte", z |-> "sbyte"]],
    update_player_orientation |-> [size |-> 4, fields |->
        [player_id |-> "byte", yaw |-> "byte", pitch |-> "byte"]]]

Structs ==
    Joined(Joined(SessionStructs, PlayerStructs), Joined(ExtensionStructs, MoveStructs))

Kinds == DOMAIN Structs

(* The order in which each serialize writes the fields behind the id.      *)
SessionOrder == [
    handshake         |-> <<"version", "name", "motd", "flag">>,
    ping              |-> <<>>,
    level_initialize  |-> <<>>]

BlockOrder == [
    set_block_client  |-> <<"x", "y", "z", "mode", "block_id">>,
    set_block_server  |-> <<"x", "y", "z", "block_id">>]

PositionOrder == [
    set_player_position       |-> <<"player_id", "x", "y", "z", "yaw", "pitch">>,
    update_player_position    |-> <<"player_id", "x", "y", "z", "yaw", "pitch">>,
    update_player_coordinate  |-> <<"player_id", "x", "y", "z">>,
    update_player_orientation |-> <<"player_id", "yaw", "pitch">>]

SpawnOrder == [
    spawn_player      |-> <<"player_id", "name", "x", "y", "z", "yaw", "pitch">>,
    despawn_player    |-> <<"player_id">>]

TextOrder == [
    chat_message      |-> <<"player_id", "message">>,
    disconnect_player |-> <<"reason">>,
    set_playerid      |-> <<"player_id">>]

ExtensionOrder == [
    ext_info          |-> <<"name", "count">>,
    ext_entry         |-> <<"name", "version">>,
    ext_message       |-> <<"type", "message">>,
    ext_ping          |-> <<"request_time">>]

WriteOrder ==
    Joined(Joined(SessionOrder, Joined(BlockOrder, PositionOrder)),
           Joined(SpawnOrder, Joined(TextOrder, ExtensionOrder)))

(* The order in which the server's parse functions read them.              *)
SwappedParseOrder == [  \* mutant: yaw and pitch change places
    handshake           |-> <<"version", "name", "motd", "flag">>,
    ping                |-> <<>>,
    set_block_client    |-> <<"x", "y", "z", "mode", "block_id">>,
    set_player_position |-> <<"player_id", "x", "y", "z", "pitch", "yaw">>,
    chat_message        |-> <<"player_id", "message">>]

ParseOrder == [
    handshake           |-> <<"version", "name", "motd", "flag">>,
    ping                |-> <<>>,
    set_block_client    |-> <<"x", "y", "z", "mode", "block_id">>,
    set_player_position |-> <<"player_id", "x", "y", "z", "yaw", "pitch">>,
    chat_message        |-> <<"player_id", "message">>]

ParseExtensionOrder == [
    ext_info  |-> <<"name", "count">>,
    ext_entry |-> <<"name", "version">>,
    ext_ping  |-> <<"request_time">>]

ReadOrder == Joined(Joined(ParseOrder, ParseExtensionOrder), WriteOrder)

(* protocol_db: by how many bytes parse_packet moves the server on.  (The  *)
(* two-way ping in it has no parser and is left out.)                      *)
ProtocolKinds == DOMAIN ParseOrder \cup DOMAIN ParseExtensionOrder

ProtocolDb == [kind \in ProtocolKinds |-> Structs[kind].size]

Width(type) ==
    CASE type \in {"byte", "sbyte"} -> 1
      [] type = "short"  -> 2
      [] type = "int"    -> 4
      [] type = "uint64" -> 8
      [] type = "string" -> StringLength

Signed(type) == type \in {"sbyte", "short", "int"}

----------------------------------------------------------------------------
(* How many values n bytes have.                                           *)
Power[n \in 0 .. 8] == IF n = 0 THEN 1 ELSE Base * Power[n - 1]

(* write_byte, write_short, write_int, write_uint64: byteswap, store, move *)
(* on; a value keeps its width.                                            *)
WriteNumber(value, n) ==
    [i \in 1 .. n |-> (value \div Power[n - i]) % Base]

(* write_string: memcpy of what fits, memset of the rest.                  *)
WriteString(str) ==
    [i \in 1 .. StringLength |-> IF i <= Len(str) THEN str[i] ELSE Blank]

WriteField(type, value) ==
    IF type = "string" THEN WriteString(value) ELSE WriteNumber(value, Width(type))

Write(p) ==
    LET order == WriteOrder[p.kind]
    IN  <<p.kind>> \o FlattenSeq([i \in DOMAIN order |->
            WriteField(Structs[p.kind].fields[order[i]], p.fields[order[i]])])

(* read_scalar: load, byteswap, move on.                                   *)
ReadUnsigned(bytes) ==
    LET number[i \in 0 .. Len(bytes)] == IF i = 0 THEN 0 ELSE number[i - 1] * Base + bytes[i]
    IN  number[Len(bytes)]

ReadNumber(type, bytes) ==
    LET n == ReadUnsigned(bytes)
        all == Power[Len(bytes)]
    IN  IF Signed(type) /\ 2 * n >= all THEN n - all ELSE n

(* read_string: the view ends behind the last byte that is no blank.       *)
ReadString(bytes) ==
    LET ends == {n \in 0 .. Len(bytes) : n = 0 \/ bytes[n] # Blank}
    IN  SubSeq(bytes, 1, CHOOSE n \in ends : \A m \in ends : m <= n)

(* Where field i of a packet begins: the fields before it have moved the   *)
(* pointer on.                                                             *)
Offset(kind, i) ==
    LET begin[j \in 1 .. i] ==
            IF j = 1 THEN 1
            ELSE begin[j - 1] + Width(Structs[kind].fields[ReadOrder[kind][j - 1]])
    IN  begin[i]

Place(kind, name) == CHOOSE i \in DOMAIN ReadOrder[kind] : ReadOrder[kind][i] = name

Read(bytes) ==
    LET kind == bytes[1]
    IN  [name \in DOMAIN Structs[kind].fields |->
            LET type == Structs[kind].fields[name]
                begin == Offset(kind, Place(kind, name))
                field == SubSeq(bytes, begin + 1, begin + Width(type))
            IN  IF type = "string" THEN ReadString(field) ELSE ReadNumber(type, field)]

----------------------------------------------------------------------------
(* PacketLevelDataChunk.  The compressor delivers ChunkSize bytes at a     *)
(* time into the place behind a chunk's header and tells how much of it    *)
(* is unused; when all is, the level is complete.  Nothing fills the       *)
(* unused part of the last chunk: when the loop ends, remain_bytes is that *)
(* of the call that delivered nothing.                                     *)
Stream(n) == [i \in 1 .. n |-> <<"block", i>>]
Junk == <<"uninitialized">>

ChunkCount(n) == (n + ChunkSize - 1) \div ChunkSize

ChunkLength(n, k) ==
    IF k * ChunkSize <= n THEN ChunkSize ELSE n - (k - 1) * ChunkSize

Chunk(n, k) ==
    <<"level_datachunk", ChunkLength(n, k)>>
      \o [i \in 1 .. ChunkSize |-> IF i <= ChunkLength(n, k)
                                   THEN Stream(n)[(k - 1) * ChunkSize + i] ELSE Junk]
      \o <<0>>

WriteLevel(n) ==
    FlattenSeq([k \in 1 .. ChunkCount(n) |-> Chunk(n, k)]) \o <<"level_finalize">>

(* A client puts the chunks together (external).                           *)
ChunkCells == ChunkSize + 3
ReadLevel(cells) ==
    LET count == Len(cells) \div ChunkCells
        chunk(k) == SubSeq(cells, (k - 1) * ChunkCells + 1, k * ChunkCells)
    IN  FlattenSeq([k \in 1 .. count |-> SubSeq(chunk(k), 3, 2 + chunk(k)[2])])

----------------------------------------------------------------------------
(* The k-th sample of a field's type. *)
Sample(type, k) ==
    LET all == Power[Width(type)]
        number == Numbers[k]
    IN  IF type = "string" THEN Strings[1 + (k % Len(Strings))]
        ELSE IF Signed(type) THEN ((number + (all \div 2)) % all) - (all \div 2)
        ELSE number % all

(* Two samples take turns over the fields. *)
Init ==
    /\ \/ \E n \in 0 .. MaxLevel : packet = [kind |-> "level", fields |-> Stream(n)]
       \/ \E kind \in Kinds : \E j, k \in DOMAIN Numbers :
            packet = [kind |-> kind, fields |->
                        [name \in DOMAIN Structs[kind].fields |->
                            Sample(Structs[kind].fields[name],
                                   IF Place(kind, name) % 2 = 1 THEN j ELSE k)]]
    /\ data = <<>> /\ got = <<>>

Serialize ==
    /\ data = <<>>
    /\ data' = IF packet.kind = "level" THEN WriteLevel(Len(packet.fields)) ELSE Write(packet)
    /\ UNCHANGED <<packet, got>>

Parse ==
    /\ data # <<>> /\ got = <<>>
    /\ got' = <<IF packet.kind = "level" THEN ReadLevel(data) ELSE Read(data)>>
    /\ UNCHANGED <<packet, data>>

Next == Serialize \/ Parse

Spec == Init /\ [][Next]_codecVars

----------------------------------------------------------------------------
(* Properties.                                                             *)

(* A string as the receiver may expect it: at most 64 characters, and no   *)
(* blanks at its end.                                                      *)
IsTextOf(view, str) ==
    LET cut == SubSeq(str, 1, IF Len(str) < StringLength THEN Len(str) ELSE StringLength)
    IN  /\ IsPrefix(view, cut)
        /\ view = <<>> \/ Last(view) # Blank
        /\ \A i \in Len(view) + 1 .. Len(cut) : cut[i] = Blank

(* What parse reads is what was put into the packet: numbers at both ends  *)
(* of their range keep their sign, the fields behind a string of any       *)
(* length are found, the receiver's packet_size leads to the next packet,  *)
(* and the chunks make up the compressed level.                            *)
RoundTrip ==
    got # <<>> =>
        IF packet.kind = "level" THEN got[1] = packet.fields
        ELSE /\ Len(data) = IF packet.kind \in ProtocolKinds THEN ProtocolDb[packet.kind]
                            ELSE Structs[packet.kind].size
             /\ \A name \in DOMAIN packet.fields :
                  IF Structs[packet.kind].fields[name] = "string"
                  THEN IsTextOf(got[1][name], packet.fields[name])
                  ELSE got[1][name] = packet.fields[name]

(* packet.cpp:227 "add null padding".  The code adds none.                 *)
ChunksArePadded ==
    packet.kind = "level" /\ data # <<>> =>
        \A k \in 1 .. ChunkCount(Len(packet.fields)) : \A i \in 1 .. ChunkSize :
            data[(k - 1) * ChunkCells + 2 + i] # Junk

=============================================================================
