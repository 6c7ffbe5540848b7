----------------------------- MODULE WorldFiles -----------------------------
(***************************************************************************)
(* The files of the world, and a game server that crashes.  The generator  *)
(* writes blocks.bin and then metadata.json, unless there is a metadata    *)
(* file; the server loads the metadata, maps the block file into memory    *)
(* and changes blocks there.  Writes of the process that crashes are not   *)
(* lost, those it has not made yet are.                                    *)
(*                                                                         *)
(* Of the map a few blocks are followed (Spots), one at each border of the *)
(* layers of a flat world.                                                 *)
(***************************************************************************)
EXTENDS Integers, Sequences, SequencesExt, FiniteSets

CONSTANTS
    Sizes,          \* configured sizes of the world: <<width, height, length>>
    MaxCrashes      \* bound: crashes of the server

WorldFilesAssumption ==
    /\ \A s \in Sizes : s \in Seq(Nat) /\ Len(s) = 3 /\ \A i \in 1 .. 3 : s[i] >= 10
    /\ MaxCrashes \in Nat

VARIABLES
    size,       \* of the world
    pc,         \* the server: "down", a step of its start, or "serve"
    blocks,     \* blocks.bin: its header bytes and the spots behind it
    metadata,   \* metadata.json
    loaded,     \* volume in the loaded metadata
    changes,    \* history: spots that were changed
    crashes,    \* bound: crashes so far
    torn        \* history: a crash left the metadata file empty

vars == <<size, pc, blocks, metadata, loaded, changes, crashes, torn>>

Volume == size[1] * size[2] * size[3]
Plane == size[1] * size[3]
Dirt == Plane * (size[2] \div 2)

Spots == {0, Plane, Dirt, Dirt + Plane, Volume - 1}

(* generate_flat_world: memset of dirt, of grass on it, of bedrock below. *)
FlatWorld(i) ==
    IF i < Plane THEN "bedrock"
    ELSE IF i < Dirt THEN "dirt"
    ELSE IF i < Dirt + Plane THEN "grass"
    ELSE "air"

(* htonl of the volume, through a stream in text mode: each newline byte   *)
(* becomes two.                                                            *)
NetworkOrder(n) == [i \in 1 .. 4 |-> (n \div 256 ^ (4 - i)) % 256]

InTextMode(bytes) ==
    FlattenSeq([i \in DOMAIN bytes |-> IF bytes[i] = 10 THEN <<13, 10>> ELSE <<bytes[i]>>])

NoFile == [made |-> FALSE, header |-> <<>>, cells |-> <<>>]

BlockKinds == {"bedrock", "dirt", "grass", "air", "changed"}

TypeOK ==
    /\ size \in Sizes
    /\ pc \in {"down", "blocks", "fill", "metadata", "write", "load", "serve"}
    /\ blocks.made \in BOOLEAN /\ blocks.header \in Seq(0 .. 255)
    /\ blocks.cells \in [Spots -> BlockKinds] \/ blocks.cells = <<>>
    /\ metadata \in {"absent", "empty", "whole"}
    /\ loaded \in {0, Volume} /\ changes \in SUBSET Spots
    /\ crashes \in Nat /\ torn \in BOOLEAN

Init ==
    /\ size \in Sizes
    /\ pc = "down" /\ blocks = NoFile /\ metadata = "absent"
    /\ loaded = 0 /\ changes = {} /\ crashes = 0 /\ torn = FALSE

----------------------------------------------------------------------------
(* create_world_if_not_exist *)
StartByBlocks ==    \* mutant: looks for the block file
    /\ pc = "down"
    /\ pc' = IF blocks.made THEN "load" ELSE "blocks"
    /\ UNCHANGED <<size, blocks, metadata, loaded, changes, crashes, torn>>

Start ==
    /\ pc = "down"
    /\ pc' = IF metadata # "absent" THEN "load" ELSE "blocks"
    /\ UNCHANGED <<size, blocks, metadata, loaded, changes, crashes, torn>>

(* create_block_file: opening empties the file, then it is written. *)
OpenBlocks ==
    /\ pc = "blocks" /\ pc' = "fill"
    /\ blocks' = [NoFile EXCEPT !.made = TRUE]
    /\ UNCHANGED <<size, metadata, loaded, changes, crashes, torn>>

FillBlocks ==
    /\ pc = "fill" /\ pc' = "metadata"
    /\ blocks' = [made |-> TRUE, header |-> InTextMode(NetworkOrder(Volume)),
                  cells |-> [i \in Spots |-> FlatWorld(i)]]
    /\ UNCHANGED <<size, metadata, loaded, changes, crashes, torn>>

(* create_metadata_file and proto_message_to_json_file *)
OpenMetadata ==
    /\ pc = "metadata" /\ pc' = "write"
    /\ metadata' = "empty"
    /\ UNCHANGED <<size, blocks, loaded, changes, crashes, torn>>

WriteMetadata ==
    /\ pc = "write" /\ pc' = "load"
    /\ metadata' = "whole"
    /\ UNCHANGED <<size, blocks, loaded, changes, crashes, torn>>

(* load_metadata: an empty file leaves the message as it was. *)
LoadWorld ==
    /\ pc = "load" /\ pc' = "serve"
    /\ loaded' = IF metadata = "whole" THEN Volume ELSE 0
    /\ UNCHANGED <<size, blocks, metadata, changes, crashes, torn>>

(* commit_block_changes in the mapped file. *)
HeaderSize == 4
ChangeBlock(i) ==
    /\ pc = "serve" /\ HeaderSize + i < loaded
    /\ blocks' = [blocks EXCEPT !.cells[i] = "changed"]
    /\ changes' = changes \cup {i}
    /\ UNCHANGED <<size, pc, metadata, loaded, crashes, torn>>

Crash ==
    /\ pc # "down" /\ crashes < MaxCrashes
    /\ pc' = "down" /\ crashes' = crashes + 1 /\ loaded' = 0
    /\ torn' = (torn \/ metadata = "empty")
    /\ UNCHANGED <<size, blocks, metadata, changes>>

Next ==
    \/ Start \/ OpenBlocks \/ FillBlocks \/ OpenMetadata \/ WriteMetadata \/ LoadWorld
    \/ \E i \in Spots : ChangeBlock(i)
    \/ Crash

Spec == Init /\ [][Next]_vars

----------------------------------------------------------------------------
(* Properties.                                                             *)

(* Whenever the server crashed before, it serves a whole world with every  *)
(* block that was changed, and nobody's changes are generated over; but a  *)
(* crash that leaves an empty metadata file makes a world without volume,  *)
(* for good.                                                               *)
WorldSurvives ==
    pc = "serve" =>
        IF torn THEN loaded = 0 /\ changes = {}
        ELSE /\ loaded = Volume
             /\ blocks.cells = [i \in Spots |-> IF i \in changes THEN "changed" ELSE FlatWorld(i)]

(* world_generator.cpp:36 "block data header (map volume)".  Not for a     *)
(* volume with a newline among its bytes.                                  *)
HeaderIsVolume == pc = "serve" /\ ~torn => blocks.header = NetworkOrder(Volume)

=============================================================================
