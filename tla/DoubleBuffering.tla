-------------------------- MODULE DoubleBuffering --------------------------
(***************************************************************************)
(* util::DoubleBuffering, the buffer behind the block history and the      *)
(* common chat history of the world.  Packet handlers push records on I/O  *)
(* threads; the main loop turns the input buffer into the output buffer    *)
(* (snapshot), a worker reads the output buffer and clears it.             *)
(*                                                                         *)
(* Every access is a relaxed atomic of its own and nothing ties them       *)
(* together: push loads input_buf_index, adds to that buffer's size, and   *)
(* then copies, or takes the addition back when the buffer is full.  Sizes *)
(* and offsets are counted in records.                                     *)
(***************************************************************************)
EXTENDS Integers, FiniteSets

CONSTANTS
    Writers,    \* threads that run packet handlers
    Capacity,   \* records a buffer holds
    SizeMod,    \* values of buf_size, a size_t, counted in records
    MaxRecords  \* bound: records pushed in a behaviour

BufferingAssumption ==
    /\ Capacity \in Nat \ {0}
    /\ IsFiniteSet(Writers)
    /\ SizeMod \in Nat /\ SizeMod > 2 * (Capacity + Cardinality(Writers))
    /\ MaxRecords \in Nat

VARIABLES
    input,      \* input_buf_index
    size,       \* 0 .. 1 -> buf_size
    slots,      \* 0 .. 1 -> records in buf
    pusher,     \* Writers -> where each push is
    pushed,     \* records handed to push so far; a record is its number
    accepted,   \* records whose push returned true (history)
    cut,        \* records whose push a snapshot overlapped (history)
    late,       \* a push was copying into, or leaving, a buffer cleared under it
    outside     \* an access left the buffer; the model follows no further

bufferVars == <<input, size, slots, pusher, pushed, accepted, cut, late, outside>>

Records == 1 .. MaxRecords
NoRecord == 0
Bufs == 0 .. 1
Offsets == 0 .. Capacity - 1
Output == 1 - input

Idle == [stage |-> "idle", buf |-> 0, at |-> 0, rec |-> NoRecord]

BufferInit ==
    /\ input = 0
    /\ size = [b \in Bufs |-> 0]
    /\ slots = [b \in Bufs |-> [i \in Offsets |-> NoRecord]]
    /\ pusher = [w \in Writers |-> Idle]
    /\ pushed = 0
    /\ accepted = {} /\ cut = {}
    /\ late = FALSE /\ outside = FALSE

----------------------------------------------------------------------------
(* add_record: input_buffer() is a reference to the buffer of that moment. *)
PushBegin(w) ==
    /\ pusher[w].stage = "idle" /\ pushed < MaxRecords
    /\ pushed' = pushed + 1
    /\ pusher' = [pusher EXCEPT ![w] = [stage |-> "reserve", buf |-> input,
                                        at |-> 0, rec |-> pushed + 1]]
    /\ UNCHANGED <<input, size, slots, accepted, cut, late, outside>>

(* before_size + data_size > sizeof(buf), in size_t *)
Fits(before) == (before + 1) % SizeMod <= Capacity

(* fetch_add, and the comparison with what it returned *)
PushReserve(w) ==
    LET b == pusher[w].buf  before == size[b] IN
    /\ pusher[w].stage = "reserve"
    /\ size' = [size EXCEPT ![b] = (before + 1) % SizeMod]
    /\ pusher' = [pusher EXCEPT ![w].stage = IF Fits(before) THEN "copy" ELSE "undo",
                                ![w].at = before]
    /\ UNCHANGED <<input, slots, pushed, accepted, cut, late, outside>>

(* memcpy(buf + before_size): a size that wrapped below zero makes that an *)
(* address in front of the buffer.                                         *)
PushCopy(w) ==
    LET p == pusher[w] IN
    /\ p.stage = "copy"
    /\ IF p.at \in Offsets
       THEN /\ slots' = [slots EXCEPT ![p.buf][p.at] = p.rec]
            /\ accepted' = accepted \cup {p.rec}
            /\ UNCHANGED outside
       ELSE outside' = TRUE /\ UNCHANGED <<slots, accepted>>
    /\ pusher' = [pusher EXCEPT ![w] = Idle]
    /\ UNCHANGED <<input, size, pushed, cut, late>>

(* fetch_sub: the record is refused. *)
PushUndo(w) ==
    LET b == pusher[w].buf IN
    /\ pusher[w].stage = "undo"
    /\ size' = [size EXCEPT ![b] = (@ - 1) % SizeMod]
    /\ pusher' = [pusher EXCEPT ![w] = Idle]
    /\ UNCHANGED <<input, slots, pushed, accepted, cut, late, outside>>

PushStep(w) == ~outside /\ (PushBegin(w) \/ PushReserve(w) \/ PushCopy(w) \/ PushUndo(w))

----------------------------------------------------------------------------
(* The main loop's and the worker's side, as parts of the task's actions.  *)

HasLiveData == size[input] > 0

Snapshot ==
    /\ input' = Output
    /\ cut' = cut \cup {pusher[w].rec : w \in {v \in Writers : pusher[v].stage # "idle"}}

ClearInput ==   \* mutant: the wrong buffer
    size' = [size EXCEPT ![input] = 0] /\ late' = late

ClearSnapshot ==
    /\ size' = [size EXCEPT ![Output] = 0]
    /\ late' = (late \/ \E w \in Writers : /\ pusher[w].stage \in {"copy", "undo"}
                                          /\ pusher[w].buf = Output)

(* The records a reader of the output buffer sees that read n as its size: *)
(* a slot that is reserved and not copied yet still holds an old record.   *)
Snapshotted(n) == [i \in 0 .. n - 1 |-> slots[Output][i]]

(* Slots below n that a push has reserved in the output buffer and not     *)
(* copied yet.                                                             *)
Uncopied(n) == \E w \in Writers : /\ pusher[w].stage = "copy"
                                  /\ pusher[w].buf = Output /\ pusher[w].at < n

BufferTypeOK ==
    /\ input \in Bufs
    /\ size \in [Bufs -> 0 .. SizeMod - 1]
    /\ slots \in [Bufs -> [Offsets -> Records \cup {NoRecord}]]
    /\ pusher \in [Writers -> [stage : {"idle", "reserve", "copy", "undo"}, buf : Bufs,
                               at : 0 .. SizeMod - 1, rec : Records \cup {NoRecord}]]
    /\ pushed \in 0 .. MaxRecords
    /\ accepted \subseteq Records /\ cut \subseteq Records
    /\ late \in BOOLEAN /\ outside \in BOOLEAN

=============================================================================
