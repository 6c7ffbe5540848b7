----------------------------- MODULE SendBuffer -----------------------------
(***************************************************************************)
(* The lock-free send buffer of one connection                             *)
(* (io::IoSendEventLockFreeDataImpl) and the send event that drains it     *)
(* (io::IoSendEvent).  Any thread pushes packets: a compare-and-swap       *)
(* reserves bytes at the tail, then memcpy fills them.  The main loop      *)
(* posts everything between head and tail to the network when no send is   *)
(* in progress; an I/O thread completes it and pops what was sent.         *)
(*                                                                         *)
(* Only data_tail is atomic.  The pop of the completer is two stores       *)
(* (data_head += n; then CAS data_tail to 0; then data_head = 0), so it is *)
(* three steps here, and a push is a load, a CAS and a memcpy.             *)
(***************************************************************************)
EXTENDS Integers, FiniteSets

CONSTANTS
    Writers,    \* threads that push packets
    Capacity,   \* bytes of the buffer
    Sizes,      \* sizes of the pushed packets
    MaxBytes    \* bound: bytes reserved in a behaviour

ASSUME BufferAssumption ==
    /\ Capacity \in Nat \ {0}
    /\ Sizes \subseteq Nat \ {0}
    /\ MaxBytes \in Nat

VARIABLES
    head,           \* data_head
    tail,           \* data_tail
    is_processing,  \* IoSendEvent::is_processing
    completer,      \* the I/O thread inside on_event_complete
    posted,         \* bytes of the send in progress: size and where it starts
    writer,         \* Writers -> where each push is
    reserved,       \* bytes ever reserved (history)
    sent            \* bytes ever handed over by a completed send (history)

vars == <<head, tail, is_processing, completer, posted, writer, reserved, sent>>

Idle == [stage |-> "idle", at |-> 0, n |-> 0]

Init ==
    /\ head = 0 /\ tail = 0
    /\ is_processing = FALSE
    /\ completer = "none"
    /\ posted = [at |-> 0, n |-> 0]
    /\ writer = [w \in Writers |-> Idle]
    /\ reserved = 0 /\ sent = 0

----------------------------------------------------------------------------
(* push: old_tail = data_tail.load() *)
PushLoad(w, n) ==
    /\ writer[w].stage = "idle" /\ reserved + n <= MaxBytes
    /\ writer' = [writer EXCEPT ![w] = [stage |-> "cas", at |-> tail, n |-> n]]
    /\ UNCHANGED <<head, tail, is_processing, completer, posted, reserved, sent>>

(* old_tail + n > _capacity: the push is refused. *)
Fits(w) == writer[w].at + writer[w].n <= Capacity

PushRefused(w) ==
    /\ writer[w].stage = "cas" /\ ~Fits(w)
    /\ writer' = [writer EXCEPT ![w] = Idle]
    /\ UNCHANGED <<head, tail, is_processing, completer, posted, reserved, sent>>

(* compare_exchange_weak succeeds: the bytes are reserved. *)
PushReserve(w) ==
    /\ writer[w].stage = "cas" /\ Fits(w)
    /\ tail = writer[w].at
    /\ reserved + writer[w].n <= MaxBytes
    /\ tail' = writer[w].at + writer[w].n
    /\ reserved' = reserved + writer[w].n
    /\ writer' = [writer EXCEPT ![w].stage = "copy"]
    /\ UNCHANGED <<head, is_processing, completer, posted, sent>>

(* ... or fails, spuriously too, and reloads old_tail. *)
PushRetry(w) ==
    /\ writer[w].stage = "cas" /\ Fits(w)
    /\ writer' = [writer EXCEPT ![w].at = tail]
    /\ UNCHANGED <<head, tail, is_processing, completer, posted, reserved, sent>>

(* memcpy of the reserved bytes *)
PushCopy(w) ==
    /\ writer[w].stage = "copy"
    /\ writer' = [writer EXCEPT ![w] = Idle]
    /\ UNCHANGED <<head, tail, is_processing, completer, posted, reserved, sent>>

----------------------------------------------------------------------------
(* Main loop: flush_send posts IoSendEvent::post_rio_event when the event is *)
(* not busy and size() = data_tail - data_head is not zero.                  *)
CanPost == ~is_processing /\ tail - head # 0

Post ==
    /\ CanPost
    /\ is_processing' = TRUE
    /\ posted' = [at |-> head, n |-> tail - head]
    /\ UNCHANGED <<head, tail, completer, writer, reserved, sent>>

(* RIOSend refuses: is_processing is taken back, the bytes stay. *)
PostFailed ==
    /\ CanPost
    /\ UNCHANGED vars

(* I/O thread: IoSendEvent::on_event_complete. *)

InFlight == is_processing /\ posted.n > 0 /\ completer = "none"

(* eof: on_error disconnects; is_processing stays set for good. *)
CompleteEof ==
    /\ InFlight
    /\ completer' = "eof"
    /\ UNCHANGED <<head, tail, is_processing, posted, writer, reserved, sent>>

(* event_failed: nothing is popped, the next tick sends the same bytes. *)
CompleteFailed ==
    /\ InFlight
    /\ completer' = "complete"
    /\ UNCHANGED <<head, tail, is_processing, posted, writer, reserved, sent>>

(* pop(n), first store; RIO completes a send with all its bytes. *)
PopHead ==
    /\ InFlight
    /\ head' = head + posted.n
    /\ sent' = sent + posted.n
    /\ completer' = "cas"
    /\ UNCHANGED <<tail, is_processing, posted, writer, reserved>>

(* the CAS of data_tail from data_head to 0 ... *)
PopStore ==         \* mutant: a plain store instead of the CAS
    /\ completer = "cas"
    /\ tail' = 0 /\ completer' = "rewind"
    /\ UNCHANGED <<head, is_processing, posted, writer, reserved, sent>>

PopReset ==
    /\ completer = "cas"
    /\ IF tail = head THEN tail' = 0 /\ completer' = "rewind"
                      ELSE tail' = tail /\ completer' = "complete"
    /\ UNCHANGED <<head, is_processing, posted, writer, reserved, sent>>

(* ... and, when it succeeded, data_head = 0. *)
PopRewind ==
    /\ completer = "rewind"
    /\ head' = 0
    /\ completer' = "complete"
    /\ UNCHANGED <<tail, is_processing, posted, writer, reserved, sent>>

(* Connection::on_complete(IoSendEvent): is_processing = false. *)
OnCompleteBusy ==   \* mutant: is_processing is never taken back
    /\ completer = "complete"
    /\ completer' = "none"
    /\ posted' = [at |-> 0, n |-> 0]
    /\ UNCHANGED <<head, tail, is_processing, writer, reserved, sent>>

OnComplete ==
    /\ completer = "complete"
    /\ is_processing' = FALSE
    /\ completer' = "none"
    /\ posted' = [at |-> 0, n |-> 0]
    /\ UNCHANGED <<head, tail, writer, reserved, sent>>

----------------------------------------------------------------------------
Next ==
    \/ \E w \in Writers : \/ \E n \in Sizes : PushLoad(w, n)
                          \/ PushRefused(w) \/ PushReserve(w)
                          \/ PushRetry(w) \/ PushCopy(w)
    \/ Post \/ PostFailed \/ CompleteEof \/ CompleteFailed
    \/ PopHead \/ PopReset \/ PopRewind \/ OnComplete

Spec == Init /\ [][Next]_vars

(* The main loop keeps ticking, a posted send completes without eof in the   *)
(* end, and the I/O thread finishes what it started.                         *)
FairSpec == /\ Spec
            /\ WF_vars(Post) /\ SF_vars(PopHead)
            /\ WF_vars(PopReset) /\ WF_vars(PopRewind) /\ WF_vars(OnComplete)

----------------------------------------------------------------------------
(* Properties.                                                              *)

(* Every variable keeps its shape, and every offset stays inside the       *)
(* buffer, the ones a writer loaded before the last rewind included.        *)
TypeOK ==
    /\ head \in 0 .. Capacity /\ tail \in 0 .. Capacity
    /\ is_processing \in BOOLEAN
    /\ completer \in {"none", "cas", "rewind", "complete", "eof"}
    /\ posted \in [at : 0 .. Capacity, n : 0 .. Capacity]
    /\ writer \in [Writers -> [stage : {"idle", "cas", "copy"},
                               at : 0 .. Capacity, n : Nat]]
    /\ reserved \in Nat /\ sent \in Nat

(* assert(data_head <= data_tail) in pop and the size_t difference in       *)
(* size(): head is past tail only between the two stores that rewind the    *)
(* buffer, and then is_processing keeps the main loop from looking at it.   *)
HeadBehindTail == head > tail => completer = "rewind" /\ is_processing

(* No byte is lost, duplicated or sent twice by the rewinding of the        *)
(* buffer: what was reserved and not yet sent is what lies between head and *)
(* tail, where a head about to be stored as zero already counts as zero.    *)
NothingLost ==
    reserved - sent = tail - (IF completer = "rewind" THEN 0 ELSE head)

(* A send in progress covers bytes that were reserved before it was posted, *)
(* and the tail never falls back under them.                                *)
PostedIsReserved ==
    InFlight => /\ posted.at = head
                /\ posted.at + posted.n <= tail

(* Every reserved byte is sent in the end, unless the connection ended:     *)
(* the sends catch up with the writers again and again.                     *)
EverythingSent ==
    []<>(sent = reserved \/ completer = "eof")

(* io_event_test.cpp, event_data_manipulation_properly: what lies between    *)
(* begin() and end() is what was pushed.  No send covers bytes that a push   *)
(* has reserved and not copied yet.  The code does not keep this.            *)
SentIsCopied ==
    \A w \in Writers :
        writer[w].stage = "copy" /\ InFlight =>
            \/ writer[w].at + writer[w].n <= posted.at
            \/ posted.at + posted.n <= writer[w].at

=============================================================================
