----------------------- MODULE ConnectionTableProofs -----------------------
(***************************************************************************)
(* For every table size, every set of threads and every timing: the       *)
(* connection counter agrees with the used slots, an accept that passed   *)
(* the limit check always finds a free slot, and every connection lives   *)
(* the life ConnectionLife promises.  Where the holders of pointers are   *)
(* quick against the delay of the secure deletion (HoldersAreQuick),      *)
(* nobody uses a connection object after its deletion, and a key leads to *)
(* the connection it was made for or to none.                             *)
(***************************************************************************)
EXTENDS ConnectionTable, FiniteSetTheorems, TLAPS

(* A slot is used exactly while it owns a connection object: the store of   *)
(* the pointer and the used flag, and the reset and the flag, go together.  *)
UsedOwnsObject ==
    \A s \in Slots : /\ entry[s].used => conn[s].id # NoId
                     /\ ~entry[s].used => conn[s] = NoConn

(* A thread inside set_offline entered it through a real object. *)
OffliningIsReal == \A t \in Threads : offl[t].stage # "none" => offl[t].id # NoId

(* What the accept thread knows of its slot at each point of the handler. *)
AcceptKnows ==
    /\ pc \in {"uncount", "cleanOffline"} => scan \in Slots
    /\ pc = "pick" => num_of_connections < MaxConnections
    /\ pc \in {"count", "store"} => scan \in Slots /\ ~entry[scan].used /\ born > 0
    /\ pc = "publish" => scan \in Slots /\ entry[scan].used

IInv == TypeOK /\ UsedOwnsObject /\ OffliningIsReal /\ AcceptKnows /\ CountMatchesSlots

----------------------------------------------------------------------------
(* Facts about the set of used slots.                                       *)

(* The table is finite, so its used slots can be counted. *)
LEMMA SlotsFinite ==
    /\ IsFiniteSet(Slots) /\ Cardinality(Slots) = MaxConnections
    /\ \A S \in SUBSET Slots : IsFiniteSet(S) /\ Cardinality(S) \in 0 .. MaxConnections
<1>1. IsFiniteSet(Slots) /\ Cardinality(Slots) = MaxConnections
  BY TableAssumption, FS_Interval DEF Slots
<1>2. ASSUME NEW S \in SUBSET Slots
      PROVE  IsFiniteSet(S) /\ Cardinality(S) \in 0 .. MaxConnections
  BY <1>1, <1>2, FS_Subset, FS_CardinalityType, TableAssumption
<1> QED BY <1>1, <1>2

(* While fewer than MaxConnections slots are used, one is free. *)
LEMMA FreeSlotExists ==
    ASSUME Cardinality(UsedSlots) < MaxConnections
    PROVE  UsedSlots # Slots
BY SlotsFinite, TableAssumption

(* Marking a free slot used adds one to the count. *)
LEMMA UseSlot ==
    ASSUME NEW s \in Slots, entry \in [Slots -> Entry], ~entry[s].used,
           entry' = [entry EXCEPT ![s].used = TRUE]
    PROVE  Cardinality(UsedSlots') = Cardinality(UsedSlots) + 1
<1>1. UsedSlots' = UsedSlots \cup {s} /\ s \notin UsedSlots
  BY DEF UsedSlots, Entry
<1>2. IsFiniteSet(UsedSlots)
  BY SlotsFinite DEF UsedSlots
<1> QED BY <1>1, <1>2, FS_AddElement

(* Releasing a used slot takes one off the count. *)
LEMMA ReleaseSlot ==
    ASSUME NEW s \in Slots, entry \in [Slots -> Entry], entry[s].used,
           entry' = [entry EXCEPT ![s].created_at = INVALID_TICK, ![s].used = FALSE]
    PROVE  Cardinality(UsedSlots') = Cardinality(UsedSlots) - 1
<1>1. UsedSlots' = UsedSlots \ {s} /\ s \in UsedSlots
  BY DEF UsedSlots, Entry
<1>2. IsFiniteSet(UsedSlots)
  BY SlotsFinite DEF UsedSlots
<1> QED BY <1>1, <1>2, FS_RemoveElement

----------------------------------------------------------------------------
(* The invariant is inductive: first the conjuncts that only talk about     *)
(* one slot at a time, then the counter.                                    *)

SlotInv == TypeOK /\ UsedOwnsObject /\ OffliningIsReal /\ AcceptKnows

(* The initial table is empty and no thread is inside set_offline. *)
LEMMA InitInv == Init => IInv
<1> SUFFICES ASSUME Init PROVE IInv
  OBVIOUS
<1> USE TableAssumption
<1>1. TypeOK
  BY DEF Init, TypeOK, Slots, Entry, Conn, NoConn, NoId, INVALID_TICK, PCs,
         Offlining, NotOfflining, Pointer, NoPointer
<1>2. UsedOwnsObject /\ OffliningIsReal /\ AcceptKnows
  BY DEF Init, UsedOwnsObject, OffliningIsReal, AcceptKnows, NotOfflining
<1>3. UsedSlots = {}
  BY DEF Init, UsedSlots
<1>4. CountMatchesSlots
  BY <1>3, FS_EmptySet DEF Init, CountMatchesSlots
<1> QED BY <1>1, <1>2, <1>4 DEF IInv

(* The null pointer has the null id. *)
LEMMA NullHasNoId == NoConn.id = NoId
BY DEF NoConn

(* A step that leaves the used flags and the counter alone, and keeps the   *)
(* accept thread out of the two half-counted points, preserves the count.   *)
LEMMA CountUntouched ==
    ASSUME CountMatchesSlots, UsedSlots' = UsedSlots,
           num_of_connections' = num_of_connections,
           pc' \in {"uncount", "store"} <=> pc \in {"uncount", "store"}
    PROVE  CountMatchesSlots'
BY DEF CountMatchesSlots

(* Every step of the accept thread, of a thread going offline, of a reader  *)
(* or of the clock preserves the invariant.                                 *)
LEMMA StepInv == IInv /\ [Next]_vars => IInv'
<1> SUFFICES ASSUME IInv, [Next]_vars PROVE IInv'
  OBVIOUS
<1> USE TableAssumption
<1>t. TypeOK /\ UsedOwnsObject /\ OffliningIsReal /\ AcceptKnows /\ CountMatchesSlots
  BY DEF IInv
<1>c. Cardinality(UsedSlots) \in 0 .. MaxConnections
  BY SlotsFinite DEF UsedSlots
<1>1. CASE AcceptBegin
  <2>1. TypeOK'
    BY <1>1, <1>t DEF AcceptBegin, TypeOK, PCs, readVars
  <2>2. UsedOwnsObject' /\ OffliningIsReal' /\ AcceptKnows'
    BY <1>1, <1>t DEF AcceptBegin, UsedOwnsObject, OffliningIsReal, AcceptKnows
  <2>3. UsedSlots' = UsedSlots
    BY <1>1, <1>t DEF AcceptBegin, UsedSlots
  <2>4. CountMatchesSlots'
    BY <1>1, <1>t, <2>3, CountUntouched DEF AcceptBegin
  <2> QED BY <2>1, <2>2, <2>4 DEF IInv
<1>2. CASE CleanSkip
  <2>1. TypeOK'
    BY <1>2, <1>t DEF CleanSkip, TypeOK, PCs, readVars
  <2>2. UsedOwnsObject' /\ OffliningIsReal' /\ AcceptKnows'
    BY <1>2, <1>t DEF CleanSkip, UsedOwnsObject, OffliningIsReal, AcceptKnows
  <2>3. UsedSlots' = UsedSlots
    BY <1>2, <1>t DEF CleanSkip, UsedSlots
  <2>4. CountMatchesSlots'
    BY <1>2, <1>t, <2>3, CountUntouched DEF CleanSkip
  <2> QED BY <2>1, <2>2, <2>4 DEF IInv
<1>3. CASE CleanExpire
  <2>s. scan \in Slots
    BY <1>3, <1>t DEF CleanExpire, TypeOK, Slots
  <2>i. conn[scan].id \in Nat \ {NoId}
    BY <1>3, <1>t, <2>s DEF CleanExpire, TypeOK, Conn, UsedOwnsObject
  <2>n. [stage |-> "flag", slot |-> scan, id |-> conn[scan].id, at |-> now] \in Offlining
    BY <1>t, <2>s, <2>i DEF TypeOK, Offlining
  <2>o. offl' \in [Threads -> Offlining]
    BY <1>3, <1>t, <2>n DEF CleanExpire, BeginOffline, TypeOK
  <2>1. TypeOK'
    BY <1>3, <1>t, <2>s, <2>o DEF CleanExpire, TypeOK, PCs, Slots, readVars
  <2>5. OffliningIsReal'
    BY <1>3, <1>t, <2>i DEF CleanExpire, BeginOffline, OffliningIsReal, TypeOK
  <2>6. UsedOwnsObject' /\ AcceptKnows'
    BY <1>3, <1>t, <2>s DEF CleanExpire, UsedOwnsObject, AcceptKnows
  <2>3. UsedSlots' = UsedSlots
    BY <1>3 DEF CleanExpire, UsedSlots
  <2>4. CountMatchesSlots'
    BY <1>3, <1>t, <2>3, CountUntouched DEF CleanExpire
  <2> QED BY <2>1, <2>4, <2>5, <2>6 DEF IInv
<1>4. CASE CleanOfflined
  <2>1. TypeOK'
    BY <1>4, <1>t DEF CleanOfflined, TypeOK, PCs, Slots, AcceptKnows, readVars
  <2>2. UsedOwnsObject' /\ OffliningIsReal' /\ AcceptKnows'
    BY <1>4, <1>t DEF CleanOfflined, UsedOwnsObject, OffliningIsReal, AcceptKnows
  <2>3. UsedSlots' = UsedSlots
    BY <1>4, <1>t DEF CleanOfflined, UsedSlots
  <2>4. CountMatchesSlots'
    BY <1>4, <1>t, <2>3, CountUntouched DEF CleanOfflined
  <2> QED BY <2>1, <2>2, <2>4 DEF IInv
<1>5. CASE CleanEnd
  <2>1. TypeOK'
    BY <1>5, <1>t DEF CleanEnd, TypeOK, PCs, readVars
  <2>2. UsedOwnsObject' /\ OffliningIsReal' /\ AcceptKnows'
    BY <1>5, <1>t DEF CleanEnd, UsedOwnsObject, OffliningIsReal, AcceptKnows
  <2>3. UsedSlots' = UsedSlots
    BY <1>5, <1>t DEF CleanEnd, UsedSlots
  <2>4. CountMatchesSlots'
    BY <1>5, <1>t, <2>3, CountUntouched DEF CleanEnd
  <2> QED BY <2>1, <2>2, <2>4 DEF IInv
<1>6. CASE CheckLimit
  <2>1. TypeOK'
    BY <1>6, <1>t DEF CheckLimit, TypeOK, PCs, readVars
  <2>2. UsedOwnsObject' /\ OffliningIsReal' /\ AcceptKnows'
    BY <1>6, <1>t DEF CheckLimit, UsedOwnsObject, OffliningIsReal, AcceptKnows, TypeOK
  <2>3. UsedSlots' = UsedSlots
    BY <1>6, <1>t DEF CheckLimit, UsedSlots
  <2>4. CountMatchesSlots'
    BY <1>6, <1>t, <2>3, CountUntouched DEF CheckLimit
  <2> QED BY <2>1, <2>2, <2>4 DEF IInv
<1>7. CASE PickSlot
  <2>1. TypeOK'
    BY <1>7, <1>t DEF PickSlot, TypeOK, PCs, readVars
  <2>2. UsedOwnsObject' /\ OffliningIsReal'
    BY <1>7, <1>t DEF PickSlot, UsedOwnsObject, OffliningIsReal
  <2>5. UsedSlots # Slots
    BY <1>7, <1>t, <1>c, FreeSlotExists DEF PickSlot, AcceptKnows, CountMatchesSlots
  <2>6. AcceptKnows'
    BY <1>7, <1>t, <2>5 DEF PickSlot, FirstUnused, AcceptKnows, UsedSlots, TypeOK
  <2>3. UsedSlots' = UsedSlots
    BY <1>7 DEF PickSlot, UsedSlots
  <2>4. CountMatchesSlots'
    BY <1>7, <1>t, <2>3, CountUntouched DEF PickSlot
  <2> QED BY <2>1, <2>2, <2>4, <2>6 DEF IInv
<1>8. CASE CreatePublish
  <2>e. /\ entry' \in [Slots -> Entry]
        /\ \A s \in Slots : entry'[s].used = entry[s].used
    BY <1>8, <1>t DEF CreatePublish, TypeOK, Entry
  <2>1. TypeOK'
    BY <1>8, <1>t, <2>e DEF CreatePublish, TypeOK, PCs, readVars
  <2>2. UsedOwnsObject' /\ OffliningIsReal' /\ AcceptKnows'
    BY <1>8, <1>t, <2>e DEF CreatePublish, UsedOwnsObject, OffliningIsReal, AcceptKnows
  <2>3. UsedSlots' = UsedSlots
    BY <1>8, <1>t, <2>e DEF CreatePublish, UsedSlots
  <2>4. CountMatchesSlots'
    BY <1>8, <1>t, <2>3, CountUntouched DEF CreatePublish
  <2> QED BY <2>1, <2>2, <2>4 DEF IInv
<1>9. ASSUME NEW t \in Threads, NEW s \in Slots, Disconnect(t, s) PROVE IInv'
  <2>1. TypeOK'
    BY <1>9, <1>t DEF Disconnect, TypeOK, acceptVars, readVars, BeginOffline, Offlining,
       Conn
  <2>2. UsedOwnsObject' /\ OffliningIsReal' /\ AcceptKnows'
    BY <1>9, <1>t DEF Disconnect, UsedOwnsObject, OffliningIsReal, AcceptKnows, acceptVars,
       BeginOffline, TypeOK, Offlining
  <2>3. UsedSlots' = UsedSlots
    BY <1>9, <1>t DEF Disconnect, UsedSlots
  <2>4. CountMatchesSlots'
    BY <1>9, <1>t, <2>3, CountUntouched DEF Disconnect, acceptVars
  <2> QED BY <2>1, <2>2, <2>4 DEF IInv
<1>10. ASSUME NEW t \in Threads, OfflineFlag(t) PROVE IInv'
  <2>o. offl[t].slot \in Slots /\ offl[t].at \in Nat
    BY <1>10, <1>t DEF TypeOK, Offlining
  <2>n. offl[t].id # NoId
    BY <1>10, <1>t DEF OfflineFlag, OffliningIsReal
  <2>k. /\ conn' \in [Slots -> Conn]
        /\ \A s \in Slots : conn'[s].id = conn[s].id
    BY <1>10, <1>t, <2>o DEF OfflineFlag, TypeOK, Conn
  <2>z. \A s \in Slots : conn[s] = NoConn => conn'[s] = NoConn
    BY <1>10, <1>t, <2>o, <2>n, NullHasNoId DEF OfflineFlag, Alive, TypeOK
  <2>p. /\ offl' \in [Threads -> Offlining]
        /\ \A u \in Threads : offl'[u].id = offl[u].id
        /\ \A u \in Threads : offl'[u].stage # "none" => offl[u].stage # "none"
    BY <1>10, <1>t DEF OfflineFlag, TypeOK, Offlining
  <2>1. TypeOK'
    BY <1>10, <1>t, <2>k, <2>p DEF OfflineFlag, TypeOK, acceptVars, readVars
  <2>2. UsedOwnsObject' /\ OffliningIsReal' /\ AcceptKnows'
    BY <1>10, <1>t, <2>k, <2>z, <2>p DEF OfflineFlag, UsedOwnsObject, OffliningIsReal,
       AcceptKnows, acceptVars
  <2>e. entry' = entry
    BY <1>10 DEF OfflineFlag
  <2>3. UsedSlots' = UsedSlots
    BY <1>10, <1>t, <2>e DEF OfflineFlag, UsedSlots
  <2>4. CountMatchesSlots'
    BY <1>10, <1>t, <2>3, CountUntouched DEF OfflineFlag, acceptVars
  <2> QED BY <2>1, <2>2, <2>4 DEF IInv
<1>11. ASSUME NEW t \in Threads, OfflineTick(t) PROVE IInv'
  <2>o. offl[t].slot \in Slots /\ offl[t].at \in Nat
    BY <1>11, <1>t DEF TypeOK, Offlining
  <2>n. offl[t].id # NoId
    BY <1>11, <1>t DEF OfflineTick, OffliningIsReal
  <2>k. /\ conn' \in [Slots -> Conn]
        /\ \A s \in Slots : conn'[s].id = conn[s].id
    BY <1>11, <1>t, <2>o DEF OfflineTick, TypeOK, Conn
  <2>z. \A s \in Slots : conn[s] = NoConn => conn'[s] = NoConn
    BY <1>11, <1>t, <2>o, <2>n, NullHasNoId DEF OfflineTick, Alive, TypeOK
  <2>p. /\ offl' \in [Threads -> Offlining]
        /\ \A u \in Threads : offl'[u].id = offl[u].id
        /\ \A u \in Threads : offl'[u].stage # "none" => offl[u].stage # "none"
    BY <1>11, <1>t DEF OfflineTick, TypeOK, Offlining
  <2>1. TypeOK'
    BY <1>11, <1>t, <2>k, <2>p DEF OfflineTick, TypeOK, acceptVars, readVars
  <2>2. UsedOwnsObject' /\ OffliningIsReal' /\ AcceptKnows'
    BY <1>11, <1>t, <2>k, <2>z, <2>p DEF OfflineTick, UsedOwnsObject, OffliningIsReal,
       AcceptKnows, acceptVars
  <2>e. entry' = entry
    BY <1>11 DEF OfflineTick
  <2>3. UsedSlots' = UsedSlots
    BY <1>11, <1>t, <2>e DEF OfflineTick, UsedSlots
  <2>4. CountMatchesSlots'
    BY <1>11, <1>t, <2>3, CountUntouched DEF OfflineTick, acceptVars
  <2> QED BY <2>1, <2>2, <2>4 DEF IInv
<1>12. ASSUME NEW t \in Threads, OfflineEntry(t) PROVE IInv'
  <2>o. offl[t].slot \in Slots
    BY <1>12, <1>t DEF TypeOK, Offlining
  <2>e. /\ entry' \in [Slots -> Entry]
        /\ \A s \in Slots : entry'[s].used = entry[s].used
    <3>1. CASE entry' = entry
      BY <1>t, <3>1 DEF TypeOK
    <3>2. CASE entry' = [entry EXCEPT ![offl[t].slot].will_delete = TRUE]
      BY <1>t, <2>o, <3>2 DEF TypeOK, Entry
    <3> QED BY <1>12, <3>1, <3>2 DEF OfflineEntry
  <2>n. NotOfflining \in Offlining /\ NotOfflining.stage = "none"
    BY DEF NotOfflining, Offlining, NoId, Slots
  <2>p. /\ offl' \in [Threads -> Offlining]
        /\ \A u \in Threads : offl'[u].stage # "none" => offl'[u] = offl[u]
    BY <1>12, <1>t, <2>n DEF OfflineEntry, TypeOK
  <2>1. TypeOK'
    BY <1>12, <1>t, <2>e, <2>p DEF OfflineEntry, TypeOK, acceptVars, readVars
  <2>2. UsedOwnsObject' /\ OffliningIsReal' /\ AcceptKnows'
    BY <1>12, <1>t, <2>e, <2>p DEF OfflineEntry, UsedOwnsObject, OffliningIsReal,
       AcceptKnows, TypeOK, acceptVars
  <2>3. UsedSlots' = UsedSlots
    BY <1>12, <1>t, <2>e DEF OfflineEntry, UsedSlots
  <2>4. CountMatchesSlots'
    BY <1>12, <1>t, <2>3, CountUntouched DEF OfflineEntry, acceptVars
  <2> QED BY <2>1, <2>2, <2>4 DEF IInv
<1>13. ASSUME NEW s \in Slots, ReaderCheck(s) PROVE IInv'
  <2>1. TypeOK'
    BY <1>13, <1>t DEF ReaderCheck, TypeOK, acceptVars, Pointer, Conn
  <2>2. UsedOwnsObject' /\ OffliningIsReal' /\ AcceptKnows'
    BY <1>13, <1>t DEF ReaderCheck, UsedOwnsObject, OffliningIsReal, AcceptKnows, acceptVars
  <2>3. UsedSlots' = UsedSlots
    BY <1>13, <1>t DEF ReaderCheck, UsedSlots
  <2>4. CountMatchesSlots'
    BY <1>13, <1>t, <2>3, CountUntouched DEF ReaderCheck, acceptVars
  <2> QED BY <2>1, <2>2, <2>4 DEF IInv
<1>14. ASSUME NEW s \in Slots, Interact(s) PROVE IInv'
  <2>k. /\ conn' \in [Slots -> Conn]
        /\ \A r \in Slots : conn'[r].id = conn[r].id
    BY <1>14, <1>t DEF Interact, TypeOK, Conn
  <2>z. \A r \in Slots : conn[r] = NoConn => conn'[r] = NoConn
    BY <1>14, <1>t, NullHasNoId DEF Interact, TypeOK
  <2>1. TypeOK'
    BY <1>14, <1>t, <2>k DEF Interact, TypeOK, acceptVars, readVars
  <2>2. UsedOwnsObject' /\ OffliningIsReal' /\ AcceptKnows'
    BY <1>14, <1>t, <2>k, <2>z DEF Interact, UsedOwnsObject, OffliningIsReal,
       AcceptKnows, acceptVars
  <2>e. entry' = entry
    BY <1>14 DEF Interact
  <2>3. UsedSlots' = UsedSlots
    BY <1>14, <1>t, <2>e DEF Interact, UsedSlots
  <2>4. CountMatchesSlots'
    BY <1>14, <1>t, <2>3, CountUntouched DEF Interact, acceptVars
  <2> QED BY <2>1, <2>2, <2>4 DEF IInv
<1>15. CASE ReaderUse
  <2>r. NoPointer \in Pointer
    BY DEF Pointer
  <2>k. reader \in [slot : Slots, id : Nat, at : Nat]
    BY <1>15, <1>t DEF ReaderUse, TypeOK, Pointer
  <2>j. conn[reader.slot].id \in Nat /\ now \in Nat
    BY <1>t, <2>k DEF TypeOK, Conn
  <2>l. [reader EXCEPT !.id = conn[reader.slot].id, !.at = now]
           \in [slot : Slots, id : Nat, at : Nat]
    BY <2>k, <2>j
  <2>h. reader' \in Pointer /\ held' \in Pointer
    BY <1>15, <1>t, <2>r, <2>l DEF ReaderUse, TypeOK, Pointer
  <2>1. TypeOK'
    BY <1>15, <1>t, <2>h DEF ReaderUse, TypeOK, acceptVars
  <2>2. UsedOwnsObject' /\ OffliningIsReal' /\ AcceptKnows'
    BY <1>15, <1>t DEF ReaderUse, UsedOwnsObject, OffliningIsReal, AcceptKnows, acceptVars
  <2>e. entry' = entry
    BY <1>15 DEF ReaderUse
  <2>3. UsedSlots' = UsedSlots
    BY <1>15, <1>t, <2>e DEF ReaderUse, UsedSlots
  <2>4. CountMatchesSlots'
    BY <1>15, <1>t, <2>3, CountUntouched DEF ReaderUse, acceptVars
  <2> QED BY <2>1, <2>2, <2>4 DEF IInv
<1>16. CASE TaskDone
  <2>1. TypeOK'
    BY <1>16, <1>t DEF TaskDone, TypeOK, acceptVars, Pointer, NoPointer, NoId
  <2>2. UsedOwnsObject' /\ OffliningIsReal' /\ AcceptKnows'
    BY <1>16, <1>t DEF TaskDone, UsedOwnsObject, OffliningIsReal, AcceptKnows, acceptVars
  <2>3. UsedSlots' = UsedSlots
    BY <1>16, <1>t DEF TaskDone, UsedSlots
  <2>4. CountMatchesSlots'
    BY <1>16, <1>t, <2>3, CountUntouched DEF TaskDone, acceptVars
  <2> QED BY <2>1, <2>2, <2>4 DEF IInv
<1>17. CASE Tick
  <2>1. TypeOK'
    BY <1>17, <1>t DEF Tick, TypeOK, acceptVars, readVars
  <2>2. UsedOwnsObject' /\ OffliningIsReal' /\ AcceptKnows'
    BY <1>17, <1>t DEF Tick, UsedOwnsObject, OffliningIsReal, AcceptKnows, acceptVars
  <2>3. UsedSlots' = UsedSlots
    BY <1>17, <1>t DEF Tick, UsedSlots
  <2>4. CountMatchesSlots'
    BY <1>17, <1>t, <2>3, CountUntouched DEF Tick, acceptVars
  <2> QED BY <2>1, <2>2, <2>4 DEF IInv
<1>18. CASE CleanDelete
  <2>s. scan \in Slots
    BY <1>18, <1>t DEF CleanDelete, TypeOK, Slots
  <2>e. /\ entry' \in [Slots -> Entry] /\ ~entry'[scan].used
        /\ \A s \in Slots \ {scan} : entry'[s] = entry[s]
    BY <1>18, <1>t, <2>s DEF CleanDelete, TypeOK, Entry, INVALID_TICK
  <2>n. NoConn \in Conn
    BY DEF NoConn, Conn, NoId
  <2>k. /\ conn' \in [Slots -> Conn] /\ conn'[scan] = NoConn
        /\ \A s \in Slots \ {scan} : conn'[s] = conn[s]
    BY <1>18, <1>t, <2>s, <2>n DEF CleanDelete, TypeOK
  <2>y. early' \subseteq Nat
    BY <1>18, <1>t, <2>s DEF CleanDelete, TypeOK, Conn
  <2>1. TypeOK'
    BY <1>18, <1>t, <2>e, <2>k, <2>y DEF CleanDelete, TypeOK, PCs, readVars
  <2>2. UsedOwnsObject' /\ OffliningIsReal' /\ AcceptKnows'
    BY <1>18, <1>t, <2>s, <2>e, <2>k DEF CleanDelete, UsedOwnsObject, OffliningIsReal,
       AcceptKnows
  <2>3. Cardinality(UsedSlots') = Cardinality(UsedSlots) - 1
    BY <1>18, <1>t, <2>s, ReleaseSlot DEF CleanDelete, TypeOK
  <2>4. CountMatchesSlots'
    BY <1>18, <1>t, <1>c, <2>3 DEF CleanDelete, CountMatchesSlots
  <2> QED BY <2>1, <2>2, <2>4 DEF IInv
<1>19. CASE CleanUncount
  <2>1. TypeOK'
    BY <1>19, <1>t, <1>c DEF CleanUncount, TypeOK, PCs, readVars, Slots, AcceptKnows,
       CountMatchesSlots
  <2>2. UsedOwnsObject' /\ OffliningIsReal' /\ AcceptKnows'
    BY <1>19, <1>t DEF CleanUncount, UsedOwnsObject, OffliningIsReal, AcceptKnows
  <2>3. UsedSlots' = UsedSlots
    BY <1>19 DEF CleanUncount, UsedSlots
  <2>4. CountMatchesSlots'
    BY <1>19, <1>t, <1>c, <2>3 DEF CleanUncount, CountMatchesSlots
  <2> QED BY <2>1, <2>2, <2>4 DEF IInv
<1>20. CASE CreateCount
  <2>s. scan \in Slots /\ ~entry[scan].used
    BY <1>20, <1>t DEF CreateCount, AcceptKnows
  <2>p. PICK k \in keys : entry' = [entry EXCEPT ![scan].created_at = k.created_at]
    BY <1>20 DEF CreateCount
  <2>i. k.created_at \in Int
    BY <1>t DEF TypeOK
  <2>e. /\ entry' \in [Slots -> Entry]
        /\ \A s \in Slots : entry'[s].used = entry[s].used
    BY <1>t, <2>s, <2>p, <2>i DEF TypeOK, Entry
  <2>1. TypeOK'
    BY <1>20, <1>t, <2>e DEF CreateCount, TypeOK, PCs, readVars
  <2>2. UsedOwnsObject' /\ OffliningIsReal' /\ AcceptKnows'
    BY <1>20, <1>t, <2>s, <2>e DEF CreateCount, UsedOwnsObject, OffliningIsReal, AcceptKnows
  <2>3. UsedSlots' = UsedSlots
    BY <2>e DEF UsedSlots
  <2>4. CountMatchesSlots'
    BY <1>20, <1>t, <1>c, <2>3 DEF CreateCount, CountMatchesSlots
  <2> QED BY <2>1, <2>2, <2>4 DEF IInv
<1>21. CASE CreateStore
  <2>s. scan \in Slots /\ ~entry[scan].used
    BY <1>21, <1>t DEF CreateStore, AcceptKnows
  <2>p. PICK k \in keys : NewKey(k) /\
          conn' = [conn EXCEPT ![scan] = [id |-> born, online |-> TRUE,
                                          offline_at |-> 0, last_seen |-> k.at]]
    BY <1>21 DEF CreateStore
  <2>b. born \in Nat \ {NoId} /\ k.at \in Nat
    BY <1>21, <1>t, <2>p DEF TypeOK, NoId, AcceptKnows, CreateStore
  <2>k. /\ conn' \in [Slots -> Conn] /\ conn'[scan].id # NoId
        /\ \A s \in Slots \ {scan} : conn'[s] = conn[s]
    BY <1>t, <2>s, <2>p, <2>b DEF TypeOK, Conn
  <2>e. /\ entry' \in [Slots -> Entry] /\ entry'[scan].used
        /\ \A s \in Slots \ {scan} : entry'[s] = entry[s]
    BY <1>21, <1>t, <2>s DEF CreateStore, TypeOK, Entry
  <2>1. TypeOK'
    BY <1>21, <1>t, <2>e, <2>k DEF CreateStore, TypeOK, PCs, readVars
  <2>2. UsedOwnsObject' /\ OffliningIsReal' /\ AcceptKnows'
    BY <1>21, <1>t, <2>s, <2>e, <2>k DEF CreateStore, UsedOwnsObject, OffliningIsReal,
       AcceptKnows
  <2>3. Cardinality(UsedSlots') = Cardinality(UsedSlots) + 1
    BY <1>21, <1>t, <2>s, UseSlot DEF CreateStore, TypeOK
  <2>4. CountMatchesSlots'
    BY <1>21, <1>t, <1>c, <2>3 DEF CreateStore, CountMatchesSlots
  <2> QED BY <2>1, <2>2, <2>4 DEF IInv
<1>22. CASE UNCHANGED vars
  BY <1>22, <1>t DEF IInv, vars, acceptVars, readVars, TypeOK, UsedOwnsObject,
     OffliningIsReal, AcceptKnows, CountMatchesSlots, UsedSlots
<1> QED
  BY <1>1, <1>2, <1>3, <1>4, <1>5, <1>6, <1>7, <1>8, <1>9, <1>10, <1>11,
     <1>12, <1>13, <1>14, <1>15, <1>16, <1>17, <1>18, <1>19, <1>20, <1>21,
     <1>22 DEF Next

----------------------------------------------------------------------------

(* The inductive invariant holds in every reachable state, for every table  *)
(* size, set of threads and timing (accept handler, set_offline, walks).    *)
THEOREM Invariant == Spec => []IInv
BY InitInv, StepInv, PTL DEF Spec

(* Type correctness of the connection table and of the accept handler; in   *)
(* particular num_of_connections, an unsigned in the code, never wraps.     *)
THEOREM TypeCorrect == Spec => []TypeOK
<1>1. IInv => TypeOK
  BY DEF IInv
<1> QED BY Invariant, <1>1, PTL

(* on_connection_create / on_connection_delete: the counter and the used    *)
(* flags differ by exactly the one store still outstanding.                 *)
THEOREM CountIsCorrect == Spec => []CountMatchesSlots
<1>1. IInv => CountMatchesSlots
  BY DEF IInv
<1> QED BY Invariant, <1>1, PTL

(* The assertion of get_unused_connection_id never fires, and a new         *)
(* connection is never stored over a live one.                              *)
THEOREM NewSlotIsAlwaysFree == Spec => []NewSlotIsFree
<1>1. IInv => NewSlotIsFree
  <2> SUFFICES ASSUME IInv PROVE NewSlotIsFree
    OBVIOUS
  <2>1. Cardinality(UsedSlots) \in 0 .. MaxConnections
    BY SlotsFinite DEF UsedSlots
  <2>2. pc = "pick" => UsedSlots # Slots
    BY <2>1, FreeSlotExists DEF IInv, AcceptKnows, CountMatchesSlots
  <2> QED BY <2>2 DEF IInv, AcceptKnows, UsedOwnsObject, NewSlotIsFree
<1> QED BY Invariant, <1>1, PTL

----------------------------------------------------------------------------
(* Connection objects have one life.                                        *)

(* No two objects share an id, and the id of the connection being created   *)
(* is not in the table yet.                                                  *)
UniqueIds ==
    /\ born <= MaxBorn
    /\ \A s \in Slots : conn[s].id <= born
    /\ \A r, s \in Slots : conn[r].id = conn[s].id /\ conn[r].id # NoId => r = s
    /\ pc \in {"count", "store"} => \A s \in Slots : conn[s].id # born

Creating == pc \in {"count", "store"}

(* What every step other than the creation and the destruction of an object *)
(* does to the objects: nothing, or one of them goes offline.               *)
ObjectsStay ==
    /\ born' = born /\ Creating' = Creating
    /\ \A s \in Slots : conn'[s].id = conn[s].id
    /\ \/ \A s \in Slots : conn'[s].online = conn[s].online
       \/ \E s \in Slots : /\ conn[s].id # NoId /\ conn[s].online /\ ~conn'[s].online
                           /\ \A r \in Slots \ {s} : conn'[r].online = conn[r].online

(* Only three steps of the accept thread create, name or destroy an object. *)
LEMMA ObjectSteps ==
    IInv /\ [Next]_vars => PickSlot \/ CreateStore \/ CleanDelete \/ ObjectsStay
<1> SUFFICES ASSUME IInv, [Next]_vars, ~PickSlot, ~CreateStore, ~CleanDelete
             PROVE  ObjectsStay
  OBVIOUS
<1> USE DEF ObjectsStay, Creating
<1>t. TypeOK /\ UsedOwnsObject /\ OffliningIsReal
  BY DEF IInv
<1>1. CASE AcceptBegin
  BY <1>1 DEF AcceptBegin
<1>2. CASE CleanSkip
  BY <1>2 DEF CleanSkip
<1>3. CASE CleanUncount
  BY <1>3 DEF CleanUncount
<1>4. CASE CleanExpire
  BY <1>4 DEF CleanExpire
<1>5. CASE CleanOfflined
  BY <1>5 DEF CleanOfflined
<1>6. CASE CleanEnd
  BY <1>6 DEF CleanEnd
<1>7. CASE CheckLimit
  BY <1>7 DEF CheckLimit
<1>8. CASE CreateCount
  BY <1>8 DEF CreateCount
<1>9. CASE CreatePublish
  BY <1>9 DEF CreatePublish
<1>10. ASSUME NEW t \in Threads, NEW s \in Slots, Disconnect(t, s) PROVE ObjectsStay
  BY <1>10 DEF Disconnect, acceptVars
<1>11. ASSUME NEW t \in Threads, OfflineFlag(t) PROVE ObjectsStay
  <2>o. offl[t].slot \in Slots /\ offl[t].id # NoId
    BY <1>11, <1>t DEF OfflineFlag, TypeOK, Offlining, OffliningIsReal
  <2>1. CASE Alive(t) /\ conn[offl[t].slot].online
    <3>1. /\ \A s \in Slots : conn'[s].id = conn[s].id
          /\ ~conn'[offl[t].slot].online
          /\ \A r \in Slots \ {offl[t].slot} : conn'[r].online = conn[r].online
      BY <1>11, <1>t, <2>o, <2>1 DEF OfflineFlag, TypeOK, Conn
    <3> QED BY <1>11, <2>o, <2>1, <3>1 DEF OfflineFlag, acceptVars, Alive
  <2>2. CASE ~(Alive(t) /\ conn[offl[t].slot].online)
    <3>1. \A s \in Slots : conn'[s].id = conn[s].id /\ conn'[s].online = conn[s].online
      BY <1>11, <1>t, <2>o, <2>2 DEF OfflineFlag, TypeOK, Conn
    <3> QED BY <1>11, <3>1 DEF OfflineFlag, acceptVars
  <2> QED BY <2>1, <2>2
<1>12. ASSUME NEW t \in Threads, OfflineTick(t) PROVE ObjectsStay
  <2>o. offl[t].slot \in Slots
    BY <1>12, <1>t DEF OfflineTick, TypeOK, Offlining
  <2>1. \A s \in Slots : conn'[s].id = conn[s].id /\ conn'[s].online = conn[s].online
    BY <1>12, <1>t, <2>o DEF OfflineTick, TypeOK, Conn
  <2> QED BY <1>12, <2>1 DEF OfflineTick, acceptVars
<1>13. ASSUME NEW t \in Threads, OfflineEntry(t) PROVE ObjectsStay
  BY <1>13 DEF OfflineEntry, acceptVars
<1>14. ASSUME NEW s \in Slots, ReaderCheck(s) PROVE ObjectsStay
  BY <1>14 DEF ReaderCheck, acceptVars
<1>15. ASSUME NEW s \in Slots, Interact(s) PROVE ObjectsStay
  <2>1. \A r \in Slots : conn'[r].id = conn[r].id /\ conn'[r].online = conn[r].online
    BY <1>15, <1>t DEF Interact, TypeOK, Conn
  <2> QED BY <1>15, <2>1 DEF Interact, acceptVars
<1>16. CASE ReaderUse
  BY <1>16 DEF ReaderUse, acceptVars
<1>17. CASE TaskDone
  BY <1>17 DEF TaskDone, acceptVars
<1>18. CASE Tick
  BY <1>18 DEF Tick, acceptVars
<1>19. CASE UNCHANGED vars
  BY <1>19 DEF vars, acceptVars
<1> QED
  BY <1>1, <1>2, <1>3, <1>4, <1>5, <1>6, <1>7, <1>8, <1>9, <1>10, <1>11,
     <1>12, <1>13, <1>14, <1>15, <1>16, <1>17, <1>18, <1>19 DEF Next

(* CreateStore fills a free slot with the newborn object. *)
LEMMA StoreEffect ==
    ASSUME IInv, CreateStore
    PROVE  /\ scan \in Slots /\ conn[scan] = NoConn /\ born \in Nat \ {NoId}
           /\ conn'[scan].id = born /\ conn'[scan].online /\ conn'[scan].offline_at = 0
           /\ \A s \in Slots \ {scan} : conn'[s] = conn[s]
           /\ entry'[scan].used /\ entry'[scan].will_delete = entry[scan].will_delete
           /\ entry'[scan].created_at = entry[scan].created_at
           /\ \A s \in Slots \ {scan} : entry'[s] = entry[s]
           /\ born' = born
<1>s. scan \in Slots /\ ~entry[scan].used /\ conn[scan] = NoConn /\ born \in Nat \ {NoId}
  BY DEF CreateStore, IInv, AcceptKnows, UsedOwnsObject, TypeOK, NoId
<1>p. PICK k \in keys : conn' = [conn EXCEPT ![scan] = [id |-> born, online |-> TRUE,
                                          offline_at |-> 0, last_seen |-> k.at]]
  BY DEF CreateStore
<1>1. /\ conn'[scan] = [id |-> born, online |-> TRUE, offline_at |-> 0, last_seen |-> k.at]
      /\ \A s \in Slots \ {scan} : conn'[s] = conn[s]
  BY <1>s, <1>p DEF IInv, TypeOK
<1>2. /\ entry'[scan].used /\ entry'[scan].will_delete = entry[scan].will_delete
      /\ entry'[scan].created_at = entry[scan].created_at
      /\ \A s \in Slots \ {scan} : entry'[s] = entry[s]
  BY <1>s DEF CreateStore, IInv, TypeOK, Entry
<1> QED BY <1>s, <1>1, <1>2 DEF CreateStore

(* CleanDelete empties the slot of an object that is offline. *)
LEMMA DeleteEffect ==
    ASSUME IInv, CleanDelete
    PROVE  /\ scan \in Slots /\ conn[scan].id # NoId /\ ~conn[scan].online
           /\ conn'[scan] = NoConn
           /\ \A s \in Slots \ {scan} : conn'[s] = conn[s]
           /\ ~entry'[scan].used /\ entry'[scan].will_delete = entry[scan].will_delete
           /\ \A s \in Slots \ {scan} : entry'[s] = entry[s]
           /\ born' = born /\ ~Creating /\ ~Creating'
<1>s. scan \in Slots /\ entry[scan].used
  BY TableAssumption DEF CleanDelete, IInv, TypeOK, Slots
<1>1. conn'[scan] = NoConn /\ \A s \in Slots \ {scan} : conn'[s] = conn[s]
  BY <1>s DEF CleanDelete, IInv, TypeOK
<1>2. /\ ~entry'[scan].used /\ entry'[scan].will_delete = entry[scan].will_delete
      /\ \A s \in Slots \ {scan} : entry'[s] = entry[s]
  BY <1>s DEF CleanDelete, IInv, TypeOK, Entry
<1>3. conn[scan].id # NoId /\ ~conn[scan].online
  BY <1>s DEF CleanDelete, IsSafeDelete, IInv, UsedOwnsObject
<1> QED BY <1>s, <1>1, <1>2, <1>3 DEF CleanDelete, Creating

(* Ids are unique: each creation takes the next one. *)
LEMMA UniqueIdsStep == IInv /\ UniqueIds /\ [Next]_vars => UniqueIds'
<1> SUFFICES ASSUME IInv, UniqueIds, [Next]_vars PROVE UniqueIds'
  OBVIOUS
<1> USE TableAssumption
<1>t. born \in Nat /\ \A s \in Slots : conn[s].id \in Nat
  BY DEF IInv, TypeOK, Conn
<1>1. CASE PickSlot
  BY <1>1, <1>t DEF PickSlot, UniqueIds
<1>2. CASE CreateStore
  BY <1>2, <1>t, StoreEffect DEF CreateStore, UniqueIds, NoConn, NoId
<1>3. CASE CleanDelete
  BY <1>3, <1>t, DeleteEffect DEF UniqueIds, NoConn, NoId, Creating
<1>4. CASE ObjectsStay
  BY <1>4, <1>t DEF ObjectsStay, UniqueIds, Creating
<1> QED BY <1>1, <1>2, <1>3, <1>4, ObjectSteps

(* At the start no object exists. *)
LEMMA UniqueIdsInit == Init => UniqueIds
BY TableAssumption DEF Init, UniqueIds, NoConn, NoId

(* The phase of an object, in terms of the table. *)
LEMMA PhaseByCases ==
    ASSUME UniqueIds, NEW i \in 1 .. MaxBorn
    PROVE  /\ \A s \in Slots : conn[s].id = i =>
                 Phase(i) = IF conn[s].online THEN "online" ELSE "offline"
           /\ (\A s \in Slots : conn[s].id # i) =>
                 Phase(i) = IF i < born \/ (i = born /\ ~Creating)
                            THEN "freed" ELSE "unborn"
<1>1. ASSUME NEW s \in Slots, conn[s].id = i
      PROVE  Phase(i) = IF conn[s].online THEN "online" ELSE "offline"
  <2>1. \A r \in Slots : conn[r].id = i => r = s
    BY <1>1 DEF UniqueIds, NoId
  <2> QED BY <1>1, <2>1 DEF Phase
<1>2. ASSUME \A s \in Slots : conn[s].id # i
      PROVE  Phase(i) = IF i < born \/ (i = born /\ ~Creating)
                        THEN "freed" ELSE "unborn"
  BY <1>2 DEF Phase, Creating
<1> QED BY <1>1, <1>2

(* The objects' phases: the variable of ConnectionLife under the refinement. *)
phaseOf == [i \in 1 .. MaxBorn |-> Phase(i)]

(* A step that creates, names or destroys nothing either changes no phase   *)
(* or takes one online object offline.                                      *)
LEMMA StayRefines ==
    ASSUME IInv, UniqueIds, UniqueIds', ObjectsStay
    PROVE  [Life!LifeNext]_phaseOf
<1>b. born' = born /\ Creating' = Creating /\ \A s \in Slots : conn'[s].id = conn[s].id
  BY DEF ObjectsStay
<1>1. CASE \A s \in Slots : conn'[s].online = conn[s].online
  <2>1. \A i \in 1 .. MaxBorn : Phase(i)' = Phase(i)
    BY <1>1, <1>b DEF Phase, Creating
  <2> QED BY <2>1 DEF phaseOf
<1>2. CASE \E s \in Slots : /\ conn[s].id # NoId /\ conn[s].online /\ ~conn'[s].online
                            /\ \A r \in Slots \ {s} : conn'[r].online = conn[r].online
  <2>1. PICK s \in Slots : /\ conn[s].id # NoId /\ conn[s].online /\ ~conn'[s].online
                           /\ \A r \in Slots \ {s} : conn'[r].online = conn[r].online
    BY <1>2
  <2>2. PICK i \in 1 .. MaxBorn : i = conn[s].id
    BY <2>1, TableAssumption DEF IInv, TypeOK, Conn, UniqueIds, NoId
  <2>3. Phase(i) = "online"
    BY <2>1, <2>2, PhaseByCases
  <2>4. Phase(i)' = "offline"
    BY <1>b, <2>1, <2>2 DEF Phase, UniqueIds
  <2>5. \A j \in 1 .. MaxBorn : j # i => Phase(j)' = Phase(j)
    <3>1. ASSUME NEW j \in 1 .. MaxBorn, j # i
          PROVE  \A r \in Slots : conn[r].id = j => conn'[r].online = conn[r].online
      BY <1>b, <2>1, <2>2, <3>1
    <3> QED BY <1>b, <3>1 DEF Phase, Creating
  <2>6. phaseOf' = [phaseOf EXCEPT ![i] = "offline"]
    BY <2>2, <2>4, <2>5 DEF phaseOf
  <2> QED BY <2>2, <2>3, <2>6 DEF Life!LifeNext, Life!GoOffline, phaseOf
<1> QED BY <1>1, <1>2 DEF ObjectsStay

(* The newborn object appears online. *)
LEMMA CreateRefines ==
    ASSUME IInv, UniqueIds, UniqueIds', CreateStore
    PROVE  [Life!LifeNext]_phaseOf
<1>1. PICK i \in 1 .. MaxBorn : i = born
  BY StoreEffect, TableAssumption DEF UniqueIds, NoId
<1>c. Creating /\ ~Creating' /\ i = born'
  BY <1>1 DEF CreateStore, Creating
<1>2. Phase(i) = "unborn"
  BY <1>1, <1>c, PhaseByCases DEF UniqueIds, CreateStore
<1>3. Phase(i)' = "online"
  BY <1>1, <1>c, StoreEffect DEF Phase
<1>4. ASSUME NEW j \in 1 .. MaxBorn, j # i PROVE Phase(j)' = Phase(j)
  <2>1. \A r \in Slots : /\ conn[r].id = j <=> conn'[r].id = j
                         /\ (conn[r].id = j /\ conn[r].online)
                               <=> (conn'[r].id = j /\ conn'[r].online)
    <3>1. conn[scan].id # j /\ conn'[scan].id # j
      BY <1>1, <1>c, <1>4, StoreEffect DEF NoConn, NoId
    <3> QED BY <3>1, StoreEffect
  <2>2. /\ (\E r \in Slots : conn[r].id = j) <=> (\E r \in Slots : conn'[r].id = j)
        /\ (\E r \in Slots : conn[r].id = j /\ conn[r].online)
              <=> (\E r \in Slots : conn'[r].id = j /\ conn'[r].online)
    BY <2>1
  <2>3. (j < born \/ (j = born /\ ~Creating)) <=> (j < born' \/ (j = born' /\ ~Creating'))
    BY <1>1, <1>c, <1>4
  <2> QED BY <2>2, <2>3 DEF Phase, Creating
<1>5. phaseOf' = [phaseOf EXCEPT ![i] = "online"]
  BY <1>1, <1>3, <1>4 DEF phaseOf
<1> QED BY <1>1, <1>2, <1>5 DEF Life!LifeNext, Life!Connect, phaseOf

(* The object the cleanup destroys was offline. *)
LEMMA DeleteRefines ==
    ASSUME IInv, UniqueIds, UniqueIds', CleanDelete
    PROVE  [Life!LifeNext]_phaseOf
<1>1. PICK i \in 1 .. MaxBorn : i = conn[scan].id
  BY DeleteEffect, TableAssumption DEF IInv, TypeOK, Conn, UniqueIds, NoId
<1>c. ~Creating /\ ~Creating' /\ born' = born /\ i <= born /\ born \in Nat
  BY <1>1, DeleteEffect DEF UniqueIds, IInv, TypeOK
<1>2. Phase(i) = "offline"
  BY <1>1, DeleteEffect, PhaseByCases
<1>g. \A r \in Slots : conn'[r].id # i
  BY <1>1, DeleteEffect DEF UniqueIds, NoConn, NoId
<1>3. Phase(i)' = "freed"
  BY <1>c, <1>g DEF Phase, Creating
<1>4. ASSUME NEW j \in 1 .. MaxBorn, j # i PROVE Phase(j)' = Phase(j)
  <2>1. \A r \in Slots : /\ conn[r].id = j <=> conn'[r].id = j
                         /\ (conn[r].id = j /\ conn[r].online)
                               <=> (conn'[r].id = j /\ conn'[r].online)
    <3>1. conn[scan].id # j /\ conn'[scan].id # j
      BY <1>1, <1>c, <1>4, DeleteEffect DEF NoConn, NoId
    <3> QED BY <3>1, DeleteEffect
  <2>2. /\ (\E r \in Slots : conn[r].id = j) <=> (\E r \in Slots : conn'[r].id = j)
        /\ (\E r \in Slots : conn[r].id = j /\ conn[r].online)
              <=> (\E r \in Slots : conn'[r].id = j /\ conn'[r].online)
    BY <2>1
  <2>3. (j < born \/ (j = born /\ ~Creating)) <=> (j < born' \/ (j = born' /\ ~Creating'))
    BY <1>1, <1>c, <1>4
  <2> QED BY <2>2, <2>3 DEF Phase, Creating
<1>5. phaseOf' = [phaseOf EXCEPT ![i] = "freed"]
  BY <1>1, <1>3, <1>4 DEF phaseOf
<1> QED BY <1>1, <1>2, <1>5 DEF Life!LifeNext, Life!Free, phaseOf

(* Picking a slot names the next object, which stays unborn; the one named  *)
(* before it is no longer the latest, and long gone if it is not there.     *)
LEMMA PickRefines ==
    ASSUME IInv, UniqueIds, UniqueIds', PickSlot
    PROVE  phaseOf' = phaseOf
<1>1. ~Creating /\ Creating' /\ born' = born + 1 /\ born \in Nat /\ conn' = conn
  BY DEF PickSlot, Creating, IInv, TypeOK
<1>2. \A j \in 1 .. MaxBorn : Phase(j)' = Phase(j)
  <2>1. ASSUME NEW j \in 1 .. MaxBorn
        PROVE  j = born + 1 => \A r \in Slots : conn[r].id # j
    BY <1>1 DEF UniqueIds, IInv, TypeOK, Conn
  <2> QED BY <1>1, <2>1 DEF Phase, Creating
<1> QED BY <1>2 DEF phaseOf

(* Every connection object follows ConnectionLife: created online, offline  *)
(* once and for good (set_offline), destroyed only from offline (the        *)
(* cleanup of the accept handler), never recreated, for every table size    *)
(* and whatever the timing.                                                  *)
THEOREM LifeIsImplemented == Spec => ImplementsLife
<1>1. Init => Life!LifeInit
  BY DEF Init, Life!LifeInit, Phase, NoConn, NoId
<1>2. IInv /\ UniqueIds /\ IInv' /\ UniqueIds' /\ [Next]_vars
         => [Life!LifeNext]_phaseOf
  BY ObjectSteps, StayRefines, CreateRefines, DeleteRefines, PickRefines
<1>3. [Life!LifeNext]_phaseOf <=> [Life!LifeNext]_([i \in 1 .. MaxBorn |-> Phase(i)])
  BY DEF phaseOf
<1>4. Spec => []UniqueIds
  BY UniqueIdsInit, UniqueIdsStep, Invariant, PTL DEF Spec
<1> QED BY <1>1, <1>2, <1>3, <1>4, Invariant, PTL DEF Spec, ImplementsLife, Life!LifeSpec

----------------------------------------------------------------------------
(* Secure deletion.  As long as no object was destroyed before its           *)
(* last_offline_tick was written, every pointer into the table is live.      *)

Busy(t, s) == offl[t].stage # "none" /\ offl[t].slot = s
InPublication(s) == pc = "publish" /\ scan = s

(* No stay inside set_offline, in a table walk or in a task outlasts its    *)
(* bound, and the accept thread is inside set_offline only while it waits.  *)
Clocks ==
    /\ now > 0
    /\ \A t \in Threads : offl[t].stage # "none" =>
          offl[t].at > 0 /\ offl[t].at <= now /\ now <= offl[t].at + MaxStall
    /\ reader # NoPointer => reader.at <= now /\ now <= reader.at + MaxStall
    /\ held # NoPointer => held.at <= now /\ now <= held.at + MaxHold
    /\ offl[Acceptor].stage # "none" => pc = "cleanOffline"

(* Keys name the connections born so far, one each. *)
KeysKnown ==
    /\ \A k \in keys : /\ k.id \in 1 .. born /\ k.slot \in Slots /\ k.at <= now
                       /\ k.created_at = k.at % TickModulus
    /\ \A j, k \in keys : j.id = k.id => j = k

(* will_delete hides a slot until its new connection is published. *)
HiddenUntilPublished ==
    /\ \A s \in Slots : ~entry[s].used => entry[s].will_delete
    /\ pc = "publish" => /\ conn[scan].online /\ conn[scan].offline_at = 0
                         /\ entry[scan].will_delete

(* A thread inside set_offline works on the object it entered with. *)
OffliningIsLive ==
    \A t \in Threads : offl[t].stage # "none" =>
        /\ entry[offl[t].slot].used /\ Alive(t) /\ ~InPublication(offl[t].slot)
        /\ offl[t].stage \in {"tick", "entry"} => ~conn[offl[t].slot].online
        /\ \A k \in keys : k.slot = offl[t].slot => k.at <= offl[t].at

(* An online connection is visible and unstamped. *)
OnlineIsPublished ==
    \A s \in Slots : entry[s].used /\ ~InPublication(s) /\ conn[s].online
                       => ~entry[s].will_delete /\ conn[s].offline_at = 0

(* last_offline_tick bounds everything that can still touch the object, and *)
(* a stamped connection is still visible only because of a thread about to  *)
(* hide it.                                                                  *)
StampBounds(s) ==
    /\ \A t \in Threads : Busy(t, s) => offl[t].at <= conn[s].offline_at + MaxStall
    /\ \A k \in keys : k.slot = s => k.at <= conn[s].offline_at
    /\ reader # NoPointer /\ reader.slot = s => reader.at <= conn[s].offline_at + MaxStall
    /\ held # NoPointer /\ held.slot = s => held.at <= conn[s].offline_at + 2 * MaxStall
    /\ ~entry[s].will_delete =>
          \E t \in Threads : Busy(t, s) /\ offl[t].stage = "entry"
                             /\ offl[t].at = conn[s].offline_at

StampIsRecent ==
    \A s \in Slots : entry[s].used /\ conn[s].offline_at # 0 => StampBounds(s)

PointersAreLive ==
    /\ reader # NoPointer => entry[reader.slot].used /\ reader.id = conn[reader.slot].id
    /\ held # NoPointer => entry[held.slot].used /\ held.id = conn[held.slot].id

(* The key of a slot's connection is the newest of the slot, and carries    *)
(* the entry's creation tick; all keys of a free slot are older than now.   *)
Newest(k) == \A j \in keys : j.slot = k.slot /\ j # k => j.at < k.at

KeyOfSlot ==
    \A s \in Slots :
        /\ entry[s].used =>
              \E k \in keys : /\ k.id = conn[s].id /\ k.slot = s /\ Newest(k)
                              /\ entry[s].created_at = k.created_at
        /\ Creating /\ scan = s =>
              \E k \in keys : /\ k.id = born /\ k.slot = s /\ Newest(k)
                              /\ pc = "store" => entry[s].created_at = k.created_at
        /\ ~entry[s].used /\ ~(Creating /\ scan = s) =>
              \A k \in keys : k.slot = s => k.at < now

LiveInv ==
    /\ HiddenUntilPublished /\ OffliningIsLive /\ OnlineIsPublished
    /\ StampIsRecent /\ PointersAreLive /\ KeyOfSlot

TimedInv == Clocks /\ KeysKnown /\ (NoEarlyDelete => LiveInv)

(* The initial table holds nothing that could be stale. *)
LEMMA TimedInit == Init => TimedInv
<1> SUFFICES ASSUME Init PROVE TimedInv
  OBVIOUS
<1> USE TableAssumption DEF Init
<1>1. Clocks
  BY DEF Clocks, NotOfflining
<1>2. KeysKnown
  BY DEF KeysKnown
<1>3. HiddenUntilPublished /\ OffliningIsLive /\ OnlineIsPublished
  BY DEF HiddenUntilPublished, OffliningIsLive, OnlineIsPublished, NotOfflining
<1>4. StampIsRecent /\ PointersAreLive /\ KeyOfSlot
  BY DEF StampIsRecent, PointersAreLive, KeyOfSlot, Creating
<1> QED BY <1>1, <1>2, <1>3, <1>4 DEF TimedInv, LiveInv

(* A step that changes neither the table, the clock, the pointers nor the   *)
(* keys, and does not enter or leave the creation of a connection.          *)
SameSlotWork ==
    \/ pc' = pc /\ scan' = scan
    \/ pc \notin {"count", "store", "publish"} /\ pc' \notin {"count", "store", "publish"}

AcceptMoves ==
    /\ UNCHANGED <<now, entry, conn, born, offl, reader, held, keys, early>>
    /\ SameSlotWork /\ (pc = "cleanOffline" => pc' = pc \/ offl[Acceptor].stage = "none")

(* A thread enters set_offline: through the table or a completed I/O        *)
(* (Disconnect), or from the cleanup of expired connections.                *)
Begins(t, s) ==
    /\ offl[t].stage = "none" /\ entry[s].used /\ conn[s].online
    /\ pc = "clean" \/ ~entry[s].will_delete
    /\ BeginOffline(t, s)
    /\ UNCHANGED <<now, entry, conn, born, reader, held, keys, early>>
    /\ SameSlotWork /\ (IF t = Acceptor THEN pc' = "cleanOffline" ELSE pc' = pc)

(* The steps of the table, by what they change. *)
LEMMA StepKinds ==
    ASSUME IInv, Clocks, [Next]_vars
    PROVE  \/ AcceptMoves
           \/ PickSlot \/ CreateCount \/ CreateStore \/ CreatePublish \/ CleanDelete
           \/ \E t \in Threads, s \in Slots : Begins(t, s)
           \/ \E t \in Threads : OfflineFlag(t) \/ OfflineTick(t) \/ OfflineEntry(t)
           \/ \E s \in Slots : ReaderCheck(s) \/ Interact(s)
           \/ ReaderUse \/ TaskDone \/ Tick
<1>1. CASE AcceptBegin \/ CleanSkip \/ CleanUncount \/ CleanOfflined \/ CleanEnd
           \/ CheckLimit
  BY <1>1 DEF AcceptMoves, SameSlotWork, readVars, AcceptBegin, CleanSkip, CleanUncount,
     CleanOfflined, CleanEnd, CheckLimit
<1>2. CASE CleanExpire
  <2>1. CASE BeginOffline(Acceptor, scan) /\ pc' = "cleanOffline" /\ scan' = scan
    <3>1. scan \in Slots
      BY <1>2, TableAssumption DEF CleanExpire, IInv, TypeOK, Slots
    <3>2. offl[Acceptor].stage = "none"
      BY <1>2 DEF Clocks, CleanExpire
    <3>3. Begins(Acceptor, scan)
      BY <1>2, <2>1, <3>2 DEF CleanExpire, Begins, SameSlotWork, readVars
    <3> QED BY <3>1, <3>3, TableAssumption
  <2>2. CASE offl' = offl /\ pc' = pc /\ scan' = scan + 1
    BY <1>2, <2>2 DEF CleanExpire, AcceptMoves, SameSlotWork, readVars
  <2> QED BY <1>2, <2>1, <2>2 DEF CleanExpire
<1>3. ASSUME NEW t \in Threads, NEW s \in Slots, Disconnect(t, s)
      PROVE  Begins(t, s)
  <2>1. entry[s].used
    BY <1>3 DEF Disconnect, IInv, UsedOwnsObject, NoConn
  <2> QED BY <1>3, <2>1 DEF Disconnect, Begins, SameSlotWork, acceptVars, readVars
<1>4. CASE UNCHANGED vars
  BY <1>4 DEF vars, AcceptMoves, SameSlotWork, acceptVars, readVars
<1> QED BY <1>1, <1>2, <1>3, <1>4 DEF Next

(* set_offline's three stores, and entering it: what they do to the threads *)
(* inside it and to the objects.                                             *)
LEMMA BeginEffect ==
    ASSUME IInv, NEW t \in Threads, NEW s \in Slots, Begins(t, s)
    PROVE  /\ offl'[t].stage = "flag" /\ offl'[t].slot = s
           /\ offl'[t].id = conn[s].id /\ offl'[t].at = now
           /\ \A u \in Threads \ {t} : offl'[u] = offl[u]
BY DEF Begins, BeginOffline, IInv, TypeOK

LEMMA FlagEffect ==
    ASSUME IInv, NEW t \in Threads, OfflineFlag(t), Alive(t)
    PROVE  /\ offl[t].slot \in Slots
           /\ offl'[t].stage = "tick"
           /\ \A u \in Threads : /\ offl'[u].slot = offl[u].slot /\ offl'[u].id = offl[u].id
                                 /\ offl'[u].at = offl[u].at
                                 /\ u # t => offl'[u].stage = offl[u].stage
           /\ ~conn'[offl[t].slot].online
           /\ \A s \in Slots : /\ conn'[s].id = conn[s].id
                               /\ conn'[s].offline_at = conn[s].offline_at
                               /\ s # offl[t].slot => conn'[s].online = conn[s].online
           /\ UNCHANGED <<now, entry, pc, scan, born, reader, held, keys, early>>
<1>1. offl[t].slot \in Slots
  BY DEF IInv, TypeOK, Offlining
<1>2. /\ offl'[t].stage = "tick"
      /\ \A u \in Threads : /\ offl'[u].slot = offl[u].slot /\ offl'[u].id = offl[u].id
                            /\ offl'[u].at = offl[u].at
                            /\ u # t => offl'[u].stage = offl[u].stage
  BY DEF OfflineFlag, IInv, TypeOK, Offlining
<1>3. /\ ~conn'[offl[t].slot].online
      /\ \A s \in Slots : /\ conn'[s].id = conn[s].id
                          /\ conn'[s].offline_at = conn[s].offline_at
                          /\ s # offl[t].slot => conn'[s].online = conn[s].online
  BY <1>1 DEF OfflineFlag, IInv, TypeOK, Conn
<1> QED BY <1>1, <1>2, <1>3 DEF OfflineFlag, acceptVars, readVars

(* The second store stamps the object with the time of entry. *)
LEMMA TickEffect ==
    ASSUME IInv, NEW t \in Threads, OfflineTick(t), Alive(t)
    PROVE  /\ offl[t].slot \in Slots
           /\ offl'[t].stage = "entry"
           /\ \A u \in Threads : /\ offl'[u].slot = offl[u].slot /\ offl'[u].id = offl[u].id
                                 /\ offl'[u].at = offl[u].at
                                 /\ u # t => offl'[u].stage = offl[u].stage
           /\ conn'[offl[t].slot].offline_at = offl[t].at
           /\ \A s \in Slots : /\ conn'[s].id = conn[s].id /\ conn'[s].online = conn[s].online
                               /\ s # offl[t].slot => conn'[s].offline_at = conn[s].offline_at
           /\ UNCHANGED <<now, entry, pc, scan, born, reader, held, keys, early>>
<1>1. offl[t].slot \in Slots
  BY DEF IInv, TypeOK, Offlining
<1>2. /\ offl'[t].stage = "entry"
      /\ \A u \in Threads : /\ offl'[u].slot = offl[u].slot /\ offl'[u].id = offl[u].id
                            /\ offl'[u].at = offl[u].at
                            /\ u # t => offl'[u].stage = offl[u].stage
  BY DEF OfflineTick, IInv, TypeOK, Offlining
<1>3. /\ conn'[offl[t].slot].offline_at = offl[t].at
      /\ \A s \in Slots : /\ conn'[s].id = conn[s].id /\ conn'[s].online = conn[s].online
                          /\ s # offl[t].slot => conn'[s].offline_at = conn[s].offline_at
  BY <1>1 DEF OfflineTick, IInv, TypeOK, Conn
<1> QED BY <1>1, <1>2, <1>3 DEF OfflineTick, acceptVars, readVars

(* The third store hides the entry of the object. *)
LEMMA EntryEffect ==
    ASSUME IInv, NEW t \in Threads, OfflineEntry(t), Alive(t)
    PROVE  /\ offl[t].slot \in Slots
           /\ offl'[t].stage = "none"
           /\ \A u \in Threads \ {t} : offl'[u] = offl[u]
           /\ entry'[offl[t].slot].will_delete
           /\ \A s \in Slots : /\ entry'[s].used = entry[s].used
                               /\ entry'[s].created_at = entry[s].created_at
                               /\ s # offl[t].slot =>
                                      entry'[s].will_delete = entry[s].will_delete
           /\ UNCHANGED <<now, conn, pc, scan, born, reader, held, keys, early>>
<1>1. offl[t].slot \in Slots
  BY DEF IInv, TypeOK, Offlining
<1>2. offl'[t].stage = "none" /\ \A u \in Threads \ {t} : offl'[u] = offl[u]
  BY DEF OfflineEntry, NotOfflining, IInv, TypeOK
<1>3. entry' = [entry EXCEPT ![offl[t].slot].will_delete = TRUE]
  BY DEF OfflineEntry
<1>4. /\ entry'[offl[t].slot].will_delete
      /\ \A s \in Slots : /\ entry'[s].used = entry[s].used
                          /\ entry'[s].created_at = entry[s].created_at
                          /\ s # offl[t].slot => entry'[s].will_delete = entry[s].will_delete
  BY <1>1, <1>3 DEF IInv, TypeOK, Entry
<1> QED BY <1>1, <1>2, <1>4 DEF OfflineEntry, acceptVars, readVars

(* The clock is only moved by Tick, which waits for every thread in a hurry. *)
LEMMA ClocksStep == IInv /\ Clocks /\ [Next]_vars => Clocks'
<1> SUFFICES ASSUME IInv, Clocks, [Next]_vars PROVE Clocks'
  OBVIOUS
<1> USE TableAssumption
<1>t. /\ now \in Nat /\ \A t \in Threads : offl[t].at \in Nat
      /\ reader # NoPointer => reader.at \in Nat
      /\ held # NoPointer => held.at \in Nat
  BY DEF IInv, TypeOK, Offlining, Pointer
<1>1. CASE AcceptMoves
  BY <1>1 DEF AcceptMoves, Clocks
<1>2. CASE PickSlot
  BY <1>2 DEF PickSlot, Clocks, readVars
<1>3. CASE CreateCount
  BY <1>3 DEF CreateCount, Clocks, readVars
<1>4. CASE CreateStore
  BY <1>4 DEF CreateStore, Clocks, readVars
<1>5. CASE CreatePublish
  BY <1>5 DEF CreatePublish, Clocks, readVars
<1>6. CASE CleanDelete
  BY <1>6 DEF CleanDelete, Clocks, readVars
<1>7. ASSUME NEW t \in Threads, NEW s \in Slots, Begins(t, s) PROVE Clocks'
  <2>1. \A u \in Threads : offl'[u].stage # "none" =>
           offl'[u].at > 0 /\ offl'[u].at <= now /\ now <= offl'[u].at + MaxStall
    BY <1>7, <1>t, BeginEffect DEF Clocks
  <2>2. offl'[Acceptor].stage # "none" => pc' = "cleanOffline"
    BY <1>7, BeginEffect DEF Begins, Clocks
  <2> QED BY <1>7, <2>1, <2>2 DEF Begins, Clocks
<1>8. ASSUME NEW t \in Threads, OfflineFlag(t) \/ OfflineTick(t) PROVE Clocks'
  <2>1. \A u \in Threads : /\ offl'[u].at = offl[u].at
                           /\ offl'[u].stage # "none" => offl[u].stage # "none"
    BY <1>8 DEF OfflineFlag, OfflineTick, IInv, TypeOK, Offlining
  <2> QED BY <1>8, <2>1 DEF OfflineFlag, OfflineTick, Clocks, readVars, acceptVars
<1>9. ASSUME NEW t \in Threads, OfflineEntry(t) PROVE Clocks'
  <2>1. \A u \in Threads : offl'[u].stage # "none" => offl'[u] = offl[u]
    BY <1>9 DEF OfflineEntry, NotOfflining, IInv, TypeOK
  <2> QED BY <1>9, <2>1 DEF OfflineEntry, Clocks, readVars, acceptVars
<1>10. ASSUME NEW s \in Slots, ReaderCheck(s) PROVE Clocks'
  BY <1>10, <1>t DEF ReaderCheck, Clocks, acceptVars
<1>11. ASSUME NEW s \in Slots, Interact(s) PROVE Clocks'
  BY <1>11 DEF Interact, Clocks, acceptVars, readVars
<1>12. CASE ReaderUse
  <2>1. reader \in [slot : Slots, id : Nat, at : Nat]
    BY <1>12 DEF ReaderUse, IInv, TypeOK, Pointer
  <2>2. [reader EXCEPT !.id = conn[reader.slot].id, !.at = now].at = now
    BY <2>1
  <2>3. /\ reader' = NoPointer /\ now' = now /\ offl' = offl /\ pc' = pc
        /\ held' = held \/ held'.at = now
    BY <1>12, <2>2 DEF ReaderUse, acceptVars
  <2> QED BY <1>t, <2>3 DEF Clocks
<1>13. CASE TaskDone
  BY <1>13 DEF TaskDone, Clocks, acceptVars
<1>14. CASE Tick
  BY <1>14, <1>t DEF Tick, Clocks, acceptVars, readVars
<1> QED BY <1>1, <1>2, <1>3, <1>4, <1>5, <1>6, <1>7, <1>8, <1>9, <1>10, <1>11,
           <1>12, <1>13, <1>14, StepKinds

(* Keys are only ever added, by the accept thread. *)
LEMMA KeysKnownStep == IInv /\ IInv' /\ Clocks /\ KeysKnown /\ [Next]_vars => KeysKnown'
<1> SUFFICES ASSUME IInv, IInv', Clocks, KeysKnown, [Next]_vars PROVE KeysKnown'
  OBVIOUS
<1>t. now \in Nat /\ born \in Nat /\ \A k \in keys : k.at \in Nat
  BY DEF IInv, TypeOK
<1>1. CASE PickSlot
  <2>1. PICK s \in 0 .. MaxConnections :
           scan' = s /\ keys' = keys \cup {[id |-> born + 1, slot |-> s, at |-> now,
                                            created_at |-> now % TickModulus]}
    BY <1>1 DEF PickSlot
  <2>2. s \in Slots
    BY <1>1, <2>1 DEF PickSlot, IInv, AcceptKnows
  <2> QED BY <1>1, <1>t, <2>1, <2>2 DEF PickSlot, KeysKnown
<1>2. CASE Tick
  BY <1>2, <1>t DEF Tick, KeysKnown, acceptVars
<1>3. CASE keys' = keys /\ born' = born /\ now' = now
  BY <1>3 DEF KeysKnown
<1>4. PickSlot \/ Tick \/ (keys' = keys /\ born' = born /\ now' = now)
  BY StepKinds DEF AcceptMoves, CreateCount, CreateStore, CreatePublish, CleanDelete,
     Begins, OfflineFlag, OfflineTick, OfflineEntry, ReaderCheck, Interact, ReaderUse,
     TaskDone, acceptVars
<1> QED BY <1>1, <1>2, <1>3, <1>4

(* The parts of TypeOK that the steps below compute with. *)
LEMMA LiveTypes ==
    ASSUME IInv
    PROVE  /\ now \in Nat /\ born \in Nat
           /\ \A s \in Slots : conn[s].id \in Nat /\ conn[s].offline_at \in Nat
           /\ \A t \in Threads : offl[t].slot \in Slots /\ offl[t].at \in Nat
           /\ \A k \in keys : k.at \in Nat
           /\ reader # NoPointer => reader.slot \in Slots /\ reader.at \in Nat
           /\ held # NoPointer => held.slot \in Slots /\ held.at \in Nat
           /\ MaxStall \in Nat /\ MaxHold \in Nat /\ SecureDeletion \in Nat \ {0}
BY TableAssumption DEF IInv, TypeOK, Conn, Offlining, Pointer

(* LiveInv across one step of each kind, part by part. *)
LEMMA LiveAccept ==
    ASSUME LiveInv, AcceptMoves
    PROVE  LiveInv'
<1> USE DEF AcceptMoves, LiveInv
<1>p. /\ \A s \in Slots : InPublication(s)' <=> InPublication(s)
      /\ \A s \in Slots : (Creating /\ scan = s)' <=> (Creating /\ scan = s)
      /\ pc' = "publish" <=> pc = "publish"
      /\ pc' = "publish" => scan' = scan
      /\ pc' = "store" => pc = "store"
  BY DEF SameSlotWork, InPublication, Creating
<1>1. HiddenUntilPublished'
  BY <1>p DEF HiddenUntilPublished
<1>2. OffliningIsLive'
  <2>1. \A t \in Threads : offl[t].stage # "none" =>
           (InPublication(offl[t].slot)' <=> InPublication(offl[t].slot))
    BY DEF SameSlotWork, InPublication
  <2> QED BY <2>1 DEF OffliningIsLive, Alive
<1>3. OnlineIsPublished'
  BY <1>p DEF OnlineIsPublished
<1>4. StampIsRecent'
  BY DEF StampIsRecent, StampBounds, Busy
<1>5. PointersAreLive'
  BY DEF PointersAreLive
<1>6. KeyOfSlot'
  BY <1>p DEF KeyOfSlot, Newest
<1> QED BY <1>1, <1>2, <1>3, <1>4, <1>5, <1>6

(* A new key goes to a slot that nobody refers to, and is its newest. *)
LEMMA LivePick ==
    ASSUME IInv, IInv', KeysKnown, LiveInv, PickSlot
    PROVE  LiveInv'
<1> USE DEF LiveInv
<1>t. now \in Nat /\ born \in Nat /\ \A k \in keys : k.at \in Nat
  BY LiveTypes
<1>k. PICK k : /\ k = [id |-> born + 1, slot |-> scan', at |-> now,
                       created_at |-> now % TickModulus]
               /\ keys' = keys \cup {k}
  BY DEF PickSlot
<1>f. /\ k.id = born + 1 /\ k.slot = scan' /\ k.at = now
      /\ k.created_at = now % TickModulus
  BY <1>k
<1>s. scan' \in Slots /\ ~entry[scan'].used
  BY DEF IInv, AcceptKnows, PickSlot
<1>n. k \notin keys
  BY <1>f, <1>t DEF KeysKnown
<1>o. /\ pc = "pick" /\ pc' = "count" /\ born' = born + 1
      /\ UNCHANGED <<now, entry, conn, offl, reader, held>>
  BY DEF PickSlot, readVars
<1>1. HiddenUntilPublished'
  BY <1>o DEF HiddenUntilPublished
<1>2. OffliningIsLive'
  BY <1>o, <1>k, <1>f, <1>s DEF OffliningIsLive, Alive, InPublication
<1>3. OnlineIsPublished'
  BY <1>o DEF OnlineIsPublished, InPublication
<1>4. StampIsRecent'
  BY <1>o, <1>k, <1>f, <1>s DEF StampIsRecent, StampBounds, Busy
<1>5. PointersAreLive'
  BY <1>o DEF PointersAreLive
<1>6. KeyOfSlot'
  <2>1. ASSUME NEW s \in Slots, entry[s].used
        PROVE  \E j \in keys' : /\ j.id = conn[s].id /\ j.slot = s /\ Newest(j)'
                                /\ entry[s].created_at = j.created_at
    BY <1>k, <1>f, <1>s, <2>1 DEF KeyOfSlot, Newest
  <2>2. /\ k \in keys' /\ k.id = born' /\ k.slot = scan' /\ Newest(k)' /\ pc' # "store"
    <3>1. \A j \in keys : j.slot = scan' => j.at < now
      BY <1>s, <1>o DEF KeyOfSlot, Creating
    <3> QED BY <1>k, <1>f, <1>o, <3>1 DEF Newest
  <2>3. ASSUME NEW s \in Slots, ~entry[s].used, s # scan'
        PROVE  \A j \in keys' : j.slot = s => j.at < now
    BY <1>k, <1>f, <1>o, <2>3 DEF KeyOfSlot, Creating
  <2>4. Creating' /\ entry' = entry /\ conn' = conn /\ now' = now
    BY <1>o DEF Creating
  <2> QED BY <2>1, <2>2, <2>3, <2>4, <1>s DEF KeyOfSlot
<1> QED BY <1>1, <1>2, <1>3, <1>4, <1>5, <1>6

(* The entry of the slot being filled takes the tick of the new key. *)
LEMMA LiveCount ==
    ASSUME IInv, KeysKnown, LiveInv, CreateCount
    PROVE  LiveInv'
<1> USE DEF LiveInv
<1>s. scan \in Slots /\ ~entry[scan].used
  BY DEF IInv, AcceptKnows, CreateCount
<1>k. PICK k \in keys : /\ k.id = born
                        /\ entry' = [entry EXCEPT ![scan].created_at = k.created_at]
  BY DEF CreateCount, NewKey
<1>e. /\ entry'[scan].created_at = k.created_at
      /\ \A s \in Slots : /\ entry'[s].used = entry[s].used
                          /\ entry'[s].will_delete = entry[s].will_delete
                          /\ s # scan => entry'[s].created_at = entry[s].created_at
  BY <1>s, <1>k DEF IInv, TypeOK, Entry
<1>o. /\ pc = "count" /\ pc' = "store" /\ scan' = scan
      /\ UNCHANGED <<now, conn, born, offl, reader, held, keys>>
  BY DEF CreateCount, readVars
<1>t. /\ \A t \in Threads : offl[t].slot \in Slots
      /\ reader # NoPointer => reader.slot \in Slots
      /\ held # NoPointer => held.slot \in Slots
  BY LiveTypes
<1>1. HiddenUntilPublished'
  BY <1>o, <1>e DEF HiddenUntilPublished
<1>2. OffliningIsLive'
  BY <1>o, <1>e, <1>t DEF OffliningIsLive, Alive, InPublication
<1>3. OnlineIsPublished'
  BY <1>o, <1>e DEF OnlineIsPublished, InPublication
<1>4. StampIsRecent'
  BY <1>o, <1>e DEF StampIsRecent, StampBounds, Busy
<1>5. PointersAreLive'
  BY <1>o, <1>e, <1>t DEF PointersAreLive
<1>6. KeyOfSlot'
  <2>1. ASSUME NEW j \in keys, j.id = born PROVE j = k
    BY <1>k, <2>1 DEF KeysKnown
  <2>2. \A s \in Slots : entry[s].used => s # scan
    BY <1>s
  <2> QED BY <1>o, <1>e, <1>s, <2>1, <2>2 DEF KeyOfSlot, Newest, Creating
<1> QED BY <1>1, <1>2, <1>3, <1>4, <1>5, <1>6

(* The new object is stored in a slot that stays hidden. *)
LEMMA LiveStore ==
    ASSUME IInv, LiveInv, CreateStore
    PROVE  LiveInv'
<1> USE DEF LiveInv
<1>s. ~entry[scan].used
  BY DEF IInv, AcceptKnows, CreateStore
<1>o. /\ pc = "store" /\ pc' = "publish" /\ scan' = scan
      /\ UNCHANGED <<now, born, offl, reader, held, keys>>
  BY DEF CreateStore, readVars
<1>e. /\ scan \in Slots /\ conn'[scan].id = born /\ conn'[scan].online
      /\ conn'[scan].offline_at = 0
      /\ \A s \in Slots \ {scan} : conn'[s] = conn[s]
      /\ entry'[scan].used /\ entry'[scan].will_delete = entry[scan].will_delete
      /\ entry'[scan].created_at = entry[scan].created_at
      /\ \A s \in Slots \ {scan} : entry'[s] = entry[s]
  BY StoreEffect
<1>t. /\ \A t \in Threads : offl[t].slot \in Slots
      /\ reader # NoPointer => reader.slot \in Slots
      /\ held # NoPointer => held.slot \in Slots
  BY LiveTypes
<1>1. HiddenUntilPublished'
  BY <1>o, <1>e, <1>s DEF HiddenUntilPublished
<1>2. OffliningIsLive'
  <2>1. ASSUME NEW t \in Threads, offl[t].stage # "none"
        PROVE  /\ offl[t].slot # scan /\ entry'[offl[t].slot] = entry[offl[t].slot]
               /\ conn'[offl[t].slot] = conn[offl[t].slot]
    BY <1>e, <1>s, <1>t, <2>1 DEF OffliningIsLive
  <2> QED BY <1>o, <2>1 DEF OffliningIsLive, Alive, InPublication
<1>3. OnlineIsPublished'
  BY <1>o, <1>e DEF OnlineIsPublished, InPublication
<1>4. StampIsRecent'
  BY <1>o, <1>e DEF StampIsRecent, StampBounds, Busy
<1>5. PointersAreLive'
  BY <1>o, <1>e, <1>s, <1>t DEF PointersAreLive
<1>6. KeyOfSlot'
  BY <1>o, <1>e, <1>s DEF KeyOfSlot, Newest, Creating
<1> QED BY <1>1, <1>2, <1>3, <1>4, <1>5, <1>6

(* Publishing makes an online, unstamped connection visible. *)
LEMMA LivePublish ==
    ASSUME IInv, LiveInv, CreatePublish
    PROVE  LiveInv'
<1> USE DEF LiveInv
<1>s. scan \in Slots /\ entry[scan].used
  BY DEF IInv, AcceptKnows, CreatePublish
<1>o. /\ pc = "publish" /\ pc' = "idle"
      /\ UNCHANGED <<now, conn, born, offl, reader, held, keys>>
  BY DEF CreatePublish, readVars
<1>e. /\ \A s \in Slots : /\ entry'[s].used = entry[s].used
                          /\ entry'[s].created_at = entry[s].created_at
                          /\ s # scan => entry'[s].will_delete = entry[s].will_delete
      /\ ~entry'[scan].will_delete
  BY <1>s DEF CreatePublish, IInv, TypeOK, Entry
<1>p. /\ conn[scan].online /\ conn[scan].offline_at = 0
      /\ \A s \in Slots : InPublication(s) <=> s = scan
      /\ \A s : ~InPublication(s)'
  BY <1>o DEF HiddenUntilPublished, InPublication
<1>t. /\ \A t \in Threads : offl[t].slot \in Slots
      /\ reader # NoPointer => reader.slot \in Slots
      /\ held # NoPointer => held.slot \in Slots
  BY LiveTypes
<1>1. HiddenUntilPublished'
  BY <1>o, <1>e, <1>s DEF HiddenUntilPublished
<1>2. OffliningIsLive'
  <2>1. \A t \in Threads : ~InPublication(offl[t].slot)'
    BY <1>o DEF InPublication
  <2> QED BY <1>o, <1>e, <1>t, <2>1 DEF OffliningIsLive, Alive
<1>3. OnlineIsPublished'
  BY <1>o, <1>e, <1>p DEF OnlineIsPublished
<1>4. StampIsRecent'
  <2>1. ASSUME NEW s \in Slots, entry'[s].used, conn'[s].offline_at # 0 PROVE StampBounds(s)'
    BY <1>o, <1>e, <1>p, <2>1 DEF StampIsRecent, StampBounds, Busy
  <2> QED BY <2>1 DEF StampIsRecent
<1>5. PointersAreLive'
  BY <1>o, <1>e, <1>t DEF PointersAreLive
<1>6. KeyOfSlot'
  BY <1>o, <1>e DEF KeyOfSlot, Newest, Creating
<1> QED BY <1>1, <1>2, <1>3, <1>4, <1>5, <1>6

(* An object is destroyed SecureDeletion after its stamp: by then no thread *)
(* is inside set_offline with it, no walk or task points at it, and its     *)
(* entry is hidden.                                                          *)
LEMMA LiveDelete ==
    ASSUME HoldersAreQuick, IInv, Clocks, LiveInv, CleanDelete, NoEarlyDelete'
    PROVE  LiveInv'
<1> USE DEF LiveInv
<1>t. /\ now \in Nat
      /\ \A s \in Slots : conn[s].offline_at \in Nat
      /\ \A t \in Threads : offl[t].slot \in Slots /\ offl[t].at \in Nat
      /\ \A k \in keys : k.at \in Nat
      /\ reader # NoPointer => reader.slot \in Slots /\ reader.at \in Nat
      /\ held # NoPointer => held.slot \in Slots /\ held.at \in Nat
      /\ MaxStall \in Nat /\ MaxHold \in Nat /\ SecureDeletion \in Nat \ {0}
  BY LiveTypes
<1>e. /\ scan \in Slots /\ entry[scan].used
      /\ conn'[scan] = NoConn
      /\ \A s \in Slots \ {scan} : conn'[s] = conn[s]
      /\ ~entry'[scan].used /\ entry'[scan].will_delete = entry[scan].will_delete
      /\ \A s \in Slots \ {scan} : entry'[s] = entry[s]
  BY DeleteEffect DEF CleanDelete
<1>o. /\ pc = "clean" /\ pc' = "uncount" /\ scan' = scan
      /\ UNCHANGED <<now, born, offl, reader, held, keys>>
  BY DEF CleanDelete, readVars
<1>d. conn[scan].offline_at # 0 /\ now >= conn[scan].offline_at + SecureDeletion
  BY DEF CleanDelete, NoEarlyDelete, IsSafeDelete
<1>b. StampBounds(scan)
  BY <1>e, <1>d DEF StampIsRecent
<1>q. 2 * MaxStall + MaxHold < SecureDeletion
  BY DEF HoldersAreQuick
<1>u. \A t \in Threads : offl[t].stage # "none" => offl[t].slot # scan
  <2>1. SUFFICES ASSUME NEW t \in Threads, offl[t].stage # "none", offl[t].slot = scan
                 PROVE  FALSE
    OBVIOUS
  <2>2. offl[t].at <= conn[scan].offline_at + MaxStall
    BY <1>b, <2>1 DEF StampBounds, Busy
  <2>3. now <= offl[t].at + MaxStall
    BY <2>1 DEF Clocks
  <2> QED BY <1>t, <1>e, <1>d, <1>q, <2>2, <2>3
<1>r. reader # NoPointer => reader.slot # scan
  <2>1. SUFFICES ASSUME reader # NoPointer, reader.slot = scan PROVE FALSE
    OBVIOUS
  <2>2. reader.at <= conn[scan].offline_at + MaxStall /\ now <= reader.at + MaxStall
    BY <1>b, <2>1 DEF StampBounds, Clocks
  <2> QED BY <1>t, <1>e, <1>d, <1>q, <2>1, <2>2
<1>h. held # NoPointer => held.slot # scan
  <2>1. SUFFICES ASSUME held # NoPointer, held.slot = scan PROVE FALSE
    OBVIOUS
  <2>2. held.at <= conn[scan].offline_at + 2 * MaxStall /\ now <= held.at + MaxHold
    BY <1>b, <2>1 DEF StampBounds, Clocks
  <2> QED BY <1>t, <1>e, <1>d, <1>q, <2>1, <2>2
<1>w. entry[scan].will_delete
  BY <1>b, <1>u DEF StampBounds, Busy
<1>1. HiddenUntilPublished'
  BY <1>o, <1>e, <1>w DEF HiddenUntilPublished
<1>2. OffliningIsLive'
  <2>1. ASSUME NEW t \in Threads, offl[t].stage # "none"
        PROVE  /\ entry'[offl[t].slot] = entry[offl[t].slot]
               /\ conn'[offl[t].slot] = conn[offl[t].slot]
    BY <1>e, <1>t, <1>u, <2>1
  <2> QED BY <1>o, <2>1 DEF OffliningIsLive, Alive, InPublication
<1>3. OnlineIsPublished'
  BY <1>o, <1>e DEF OnlineIsPublished, InPublication
<1>4. StampIsRecent'
  BY <1>o, <1>e DEF StampIsRecent, StampBounds, Busy
<1>5. PointersAreLive'
  BY <1>o, <1>e, <1>t, <1>r, <1>h DEF PointersAreLive
<1>6. KeyOfSlot'
  <2>1. \A k \in keys : k.slot = scan => k.at < now
    <3>1. \A k \in keys : k.slot = scan => k.at <= conn[scan].offline_at
      BY <1>b DEF StampBounds
    <3> QED BY <1>t, <1>e, <1>d, <3>1
  <2> QED BY <1>o, <1>e, <2>1 DEF KeyOfSlot, Newest, Creating
<1> QED BY <1>1, <1>2, <1>3, <1>4, <1>5, <1>6

(* A thread enters set_offline with a published, online object. *)
LEMMA LiveBegin ==
    ASSUME IInv, Clocks, KeysKnown, LiveInv, NEW t \in Threads, NEW s \in Slots, Begins(t, s)
    PROVE  LiveInv'
<1> USE DEF LiveInv
<1>o. /\ offl[t].stage = "none" /\ entry[s].used /\ conn[s].online
      /\ pc = "clean" \/ ~entry[s].will_delete
      /\ SameSlotWork
      /\ UNCHANGED <<now, entry, conn, born, reader, held, keys>>
  BY DEF Begins
<1>b. /\ offl'[t].stage = "flag" /\ offl'[t].slot = s
      /\ offl'[t].id = conn[s].id /\ offl'[t].at = now
      /\ \A u \in Threads \ {t} : offl'[u] = offl[u]
  BY BeginEffect
<1>p. /\ \A r \in Slots : InPublication(r)' <=> InPublication(r)
      /\ \A r \in Slots : (Creating /\ scan = r)' <=> (Creating /\ scan = r)
      /\ pc' = "publish" <=> pc = "publish"
      /\ pc' = "publish" => scan' = scan
      /\ pc' = "store" <=> pc = "store"
  BY <1>o DEF SameSlotWork, InPublication, Creating
<1>i. ~InPublication(s)
  BY <1>o DEF InPublication, HiddenUntilPublished
<1>z. conn[s].offline_at = 0
  BY <1>o, <1>i DEF OnlineIsPublished
<1>t. \A u \in Threads : offl[u].slot \in Slots
  BY LiveTypes
<1>1. HiddenUntilPublished'
  BY <1>o, <1>p DEF HiddenUntilPublished
<1>2. OffliningIsLive'
  <2>1. ASSUME NEW u \in Threads, offl'[u].stage # "none"
        PROVE  /\ entry'[offl'[u].slot].used /\ Alive(u)' /\ ~InPublication(offl[u].slot)'
               /\ offl'[u].stage \in {"tick", "entry"} => ~conn'[offl'[u].slot].online
               /\ \A k \in keys' : k.slot = offl'[u].slot => k.at <= offl'[u].at
    <3>1. CASE u = t
      BY <1>o, <1>b, <1>p, <1>i, <3>1 DEF Alive, InPublication, KeysKnown
    <3>2. CASE u # t
      <4>1. offl'[u] = offl[u]
        BY <1>b, <3>2
      <4>2. InPublication(offl[u].slot)' <=> InPublication(offl[u].slot)
        BY <1>o, <4>1 DEF InPublication, SameSlotWork
      <4> QED BY <1>o, <2>1, <4>1, <4>2 DEF OffliningIsLive, Alive
    <3> QED BY <3>1, <3>2
  <2> QED BY <2>1 DEF OffliningIsLive
<1>3. OnlineIsPublished'
  BY <1>o, <1>p DEF OnlineIsPublished
<1>4. StampIsRecent'
  <2>1. ASSUME NEW r \in Slots, entry[r].used, conn[r].offline_at # 0
        PROVE  StampBounds(r)'
    <3>1. r # s /\ StampBounds(r)
      BY <1>z, <2>1 DEF StampIsRecent
    <3>2. \A u \in Threads : /\ Busy(u, r)' <=> Busy(u, r)
                             /\ Busy(u, r) => offl'[u] = offl[u]
      BY <1>o, <1>b, <3>1 DEF Busy
    <3> QED BY <1>o, <3>1, <3>2 DEF StampBounds
  <2> QED BY <1>o, <2>1 DEF StampIsRecent
<1>5. PointersAreLive'
  BY <1>o DEF PointersAreLive
<1>6. KeyOfSlot'
  BY <1>o, <1>p DEF KeyOfSlot, Newest
<1> QED BY <1>1, <1>2, <1>3, <1>4, <1>5, <1>6

(* set_offline clears _is_online of its object. *)
LEMMA LiveFlag ==
    ASSUME IInv, LiveInv, NEW t \in Threads, OfflineFlag(t)
    PROVE  LiveInv'
<1> USE DEF LiveInv
<1>a. offl[t].stage = "flag" /\ Alive(t) /\ entry[offl[t].slot].used
      /\ ~InPublication(offl[t].slot)
  BY DEF OfflineFlag, OffliningIsLive
<1>e. /\ offl[t].slot \in Slots /\ offl'[t].stage = "tick"
      /\ \A u \in Threads : /\ offl'[u].slot = offl[u].slot /\ offl'[u].id = offl[u].id
                            /\ offl'[u].at = offl[u].at
                            /\ u # t => offl'[u].stage = offl[u].stage
      /\ ~conn'[offl[t].slot].online
      /\ \A s \in Slots : /\ conn'[s].id = conn[s].id
                          /\ conn'[s].offline_at = conn[s].offline_at
                          /\ s # offl[t].slot => conn'[s].online = conn[s].online
      /\ UNCHANGED <<now, entry, pc, scan, born, reader, held, keys>>
  BY <1>a, FlagEffect
<1>t. /\ \A u \in Threads : offl[u].slot \in Slots
      /\ reader # NoPointer => reader.slot \in Slots
      /\ held # NoPointer => held.slot \in Slots
  BY LiveTypes
<1>1. HiddenUntilPublished'
  <2>1. pc = "publish" => scan \in Slots /\ scan # offl[t].slot
    BY <1>a DEF InPublication, IInv, AcceptKnows
  <2> QED BY <1>e, <2>1 DEF HiddenUntilPublished
<1>2. OffliningIsLive'
  <2>1. ASSUME NEW u \in Threads, offl'[u].stage # "none"
        PROVE  /\ entry[offl[u].slot].used /\ conn'[offl[u].slot].id = offl[u].id
               /\ ~InPublication(offl[u].slot)
               /\ offl'[u].stage \in {"tick", "entry"} => ~conn'[offl[u].slot].online
               /\ \A k \in keys : k.slot = offl[u].slot => k.at <= offl[u].at
    BY <1>a, <1>e, <1>t, <2>1 DEF OffliningIsLive, Alive
  <2>2. \A u \in Threads : InPublication(offl[u].slot)' <=> InPublication(offl[u].slot)
    BY <1>e DEF InPublication
  <2> QED BY <1>e, <2>1, <2>2 DEF OffliningIsLive, Alive
<1>3. OnlineIsPublished'
  BY <1>e DEF OnlineIsPublished, InPublication
<1>4. StampIsRecent'
  <2>1. ASSUME NEW s \in Slots, entry[s].used, conn[s].offline_at # 0
        PROVE  StampBounds(s)'
    <3>1. StampBounds(s)
      BY <2>1 DEF StampIsRecent
    <3>2. \A u \in Threads : /\ Busy(u, s)' <=> Busy(u, s)
                             /\ offl'[u].stage = "entry" <=> offl[u].stage = "entry"
      BY <1>a, <1>e DEF Busy
    <3> QED BY <1>e, <3>1, <3>2 DEF StampBounds
  <2> QED BY <1>e, <2>1 DEF StampIsRecent
<1>5. PointersAreLive'
  BY <1>e, <1>t DEF PointersAreLive
<1>6. KeyOfSlot'
  BY <1>e DEF KeyOfSlot, Newest, Creating
<1> QED BY <1>1, <1>2, <1>3, <1>4, <1>5, <1>6

(* set_offline stamps its object: whoever is busy with it now came in at    *)
(* most MaxStall after the stamp.                                            *)
LEMMA LiveStamp ==
    ASSUME IInv, Clocks, LiveInv, NEW t \in Threads, OfflineTick(t)
    PROVE  LiveInv'
<1> USE DEF LiveInv
<1>a. /\ offl[t].stage = "tick" /\ Alive(t) /\ entry[offl[t].slot].used
      /\ ~InPublication(offl[t].slot) /\ ~conn[offl[t].slot].online
      /\ \A k \in keys : k.slot = offl[t].slot => k.at <= offl[t].at
  BY DEF OfflineTick, OffliningIsLive
<1>e. /\ offl[t].slot \in Slots /\ offl'[t].stage = "entry"
      /\ \A u \in Threads : /\ offl'[u].slot = offl[u].slot /\ offl'[u].id = offl[u].id
                            /\ offl'[u].at = offl[u].at
                            /\ u # t => offl'[u].stage = offl[u].stage
      /\ conn'[offl[t].slot].offline_at = offl[t].at
      /\ \A s \in Slots : /\ conn'[s].id = conn[s].id /\ conn'[s].online = conn[s].online
                          /\ s # offl[t].slot => conn'[s].offline_at = conn[s].offline_at
      /\ UNCHANGED <<now, entry, pc, scan, born, reader, held, keys>>
  BY <1>a, TickEffect
<1>t. /\ now \in Nat
      /\ \A u \in Threads : offl[u].slot \in Slots /\ offl[u].at \in Nat
      /\ reader # NoPointer => reader.slot \in Slots /\ reader.at \in Nat
      /\ held # NoPointer => held.slot \in Slots /\ held.at \in Nat
      /\ MaxStall \in Nat
  BY LiveTypes
<1>n. \A u \in Threads : Busy(u, offl[t].slot)' => offl'[u].at <= offl[t].at + MaxStall
  <2>1. now <= offl[t].at + MaxStall
    BY <1>a DEF Clocks
  <2>2. \A u \in Threads : offl[u].stage # "none" => offl[u].at <= now
    BY DEF Clocks
  <2>3. \A u \in Threads : offl'[u].stage # "none" => offl[u].stage # "none"
    BY <1>a, <1>e
  <2> QED BY <1>e, <1>t, <2>1, <2>2, <2>3 DEF Busy
<1>1. HiddenUntilPublished'
  <2>1. pc = "publish" => scan \in Slots /\ scan # offl[t].slot
    BY <1>a DEF InPublication, IInv, AcceptKnows
  <2> QED BY <1>e, <2>1 DEF HiddenUntilPublished
<1>2. OffliningIsLive'
  <2>1. ASSUME NEW u \in Threads, offl'[u].stage # "none"
        PROVE  /\ entry[offl[u].slot].used /\ conn'[offl[u].slot].id = offl[u].id
               /\ ~InPublication(offl[u].slot)
               /\ offl'[u].stage \in {"tick", "entry"} => ~conn'[offl[u].slot].online
               /\ \A k \in keys : k.slot = offl[u].slot => k.at <= offl[u].at
    BY <1>a, <1>e, <1>t, <2>1 DEF OffliningIsLive, Alive
  <2>2. \A u \in Threads : InPublication(offl[u].slot)' <=> InPublication(offl[u].slot)
    BY <1>e DEF InPublication
  <2> QED BY <1>e, <2>1, <2>2 DEF OffliningIsLive, Alive
<1>3. OnlineIsPublished'
  BY <1>a, <1>e DEF OnlineIsPublished, InPublication
<1>4. StampIsRecent'
  <2>1. ASSUME NEW s \in Slots, entry[s].used, conn'[s].offline_at # 0, s # offl[t].slot
        PROVE  StampBounds(s)'
    <3>1. StampBounds(s)
      BY <1>e, <2>1 DEF StampIsRecent
    <3>2. \A u \in Threads : /\ Busy(u, s)' <=> Busy(u, s)
                             /\ Busy(u, s) => offl'[u].stage = offl[u].stage
      BY <1>a, <1>e, <2>1 DEF Busy
    <3> QED BY <1>e, <2>1, <3>1, <3>2 DEF StampBounds
  <2>2. ASSUME NEW s \in Slots, s = offl[t].slot PROVE StampBounds(s)'
    <3>1. \A u \in Threads : Busy(u, s)' => offl'[u].at <= conn'[s].offline_at + MaxStall
      BY <1>n, <1>e, <2>2 DEF Busy
    <3>2. reader # NoPointer => reader.at <= offl[t].at + MaxStall
      BY <1>a, <1>t DEF Clocks
    <3>3. held # NoPointer => held.at <= offl[t].at + 2 * MaxStall
      BY <1>a, <1>t DEF Clocks
    <3>4. Busy(t, s)' /\ offl'[t].stage = "entry" /\ offl'[t].at = conn'[s].offline_at
      BY <1>e, <2>2 DEF Busy
    <3> QED BY <1>a, <1>e, <2>2, <3>1, <3>2, <3>3, <3>4 DEF StampBounds
  <2> QED BY <1>e, <2>1, <2>2 DEF StampIsRecent
<1>5. PointersAreLive'
  BY <1>e, <1>t DEF PointersAreLive
<1>6. KeyOfSlot'
  BY <1>e DEF KeyOfSlot, Newest, Creating
<1> QED BY <1>1, <1>2, <1>3, <1>4, <1>5, <1>6

(* on_connection_offline hides the entry of an object that is offline. *)
LEMMA LiveHide ==
    ASSUME IInv, LiveInv, NEW t \in Threads, OfflineEntry(t)
    PROVE  LiveInv'
<1> USE DEF LiveInv
<1>a. /\ offl[t].stage = "entry" /\ Alive(t) /\ ~conn[offl[t].slot].online
  BY DEF OfflineEntry, OffliningIsLive
<1>e. /\ offl[t].slot \in Slots /\ offl'[t].stage = "none"
      /\ \A u \in Threads \ {t} : offl'[u] = offl[u]
      /\ entry'[offl[t].slot].will_delete
      /\ \A s \in Slots : /\ entry'[s].used = entry[s].used
                          /\ entry'[s].created_at = entry[s].created_at
                          /\ s # offl[t].slot =>
                                 entry'[s].will_delete = entry[s].will_delete
      /\ UNCHANGED <<now, conn, pc, scan, born, reader, held, keys>>
  BY <1>a, EntryEffect
<1>t. /\ \A u \in Threads : offl[u].slot \in Slots
      /\ reader # NoPointer => reader.slot \in Slots
      /\ held # NoPointer => held.slot \in Slots
  BY LiveTypes
<1>1. HiddenUntilPublished'
  <2>1. pc = "publish" => scan \in Slots
    BY DEF IInv, AcceptKnows
  <2> QED BY <1>e, <2>1 DEF HiddenUntilPublished
<1>2. OffliningIsLive'
  <2>1. ASSUME NEW u \in Threads, offl'[u].stage # "none"
        PROVE  /\ entry'[offl'[u].slot].used /\ Alive(u)' /\ ~InPublication(offl[u].slot)'
               /\ offl'[u].stage \in {"tick", "entry"} => ~conn'[offl'[u].slot].online
               /\ \A k \in keys' : k.slot = offl'[u].slot => k.at <= offl'[u].at
    <3>1. offl'[u] = offl[u] /\ offl[u].stage # "none"
      BY <1>e, <2>1
    <3>2. InPublication(offl[u].slot)' <=> InPublication(offl[u].slot)
      BY <1>e, <3>1 DEF InPublication
    <3> QED BY <1>e, <1>t, <3>1, <3>2 DEF OffliningIsLive, Alive
  <2> QED BY <2>1 DEF OffliningIsLive
<1>3. OnlineIsPublished'
  BY <1>a, <1>e DEF OnlineIsPublished, InPublication
<1>4. StampIsRecent'
  <2>1. ASSUME NEW s \in Slots, entry[s].used, conn[s].offline_at # 0
        PROVE  StampBounds(s)'
    <3>1. StampBounds(s)
      BY <2>1 DEF StampIsRecent
    <3>2. \A u \in Threads : Busy(u, s)' => Busy(u, s) /\ offl'[u] = offl[u]
      BY <1>e DEF Busy
    <3>3. ASSUME ~entry'[s].will_delete
          PROVE  \E u \in Threads : Busy(u, s)' /\ offl'[u].stage = "entry"
                                    /\ offl'[u].at = conn'[s].offline_at
      <4>1. s # offl[t].slot /\ ~entry[s].will_delete
        BY <1>e, <3>3
      <4>2. PICK u \in Threads : Busy(u, s) /\ offl[u].stage = "entry"
                                 /\ offl[u].at = conn[s].offline_at
        BY <3>1, <4>1 DEF StampBounds
      <4>3. u # t
        BY <4>1, <4>2 DEF Busy
      <4> QED BY <1>e, <4>2, <4>3 DEF Busy
    <3> QED BY <1>e, <3>1, <3>2, <3>3 DEF StampBounds
  <2> QED BY <1>e, <2>1 DEF StampIsRecent
<1>5. PointersAreLive'
  BY <1>e, <1>t DEF PointersAreLive
<1>6. KeyOfSlot'
  BY <1>e DEF KeyOfSlot, Newest, Creating
<1> QED BY <1>1, <1>2, <1>3, <1>4, <1>5, <1>6

(* A receive only refreshes last_seen. *)
LEMMA LiveInteract ==
    ASSUME IInv, LiveInv, NEW s \in Slots, Interact(s)
    PROVE  LiveInv'
<1> USE DEF LiveInv
<1>e. /\ \A r \in Slots : /\ conn'[r].id = conn[r].id /\ conn'[r].online = conn[r].online
                          /\ conn'[r].offline_at = conn[r].offline_at
      /\ UNCHANGED <<now, entry, pc, scan, born, offl, reader, held, keys>>
  BY DEF Interact, IInv, TypeOK, Conn, acceptVars, readVars
<1>t. /\ \A u \in Threads : offl[u].slot \in Slots
      /\ reader # NoPointer => reader.slot \in Slots
      /\ held # NoPointer => held.slot \in Slots
      /\ pc = "publish" => scan \in Slots
  BY LiveTypes DEF IInv, AcceptKnows
<1>1. HiddenUntilPublished'
  BY <1>e, <1>t DEF HiddenUntilPublished
<1>2. OffliningIsLive'
  <2>1. \A u \in Threads : InPublication(offl[u].slot)' <=> InPublication(offl[u].slot)
    BY <1>e DEF InPublication
  <2> QED BY <1>e, <1>t, <2>1 DEF OffliningIsLive, Alive
<1>3. OnlineIsPublished'
  BY <1>e DEF OnlineIsPublished, InPublication
<1>4. StampIsRecent'
  BY <1>e DEF StampIsRecent, StampBounds, Busy
<1>5. PointersAreLive'
  BY <1>e, <1>t DEF PointersAreLive
<1>6. KeyOfSlot'
  BY <1>e DEF KeyOfSlot, Newest, Creating
<1> QED BY <1>1, <1>2, <1>3, <1>4, <1>5, <1>6

(* The steps of readers and of the clock leave the table, the threads in    *)
(* set_offline and the keys alone.                                           *)
ReadersOnly == UNCHANGED <<entry, conn, pc, scan, born, offl, keys>>

LEMMA LiveReaders ==
    ASSUME IInv, LiveInv, ReadersOnly, now \in Nat, now' \in Nat, now' >= now,
           PointersAreLive',
           \A s \in Slots : entry[s].used /\ conn[s].offline_at # 0 =>
              /\ reader' # NoPointer /\ reader'.slot = s =>
                    reader'.at <= conn[s].offline_at + MaxStall
              /\ held' # NoPointer /\ held'.slot = s =>
                    held'.at <= conn[s].offline_at + 2 * MaxStall
    PROVE  LiveInv'
<1> USE DEF LiveInv, ReadersOnly
<1>t. \A k \in keys : k.at \in Nat
  BY LiveTypes
<1>1. HiddenUntilPublished'
  BY DEF HiddenUntilPublished
<1>2. OffliningIsLive'
  <2>1. \A u \in Threads : InPublication(offl[u].slot)' <=> InPublication(offl[u].slot)
    BY DEF InPublication
  <2> QED BY <2>1 DEF OffliningIsLive, Alive
<1>3. OnlineIsPublished'
  BY DEF OnlineIsPublished, InPublication
<1>4. StampIsRecent'
  <2>1. ASSUME NEW s \in Slots, entry[s].used, conn[s].offline_at # 0
        PROVE  StampBounds(s)'
    <3>1. StampBounds(s)
      BY <2>1 DEF StampIsRecent
    <3> QED BY <2>1, <3>1 DEF StampBounds, Busy
  <2> QED BY <2>1 DEF StampIsRecent
<1>6. KeyOfSlot'
  BY <1>t DEF KeyOfSlot, Newest, Creating
<1> QED BY <1>1, <1>2, <1>3, <1>4, <1>6

(* A walk only picks up a connection that is visible, so not stamped for    *)
(* longer than a stay in set_offline.                                        *)
LEMMA LiveCheck ==
    ASSUME IInv, Clocks, LiveInv, NEW s \in Slots, ReaderCheck(s)
    PROVE  LiveInv'
<1> USE DEF LiveInv
<1>t. now \in Nat
  BY LiveTypes
<1>o. /\ ~entry[s].will_delete /\ held' = held /\ now' = now /\ ReadersOnly
      /\ reader'.slot = s /\ reader'.id = conn[s].id /\ reader'.at = now
  BY DEF ReaderCheck, ReadersOnly, acceptVars
<1>u. entry[s].used
  BY <1>o DEF HiddenUntilPublished
<1>1. PointersAreLive'
  BY <1>o, <1>u DEF PointersAreLive, ReadersOnly
<1>2. conn[s].offline_at # 0 => now <= conn[s].offline_at + MaxStall
  <2>1. ASSUME conn[s].offline_at # 0 PROVE now <= conn[s].offline_at + MaxStall
    <3>1. PICK t \in Threads : Busy(t, s) /\ offl[t].at = conn[s].offline_at
      BY <1>o, <1>u, <2>1 DEF StampIsRecent, StampBounds
    <3> QED BY <3>1 DEF Busy, Clocks
  <2> QED BY <2>1
<1>3. \A r \in Slots : entry[r].used /\ conn[r].offline_at # 0 =>
        /\ reader' # NoPointer /\ reader'.slot = r =>
              reader'.at <= conn[r].offline_at + MaxStall
        /\ held' # NoPointer /\ held'.slot = r =>
              held'.at <= conn[r].offline_at + 2 * MaxStall
  BY <1>o, <1>2 DEF StampIsRecent, StampBounds
<1> QED BY <1>t, <1>o, <1>1, <1>3, LiveReaders

(* The walk dereferences its entry, and may leave with the pointer. *)
LEMMA LiveUse ==
    ASSUME IInv, Clocks, LiveInv, ReaderUse
    PROVE  LiveInv'
<1> USE DEF LiveInv
<1>t. /\ now \in Nat /\ \A s \in Slots : conn[s].offline_at \in Nat
      /\ reader.slot \in Slots /\ reader.at \in Nat /\ MaxStall \in Nat
  BY LiveTypes DEF ReaderUse
<1>k. reader \in [slot : Slots, id : Nat, at : Nat]
  BY DEF ReaderUse, IInv, TypeOK, Pointer
<1>o. /\ reader # NoPointer /\ reader' = NoPointer /\ now' = now /\ ReadersOnly
      /\ \/ held' = held
         \/ held'.slot = reader.slot /\ held'.id = conn[reader.slot].id /\ held'.at = now
  BY <1>k DEF ReaderUse, ReadersOnly, acceptVars
<1>1. PointersAreLive'
  BY <1>o DEF PointersAreLive, ReadersOnly
<1>2. ASSUME NEW s \in Slots, entry[s].used, conn[s].offline_at # 0, held' # NoPointer,
             held'.slot = s
      PROVE  held'.at <= conn[s].offline_at + 2 * MaxStall
  <2>1. StampBounds(s)
    BY <1>2 DEF StampIsRecent
  <2>2. CASE held' = held
    BY <1>2, <2>1, <2>2 DEF StampBounds
  <2>3. CASE held'.slot = reader.slot /\ held'.at = now
    <3>1. reader.at <= conn[s].offline_at + MaxStall /\ now <= reader.at + MaxStall
      BY <1>2, <1>o, <2>1, <2>3 DEF StampBounds, Clocks
    <3> QED BY <1>t, <1>2, <2>3, <3>1
  <2> QED BY <1>o, <2>2, <2>3
<1> QED BY <1>t, <1>o, <1>1, <1>2, LiveReaders

(* The task drops its pointer. *)
LEMMA LiveDone ==
    ASSUME IInv, LiveInv, TaskDone
    PROVE  LiveInv'
<1> USE DEF LiveInv
<1>o. held' = NoPointer /\ reader' = reader /\ now' = now /\ now \in Nat /\ ReadersOnly
  BY LiveTypes DEF TaskDone, ReadersOnly, acceptVars
<1>1. PointersAreLive'
  BY <1>o DEF PointersAreLive, ReadersOnly
<1> QED BY <1>o, <1>1, LiveReaders DEF StampIsRecent, StampBounds

(* Time passes. *)
LEMMA LiveClock ==
    ASSUME IInv, LiveInv, Tick
    PROVE  LiveInv'
<1> USE DEF LiveInv
<1>o. /\ held' = held /\ reader' = reader /\ now \in Nat /\ now' = now + 1 /\ ReadersOnly
  BY LiveTypes DEF Tick, ReadersOnly, acceptVars, readVars
<1>1. PointersAreLive'
  BY <1>o DEF PointersAreLive, ReadersOnly
<1> QED BY <1>o, <1>1, LiveReaders DEF StampIsRecent, StampBounds

(* No step takes an early deletion back, and only CleanDelete makes one. *)
LEMMA EarlyGrows ==
    ASSUME IInv, Clocks, [Next]_vars
    PROVE  early' = early \/ (CleanDelete /\ early \subseteq early')
<1>1. CASE CleanDelete
  BY <1>1 DEF CleanDelete
<1> QED
  BY <1>1, StepKinds DEF AcceptMoves, PickSlot, CreateCount, CreateStore, CreatePublish,
     Begins, OfflineFlag, OfflineTick, OfflineEntry, ReaderCheck, Interact, ReaderUse,
     TaskDone, Tick, acceptVars

(* Secure deletion holds across every step. *)
LEMMA TimedStep ==
    HoldersAreQuick /\ IInv /\ IInv' /\ TimedInv /\ [Next]_vars => TimedInv'
<1> SUFFICES ASSUME HoldersAreQuick, IInv, IInv', TimedInv, [Next]_vars PROVE TimedInv'
  OBVIOUS
<1>1. Clocks /\ KeysKnown
  BY DEF TimedInv
<1>2. Clocks' /\ KeysKnown'
  BY <1>1, ClocksStep, KeysKnownStep
<1>3. ASSUME NoEarlyDelete' PROVE LiveInv'
  <2>1. NoEarlyDelete
    BY <1>1, <1>3, EarlyGrows DEF NoEarlyDelete
  <2>2. LiveInv
    BY <2>1 DEF TimedInv
  <2>3. CASE \E t \in Threads, s \in Slots : Begins(t, s)
    BY <1>1, <2>2, <2>3, LiveBegin
  <2>4. CASE \E t \in Threads : OfflineFlag(t) \/ OfflineTick(t) \/ OfflineEntry(t)
    BY <1>1, <2>2, <2>4, LiveFlag, LiveStamp, LiveHide
  <2>5. CASE \E s \in Slots : ReaderCheck(s) \/ Interact(s)
    BY <1>1, <2>2, <2>5, LiveCheck, LiveInteract
  <2>6. CASE CleanDelete
    BY <1>1, <1>3, <2>2, <2>6, LiveDelete
  <2> QED BY <1>1, <2>2, <2>3, <2>4, <2>5, <2>6, StepKinds, LiveAccept, LivePick,
             LiveCount, LiveStore, LivePublish, LiveUse, LiveDone, LiveClock
<1> QED BY <1>2, <1>3 DEF TimedInv

(* Secure deletion holds in every reachable state of an instance whose      *)
(* threads and tasks are quick enough.                                      *)
THEOREM SecureDeletionHolds == HoldersAreQuick => (Spec => []TimedInv)
<1> SUFFICES ASSUME HoldersAreQuick PROVE Spec => []TimedInv
  OBVIOUS
<1>1. IInv /\ IInv' /\ TimedInv /\ [Next]_vars => TimedInv'
  BY TimedStep
<1> QED BY <1>1, TimedInit, Invariant, PTL DEF Spec

(* for_each_connection and its callers dereference the object they saw.     *)
THEOREM WalksAreSafe == HoldersAreQuick => (Spec => []WalkFindsObject)
<1> SUFFICES ASSUME HoldersAreQuick PROVE Spec => []WalkFindsObject
  OBVIOUS
<1>1. IInv /\ TimedInv => WalkFindsObject
  <2> SUFFICES ASSUME IInv, TimedInv, NoEarlyDelete, reader # NoPointer
               PROVE  reader.id # NoId /\ conn[reader.slot].id = reader.id
    BY DEF WalkFindsObject
  <2> QED BY LiveTypes DEF TimedInv, LiveInv, PointersAreLive, IInv, UsedOwnsObject
<1> QED BY <1>1, SecureDeletionHolds, Invariant, PTL

(* WorldPlayerTask runs its handler on players that still exist.            *)
THEOREM TaskPointersAreSafe == HoldersAreQuick => (Spec => []TaskPointerIsAlive)
<1> SUFFICES ASSUME HoldersAreQuick PROVE Spec => []TaskPointerIsAlive
  OBVIOUS
<1>1. IInv /\ TimedInv => TaskPointerIsAlive
  <2> SUFFICES ASSUME IInv, TimedInv, NoEarlyDelete, held # NoPointer
               PROVE  held.id # NoId /\ conn[held.slot].id = held.id
    BY DEF TaskPointerIsAlive
  <2> QED BY LiveTypes DEF TimedInv, LiveInv, PointersAreLive, IInv, UsedOwnsObject
<1> QED BY <1>1, SecureDeletionHolds, Invariant, PTL

(* A positive multiple of a modulus is not smaller than it. *)
LEMMA NoSmallMultiple ==
    ASSUME NEW m \in Nat \ {0}, NEW k \in Int, 0 < m * k
    PROVE  m <= m * k
<1>1. CASE k > 0
  BY <1>1
<1>2. CASE k <= 0
  BY <1>2
<1> QED BY <1>1, <1>2

(* Two ticks less than one turn of the counter apart read differently on    *)
(* it: the 32-bit comparison of ConnectionEnvironment::is_expired is sound. *)
LEMMA TicksDiffer ==
    ASSUME NEW a \in Nat, NEW b \in Nat, a < b, b - a < TickModulus
    PROVE  a % TickModulus # b % TickModulus
<1> DEFINE m == TickModulus
           p == a \div m
           q == b \div m
<1> SUFFICES ASSUME a % m = b % m PROVE FALSE
  OBVIOUS
<1>m. m \in Nat \ {0}
  BY TableAssumption
<1>1. /\ p \in Int /\ q \in Int /\ a % m \in Int
      /\ a = m * p + (a % m) /\ b = m * q + (b % m)
  BY <1>m
<1> HIDE DEF m, p, q
<1>2. b - a = m * (q - p) /\ q - p \in Int
  BY <1>m, <1>1
<1> QED BY <1>m, <1>2, NoSmallMultiple DEF m

(* try_acquire_connection: within one turn of the 32-bit tick, a key whose  *)
(* entry still carries its creation tick finds the connection it was made   *)
(* for, however often the slot was reused.                                   *)
THEOREM KeysAreSafe == HoldersAreQuick => (Spec => []KeyFindsItsConnection)
<1> SUFFICES ASSUME HoldersAreQuick PROVE Spec => []KeyFindsItsConnection
  OBVIOUS
<1>1. IInv /\ TimedInv => KeyFindsItsConnection
  <2> SUFFICES ASSUME IInv, TimedInv, NoEarlyDelete, NEW k \in keys, Resolves(k),
                      now - k.at < TickModulus
               PROVE  conn[k.slot].id = k.id
    BY DEF KeyFindsItsConnection
  <2>1. /\ k.slot \in Slots /\ ~entry[k.slot].will_delete
        /\ entry[k.slot].created_at = k.created_at
    BY DEF Resolves
  <2>2. KeysKnown /\ LiveInv
    BY DEF TimedInv
  <2>3. entry[k.slot].used
    BY <2>1, <2>2 DEF LiveInv, HiddenUntilPublished
  <2>4. PICK j \in keys : /\ j.id = conn[k.slot].id /\ j.slot = k.slot /\ Newest(j)
                          /\ entry[k.slot].created_at = j.created_at
    BY <2>1, <2>2, <2>3 DEF LiveInv, KeyOfSlot
  <2>5. CASE j = k
    BY <2>4, <2>5
  <2>6. CASE j # k
    <3>1. k.at < j.at
      BY <2>4, <2>6 DEF Newest
    <3>2. now \in Nat /\ k.at \in Nat /\ j.at \in Nat /\ j.at <= now
      BY <2>2, LiveTypes DEF KeysKnown
    <3>3. k.at % TickModulus = j.at % TickModulus
      BY <2>1, <2>2, <2>4 DEF KeysKnown
    <3>4. TickModulus \in Nat
      BY TableAssumption
    <3>5. j.at - k.at < TickModulus
      BY <3>1, <3>2, <3>4
    <3> QED BY <3>1, <3>2, <3>3, <3>5, TicksDiffer
  <2> QED BY <2>5, <2>6
<1> QED BY <1>1, SecureDeletionHolds, Invariant, PTL

(* on_connection_offline hides only the connection that went offline: an    *)
(* online, published connection stays reachable through the table.          *)
THEOREM OnlineIsSafe == HoldersAreQuick => (Spec => []OnlineStaysReachable)
<1> SUFFICES ASSUME HoldersAreQuick PROVE Spec => []OnlineStaysReachable
  OBVIOUS
<1>1. IInv /\ TimedInv => OnlineStaysReachable
  <2> SUFFICES ASSUME IInv, TimedInv, NoEarlyDelete, NEW s \in Slots, conn[s].online,
                      ~(pc = "publish" /\ scan = s)
               PROVE  ~entry[s].will_delete
    BY DEF OnlineStaysReachable, OnlineIsReachable
  <2>1. entry[s].used
    BY DEF IInv, UsedOwnsObject, NoConn
  <2> QED BY <2>1 DEF TimedInv, LiveInv, OnlineIsPublished, InPublication
<1> QED BY <1>1, SecureDeletionHolds, Invariant, PTL

=============================================================================
