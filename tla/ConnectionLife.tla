--------------------------- MODULE ConnectionLife ---------------------------
(***************************************************************************)
(* What the connection layer promises about one connection object: it is  *)
(* created online, goes offline once and for good, and is destroyed only  *)
(* after it went offline.  ConnectionTable implements this specification. *)
(***************************************************************************)

CONSTANT Ids    \* the connection objects the server ever creates

VARIABLE phase  \* Ids -> "unborn" | "online" | "offline" | "freed"

Phases == {"unborn", "online", "offline", "freed"}

LifeInit == phase = [i \in Ids |-> "unborn"]

(* Connection::Connection, with _is_online true. *)
Connect(i) == /\ phase[i] = "unborn"
              /\ phase' = [phase EXCEPT ![i] = "online"]

(* Connection::set_offline: there is no way back online. *)
GoOffline(i) == /\ phase[i] = "online"
                /\ phase' = [phase EXCEPT ![i] = "offline"]

(* Connection::~Connection, from cleanup_expired_connection only. *)
Free(i) == /\ phase[i] = "offline"
           /\ phase' = [phase EXCEPT ![i] = "freed"]

LifeNext == \E i \in Ids : Connect(i) \/ GoOffline(i) \/ Free(i)

LifeSpec == LifeInit /\ [][LifeNext]_phase

=============================================================================
