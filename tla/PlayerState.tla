---------------------------- MODULE PlayerState ----------------------------
(***************************************************************************)
(* game::PlayerState: the ordered states of a player and the two           *)
(* operations that change them.  The order matters: the code compares      *)
(* states with >=.  Neither operation is atomic or locked in the code; the *)
(* modules that use them decide which threads call them when.              *)
(***************************************************************************)
EXTENDS Naturals

invaild            == 0     \* here: the connection has no Player yet
disconnecting      == 1
disconnected       == 2
initialized        == 3
handshaking        == 4
ex_handshaking     == 5
handshaked         == 6
ex_handshaked      == 7
extension_syncing  == 8
extension_synced   == 9
level_initializing == 10
level_initialized  == 11
spawning           == 12
spawned            == 13

States == invaild .. spawned

(* PlayerState::prepare_state_transition(cur, next) *)
PrepareStateTransition(p, cur, next) ==
    [p EXCEPT !.prev = p.cur, !.cur = cur, !.next = next]

(* PlayerState::transit_state as the release build runs it, where the       *)
(* assertion on its hint is compiled out.                                   *)
TransitState(p) == [p EXCEPT !.prev = p.cur, !.cur = p.next]

=============================================================================
