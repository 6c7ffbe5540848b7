------------------------- MODULE MCConnectionTable -------------------------
(* Small instances of ConnectionTable.  The clock starts at SecureDeletion, *)
(* as on any machine that has been up for five seconds, so the initial      *)
(* last_offline_tick 0 already counts as long ago.                          *)
EXTENDS ConnectionTable

(* The instances that check pointers and keys keep to the timing secure     *)
(* deletion is meant for.                                                    *)
ASSUME TimingAssumption == HoldersAreQuick

=============================================================================
