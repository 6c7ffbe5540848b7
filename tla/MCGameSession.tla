--------------------------- MODULE MCGameSession ---------------------------
(* Small instances of GameSession.  A behaviour has either one connection   *)
(* and the faults that MaxFaults allows (alone), or all N connections, no   *)
(* fault and no client with CPE support: more is out of TLC's reach.        *)
EXTENDS GameSession

VARIABLE alone

MCVars == <<vars, alone>>
MCInit == Init /\ alone \in BOOLEAN
MCNext == /\ Next /\ alone' = alone
          /\ IF alone THEN \A c \in Conns \ {1} : conn'[c].life = "none"
             ELSE faults' = 0 /\ \A c \in Conns : conn'[c].cur # ex_handshaking
MCSpec == MCInit /\ [][MCNext]_MCVars

=============================================================================
