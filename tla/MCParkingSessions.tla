------------------------- MODULE MCParkingSessions --------------------------
(* Small instance of ParkingSessions: one parking place with a seeded city *)
(* that the updater may remove (the place is then unknown) or replace by   *)
(* another city code.                                                      *)
EXTENDS ParkingSessions, TLC

CONSTANTS c1, home

MCCodes == {1, 2}

(* What loading the segment may find: no entry, a price, or an entry whose *)
(* price is not written yet.                                               *)
MCLoads == {<<>>, 1 :> 1, 1 :> 0}

MCSeeds == <<[code |-> 1, loc |-> home, rate |-> 1]>>
=============================================================================
