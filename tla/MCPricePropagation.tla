------------------------ MODULE MCPricePropagation --------------------------
(* Small instance of PricePropagation: a seeded city 1, a city 2 that an   *)
(* operator may add, two updaters; a price of 3 has too many digits and is *)
(* printed as 2.                                                           *)
EXTENDS PricePropagation, TLC

CONSTANTS u1, u2, home, away, nowhere

MCOneCode  == {1}
MCTwoCodes == {1, 2}

MCSeeds   == <<[code |-> 1, loc |-> home, rate |-> 1]>>
MCPrinted == [q \in Rates |-> IF q = 3 THEN 2 ELSE q]
Symmetry  == Permutations(Updaters)

(* When no further run can start and none had the system to itself,        *)
(* `solo' stays Nobody and SoloRunHeals has nothing left to say.           *)
StillSolo == runs = MaxRuns => solo # Nobody
=============================================================================
