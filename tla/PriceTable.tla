----------------------------- MODULE PriceTable -----------------------------
(***************************************************************************)
(* The table `prices' of data.db and the price maps that travel between    *)
(* prices.txt, shared memory and prices_cache.                             *)
(*                                                                         *)
(* A table is a function from rowids to rows [code, loc, rate]: a SELECT   *)
(* with LIMIT 1 scans in rowid order.  A location stands for a pair of     *)
(* coordinates rounded to three decimals: the statements compare with a    *)
(* tolerance of 0.0001, so two rounded points match only when equal.       *)
(* City names and creation dates are read by no statement and left out.    *)
(***************************************************************************)
EXTENDS Integers, Sequences, FiniteSets, Functions

CONSTANTS
  Codes,       \* city codes (price_updater asks for an int; 0 is not used)
  Locs,        \* rounded coordinates
  Rates,       \* prices per hour in use; PRICE_UPDATER accepts 0 and less
  Seeds        \* the rows of init_db_schema_and_seed, a sequence

NoCity == 0    \* `int city_code = 0', kept when no row matches

ASSUME CodesAssumption == Codes \subseteq Int /\ NoCity \notin Codes
ASSUME RatesAssumption == Rates \subseteq Int

PriceRows == [code: Codes, loc: Locs, rate: Rates]

ASSUME SeedsAssumption ==
  /\ Seeds \in Seq(PriceRows)
  /\ \A j, k \in DOMAIN Seeds : j # k => Seeds[j].loc # Seeds[k].loc

IsTable(table) ==
  /\ table = [i \in DOMAIN table |-> table[i]]
  /\ \A i \in DOMAIN table : table[i] \in PriceRows

(* std::unordered_map<int,double>: finitely many codes with a price.       *)
Tariffs == UNION {[C -> Rates] : C \in SUBSET Codes}

(* prices_cache: an entry of the segment that is read while it is written,  *)
(* in memory that was zero, may show no code or no price.                  *)
Cached == UNION {[C -> Rates \cup {0}] : C \in SUBSET (Codes \cup {NoCity})}

CodesOf(table) == {table[i].code : i \in DOMAIN table}

(* LIMIT 1: the row with the least rowid, if any.                          *)
First(ids) == {i \in ids : \A j \in ids : i <= j}

CityAt(table, loc) ==
  {table[i].code : i \in First({j \in DOMAIN table : table[j].loc = loc})}

RateOf(table, code) ==
  {table[i].rate : i \in First({j \in DOMAIN table : table[j].code = code})}

(* UPDATE prices SET price_per_hour=?1 WHERE city_code=?2, for each line.  *)
UpdateRates(table, tariff) ==
  [i \in DOMAIN table |->
     IF table[i].code \in DOMAIN tariff
     THEN [table[i] EXCEPT !.rate = tariff[table[i].code]] ELSE table[i]]

(* The last rowid in use: SQLite gives the next one to an inserted row.    *)
LastId(table) ==
  IF DOMAIN table = {} THEN 0
  ELSE CHOOSE n \in DOMAIN table : \A m \in DOMAIN table : m <= n

(* Rows new[k], k \in K, inserted in the order of K.                       *)
InsertRows(table, new, K) ==
  [i \in DOMAIN table \cup {LastId(table) + k : k \in K} |->
     IF i \in DOMAIN table THEN table[i]
     ELSE new[CHOOSE k \in K : i = LastId(table) + k]]

(* What one transaction of an updater may make of the table: the lines of  *)
(* its map that it could write, in the order the map yields them, each an  *)
(* UPDATE, or an INSERT at the place it was given when sqlite3_changes is  *)
(* 0: for every code the table lacks, and for one that it has (`again')    *)
(* when its UPDATE was refused and the lock came free before the INSERT.   *)
Again(tariff) == {{}} \cup {{c} : c \in DOMAIN tariff}

UpdaterTables(table, tariff, loc, again) ==
  LET new == (DOMAIN tariff \ CodesOf(table)) \cup again
      K   == 1 .. Cardinality(new)
  IN {InsertRows(UpdateRates(table, Restrict(tariff, DOMAIN tariff \ new)),
                 [k \in K |->
                    [code |-> order[k], loc |-> loc, rate |-> tariff[order[k]]]], K)
        : order \in Bijection(K, new)}

DeleteCode(table, code) ==
  Restrict(table, {i \in DOMAIN table : table[i].code # code})

(* One row, as a statement inserts it.                                     *)
InsertRow(table, row) == InsertRows(table, <<row>>, {1})

(* SELECT COUNT of init_db_schema_and_seed: some row has this location.    *)
HasPlace(table, loc) == \E i \in DOMAIN table : table[i].loc = loc
=============================================================================
