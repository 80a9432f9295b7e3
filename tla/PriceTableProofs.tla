-------------------------- MODULE PriceTableProofs --------------------------
(***************************************************************************)
(* What the operators of PriceTable keep and return.                       *)
(***************************************************************************)
EXTENDS PriceTable, SequenceTheorems, FiniteSetTheorems, WellFoundedInduction, TLAPS

(* Updating prices keeps a table a table.                                  *)
LEMMA UpdateRatesTable ==
  ASSUME NEW table, IsTable(table), NEW m \in Tariffs
  PROVE  IsTable(UpdateRates(table, m))
<1>1. \A i \in DOMAIN table :
        table[i].code \in DOMAIN m =>
          [table[i] EXCEPT !.rate = m[table[i].code]] \in PriceRows
  BY DEF IsTable, Tariffs, PriceRows
<1> QED BY <1>1 DEF IsTable, UpdateRates

(* So does inserting rows of the right shape.                              *)
LEMMA InsertRowsTable ==
  ASSUME NEW table, IsTable(table), NEW new, NEW K,
         \A k \in K : new[k] \in PriceRows
  PROVE  IsTable(InsertRows(table, new, K))
<1> DEFINE t == InsertRows(table, new, K)
<1>1. ASSUME NEW i \in DOMAIN t, i \notin DOMAIN table
      PROVE  t[i] \in PriceRows
  <2>1. \E k \in K : i = LastId(table) + k  BY <1>1 DEF InsertRows
  <2>2. (CHOOSE k \in K : i = LastId(table) + k) \in K  BY <2>1
  <2>3. t[i] = new[CHOOSE k \in K : i = LastId(table) + k]  BY <1>1 DEF InsertRows
  <2> QED BY <2>2, <2>3
<1>2. ASSUME NEW i \in DOMAIN t, i \in DOMAIN table
      PROVE  t[i] \in PriceRows
  BY <1>2 DEF InsertRows, IsTable
<1>3. t = [i \in DOMAIN t |-> t[i]]  BY DEF InsertRows
<1> QED BY <1>1, <1>2, <1>3 DEF IsTable

LEMMA DeleteCodeTable ==
  ASSUME NEW table, IsTable(table), NEW c
  PROVE  IsTable(DeleteCode(table, c))
BY DEF IsTable, DeleteCode, Restrict

LEMMA InsertRowTable ==
  ASSUME NEW table, IsTable(table), NEW row \in PriceRows
  PROVE  IsTable(InsertRow(table, row))
BY InsertRowsTable DEF InsertRow

(* The rows of init_db_schema_and_seed, as the first start leaves them.    *)
LEMMA SeedsTable == IsTable(Seeds)
BY SeedsAssumption DEF IsTable

LEMMA EmptyTable == IsTable(<<>>)
BY DEF IsTable

(* What the SELECTs on a table return.                                     *)
LEMMA CityAtCodes ==
  ASSUME NEW table, IsTable(table), NEW l
  PROVE  /\ CityAt(table, l) \subseteq Codes
         /\ CityAt(table, l) \subseteq CodesOf(table)
BY DEF IsTable, CityAt, First, PriceRows, CodesOf

LEMMA RateOfRates ==
  ASSUME NEW table, IsTable(table), NEW c
  PROVE  RateOf(table, c) \subseteq Rates
BY DEF IsTable, RateOf, First, PriceRows
-----------------------------------------------------------------------------
(* Price maps.                                                             *)
LEMMA TariffParts ==
  ASSUME NEW m \in Tariffs
  PROVE  /\ m = [c \in DOMAIN m |-> m[c]]
         /\ DOMAIN m \subseteq Codes
         /\ \A c \in DOMAIN m : m[c] \in Rates
BY DEF Tariffs

LEMMA EmptyTariff == <<>> \in Tariffs
<1>1. <<>> = [c \in {} |-> c]
  OBVIOUS
<1>2. [c \in {} |-> c] \in [{} -> Rates] /\ {} \in SUBSET Codes
  OBVIOUS
<1> QED BY <1>1, <1>2 DEF Tariffs

LEMMA RestrictTariff ==
  ASSUME NEW m \in Tariffs, NEW D, D \subseteq DOMAIN m
  PROVE  Restrict(m, D) \in Tariffs
<1>1. D \in SUBSET Codes /\ Restrict(m, D) \in [D -> Rates]
  BY TariffParts DEF Restrict
<1> QED BY <1>1 DEF Tariffs

(* prices_cache, which may hold an entry read while it was written.        *)
LEMMA CachedParts ==
  ASSUME NEW m \in Cached
  PROVE  /\ m = [c \in DOMAIN m |-> m[c]]
         /\ DOMAIN m \subseteq Codes \cup {NoCity}
         /\ \A c \in DOMAIN m : m[c] \in Rates \cup {0}
BY DEF Cached

LEMMA CachedMember ==
  ASSUME NEW D, D \subseteq Codes \cup {NoCity}, NEW m \in [D -> Rates \cup {0}]
  PROVE  m \in Cached
BY DEF Cached

LEMMA TariffCached == Tariffs \subseteq Cached
<1> SUFFICES ASSUME NEW m \in Tariffs PROVE m \in Cached
  OBVIOUS
<1>1. /\ DOMAIN m \subseteq Codes \cup {NoCity}
      /\ m \in [DOMAIN m -> Rates \cup {0}]
  BY TariffParts
<1> QED BY <1>1, CachedMember
-----------------------------------------------------------------------------
(* A later table: every row is still there, for the same city and place.   *)
Extends(new, old) ==
  /\ DOMAIN old \subseteq DOMAIN new
  /\ \A i \in DOMAIN old : new[i].code = old[i].code /\ new[i].loc = old[i].loc

LEMMA ExtendsRefl == \A t : Extends(t, t)
BY DEF Extends

LEMMA ExtendsTrans ==
  ASSUME NEW a, NEW b, NEW c, Extends(b, a), Extends(c, b)
  PROVE  Extends(c, a)
BY DEF Extends

LEMMA UpdateRatesExtends ==
  ASSUME NEW table, IsTable(table), NEW m
  PROVE  Extends(UpdateRates(table, m), table)
BY DEF IsTable, PriceRows, UpdateRates, Extends

LEMMA InsertRowsExtends ==
  ASSUME NEW table, NEW new, NEW K
  PROVE  Extends(InsertRows(table, new, K), table)
BY DEF InsertRows, Extends

LEMMA InsertRowExtends ==
  ASSUME NEW table, NEW row
  PROVE  Extends(InsertRow(table, row), table)
BY InsertRowsExtends DEF InsertRow

(* DELETE takes the rows of one code and leaves the others as they are.    *)
LEMMA DeleteCodeRows ==
  ASSUME NEW table, NEW c
  PROVE  /\ DOMAIN DeleteCode(table, c) = {i \in DOMAIN table : table[i].code # c}
         /\ \A i \in DOMAIN DeleteCode(table, c) : DeleteCode(table, c)[i] = table[i]
BY DEF DeleteCode, Restrict
-----------------------------------------------------------------------------
(* Every row that a price map lists has the price listed.                  *)
Agree(table, m) ==
  \A i \in DOMAIN table : table[i].code \in DOMAIN m => table[i].rate = m[table[i].code]

(* An UPDATE per line makes the table agree with the lines ...             *)
LEMMA UpdateRatesAgree ==
  ASSUME NEW table, IsTable(table), NEW m
  PROVE  Agree(UpdateRates(table, m), m)
BY DEF IsTable, PriceRows, UpdateRates, Agree

(* ... and some of the lines again change nothing about that.              *)
LEMMA UpdateSomeAgree ==
  ASSUME NEW table, IsTable(table), NEW m, Agree(table, m), NEW D, D \subseteq DOMAIN m
  PROVE  Agree(UpdateRates(table, Restrict(m, D)), m)
BY DEF IsTable, PriceRows, UpdateRates, Agree, Restrict
-----------------------------------------------------------------------------
(* The least and the greatest of a set of natural numbers.                 *)
LEMMA LeastNatural ==
  ASSUME NEW S, S \subseteq Nat, S # {}
  PROVE  \E m \in S : \A n \in S : m <= n
<1> DEFINE Less == OpToRel(<, Nat)
<1>1. IsWellFoundedOn(Less, Nat)
  BY NatLessThanWellFounded
<1>2. \A x, y \in Nat : x < y => <<x, y>> \in Less
  BY DEF OpToRel
<1> HIDE DEF Less
<1>3. PICK m \in S : \A n \in S : ~ (<<n, m>> \in Less)
  BY <1>1, WFMin
<1>4. ASSUME NEW n \in S PROVE m <= n
  <2>1. ~ (n < m)
    BY <1>2, <1>3
  <2> QED BY <2>1
<1> QED BY <1>4

LEMMA GreatestNatural ==
  ASSUME NEW S, S \subseteq Nat, S # {}, NEW b \in Nat, \A n \in S : n <= b
  PROVE  \E m \in S : \A n \in S : n <= m
<1> DEFINE Above == {m \in Nat : \A n \in S : n <= m}
<1>1. PICK m \in Above : \A n \in Above : m <= n
  <2>1. Above \subseteq Nat /\ b \in Above
    OBVIOUS
  <2> HIDE DEF Above
  <2> QED BY <2>1, LeastNatural
<1>2. m \in S
  <2> SUFFICES ASSUME m \notin S PROVE FALSE
    OBVIOUS
  <2>1. \A n \in S : n <= m - 1 /\ n >= 0
    OBVIOUS
  <2>2. PICK n \in S : TRUE
    OBVIOUS
  <2>3. m - 1 \in Nat
    BY <2>1, <2>2
  <2>4. m - 1 \in Above
    BY <2>1, <2>3
  <2> QED BY <2>4, <1>1
<1> QED BY <1>1, <1>2

(* Rowids are natural numbers, and there is a bound to those in use.       *)
RowIds(table) ==
  DOMAIN table \subseteq Nat /\ \E n \in Nat : \A i \in DOMAIN table : i <= n

(* Then LastId is really the last one ...                                  *)
LEMMA LastIdIsLast ==
  ASSUME NEW table, RowIds(table)
  PROVE  /\ LastId(table) \in Nat /\ \A i \in DOMAIN table : i <= LastId(table)
         /\ DOMAIN table # {} => LastId(table) \in DOMAIN table
<1>1. CASE DOMAIN table = {}
  BY <1>1 DEF LastId
<1>2. CASE DOMAIN table # {}
  <2>1. PICK n \in Nat : \A i \in DOMAIN table : i <= n
    BY DEF RowIds
  <2>2. \E m \in DOMAIN table : \A i \in DOMAIN table : i <= m
    BY <1>2, <2>1, GreatestNatural DEF RowIds
  <2>3. /\ LastId(table) \in DOMAIN table
        /\ \A i \in DOMAIN table : i <= LastId(table)
    BY <1>2, <2>2 DEF LastId
  <2> QED BY <2>3 DEF RowIds
<1> QED BY <1>1, <1>2

(* ... and what is inserted gets rowids of its own.                        *)
LEMMA InsertRowsNew ==
  ASSUME NEW table, RowIds(table), NEW new, NEW n \in Nat,
         NEW K, K \subseteq 1 .. n
  PROVE  /\ RowIds(InsertRows(table, new, K))
         /\ \A k \in K : /\ LastId(table) + k \in DOMAIN InsertRows(table, new, K)
                         /\ LastId(table) + k \notin DOMAIN table
                         /\ InsertRows(table, new, K)[LastId(table) + k] = new[k]
<1> DEFINE last == LastId(table)
           t == InsertRows(table, new, K)
<1>1. last \in Nat /\ \A i \in DOMAIN table : i <= last
  BY LastIdIsLast
<1>2. DOMAIN t = DOMAIN table \cup {last + k : k \in K}
  BY DEF InsertRows
<1>3. RowIds(t)
  <2>1. \A i \in DOMAIN t : i \in Nat /\ i <= last + n
    BY <1>1, <1>2 DEF RowIds
  <2>2. last + n \in Nat
    BY <1>1
  <2> QED BY <2>1, <2>2 DEF RowIds
<1>4. ASSUME NEW k \in K
      PROVE  last + k \in DOMAIN t /\ last + k \notin DOMAIN table /\ t[last + k] = new[k]
  <2>1. last + k \in DOMAIN t /\ last + k \notin DOMAIN table
    BY <1>1, <1>2
  <2>2. t[last + k] = new[CHOOSE j \in K : last + k = last + j]
    BY <2>1, <1>2 DEF InsertRows
  <2>3. \A j \in K : last + k = last + j => j = k
    BY <1>1
  <2>4. (CHOOSE j \in K : last + k = last + j) = k
    BY <2>3
  <2> QED BY <2>1, <2>2, <2>4
<1> QED BY <1>3, <1>4

(* The same for the first n of them.                                       *)
LEMMA InsertFirst ==
  ASSUME NEW table, RowIds(table), NEW new, NEW n \in Nat
  PROVE  /\ RowIds(InsertRows(table, new, 1 .. n))
         /\ \A k \in 1 .. n :
              /\ LastId(table) + k \in DOMAIN InsertRows(table, new, 1 .. n)
              /\ LastId(table) + k \notin DOMAIN table
              /\ InsertRows(table, new, 1 .. n)[LastId(table) + k] = new[k]
<1> DEFINE last == LastId(table)
           t == InsertRows(table, new, 1 .. n)
<1>1. last \in Nat /\ \A i \in DOMAIN table : i <= last
  BY LastIdIsLast
<1>2. DOMAIN t = DOMAIN table \cup {last + k : k \in 1 .. n}
  BY DEF InsertRows
<1>3. RowIds(t)
  <2>1. \A i \in DOMAIN t : i \in Nat /\ i <= last + n
    BY <1>1, <1>2 DEF RowIds
  <2>2. last + n \in Nat
    BY <1>1
  <2> QED BY <2>1, <2>2 DEF RowIds
<1>4. ASSUME NEW k \in 1 .. n
      PROVE  last + k \in DOMAIN t /\ last + k \notin DOMAIN table /\ t[last + k] = new[k]
  <2>1. last + k \in DOMAIN t /\ last + k \notin DOMAIN table
    BY <1>1, <1>2
  <2>2. t[last + k] = new[CHOOSE j \in 1 .. n : last + k = last + j]
    BY <2>1, <1>2 DEF InsertRows
  <2>3. \A j \in 1 .. n : last + k = last + j => j = k
    BY <1>1
  <2>4. (CHOOSE j \in 1 .. n : last + k = last + j) = k
    BY <2>3
  <2> QED BY <2>1, <2>2, <2>4
<1> QED BY <1>3, <1>4

LEMMA UpdateRatesRowIds ==
  ASSUME NEW table, RowIds(table), NEW m
  PROVE  RowIds(UpdateRates(table, m))
BY DEF RowIds, UpdateRates

LEMMA DeleteCodeRowIds ==
  ASSUME NEW table, RowIds(table), NEW c
  PROVE  RowIds(DeleteCode(table, c))
BY DeleteCodeRows DEF RowIds

LEMMA EmptyRowIds == RowIds(<<>>)
BY DEF RowIds

LEMMA SeedsRowIds == RowIds(Seeds)
BY SeedsAssumption DEF RowIds

(* One INSERT of init_db_schema_and_seed or of an updater: the row gets a  *)
(* rowid of its own, so that its place is taken, and the rows that were    *)
(* there are there as they were.                                           *)
THEOREM InsertedRow ==
  ASSUME NEW table, RowIds(table), NEW row
  PROVE  LET t == InsertRow(table, row)
             i == LastId(table) + 1
         IN /\ RowIds(t) /\ Extends(t, table)
            /\ i \in DOMAIN t /\ i \notin DOMAIN table /\ t[i] = row
            /\ DOMAIN t = DOMAIN table \cup {i}
            /\ HasPlace(t, row.loc)
<1> DEFINE t == InsertRow(table, row)
           i == LastId(table) + 1
<1>1. {1} \subseteq 1 .. 1 /\ <<row>>[1] = row
  OBVIOUS
<1>2. RowIds(t) /\ i \in DOMAIN t /\ i \notin DOMAIN table /\ t[i] = row
  BY <1>1, InsertRowsNew DEF InsertRow
<1>3. DOMAIN t = DOMAIN table \cup {i}
  BY DEF InsertRow, InsertRows
<1>4. HasPlace(t, row.loc)
  BY <1>2 DEF HasPlace
<1> QED BY <1>2, <1>3, <1>4, InsertRowExtends
-----------------------------------------------------------------------------
(* One transaction of an updater, line by line.                            *)
LEMMA UpdaterTablesTable ==
  ASSUME NEW table, IsTable(table), NEW m \in Tariffs, NEW l \in Locs,
         NEW again \in Again(m), NEW t \in UpdaterTables(table, m, l, again)
  PROVE  IsTable(t)
<1> DEFINE new == (DOMAIN m \ CodesOf(table)) \cup again
           K   == 1 .. Cardinality(new)
           old == Restrict(m, DOMAIN m \ new)
           R(order) == [k \in K |-> [code |-> order[k], loc |-> l, rate |-> m[order[k]]]]
<1>1. PICK order \in Bijection(K, new) : t = InsertRows(UpdateRates(table, old), R(order), K)
  BY DEF UpdaterTables
<1>2. \A k \in K : order[k] \in DOMAIN m
  BY DEF Bijection, Injection, Again
<1>3. \A c \in DOMAIN m : c \in Codes /\ m[c] \in Rates
  BY DEF Tariffs
<1>4. \A k \in K : R(order)[k] \in PriceRows
  BY <1>2, <1>3 DEF PriceRows
<1>5. old \in Tariffs
  BY RestrictTariff
<1> DEFINE r == UpdateRates(table, old)
           rows == R(order)
<1>6. IsTable(r)
  BY <1>5, UpdateRatesTable
<1>7. t = InsertRows(r, rows, K) /\ \A k \in K : rows[k] \in PriceRows
  BY <1>1, <1>4
<1> HIDE DEF r, rows, K
<1> QED BY <1>6, <1>7, InsertRowsTable

LEMMA LastIdSame ==
  ASSUME NEW s, NEW t, DOMAIN s = DOMAIN t
  PROVE  LastId(s) = LastId(t)
BY DEF LastId

(* The table after the lines of m: the codes o[1] to o[n] are inserted.    *)
Lines(m, l, o, n) == [k \in 1 .. n |-> [code |-> o[k], loc |-> l, rate |-> m[o[k]]]]
Rest(m, o, n)     == Restrict(m, DOMAIN m \ {o[k] : k \in 1 .. n})
After(s, m, l, o, n) == InsertRows(UpdateRates(s, Rest(m, o, n)), Lines(m, l, o, n), 1 .. n)

IsAfter(t, s, m, l, o, n) ==
  /\ RowIds(t) /\ LastId(t) = LastId(s) + n
  /\ t = [i \in DOMAIN t |-> t[i]]
  /\ DOMAIN t = DOMAIN s \cup {LastId(s) + k : k \in 1 .. n}
  /\ \A i \in DOMAIN s : t[i] = UpdateRates(s, Rest(m, o, n))[i]
  /\ \A k \in 1 .. n : t[LastId(s) + k] = Lines(m, l, o, n)[k]

LEMMA AfterParts ==
  ASSUME NEW s, RowIds(s), NEW m, NEW l, NEW o, NEW n \in Nat
  PROVE  IsAfter(After(s, m, l, o, n), s, m, l, o, n)
<1> DEFINE r == UpdateRates(s, Rest(m, o, n))
           new == Lines(m, l, o, n)
           t == InsertRows(r, new, 1 .. n)
           L == LastId(s)
<1>1. DOMAIN r = DOMAIN s /\ RowIds(r) /\ LastId(r) = L
  BY UpdateRatesRowIds, LastIdSame DEF UpdateRates
<1>2. After(s, m, l, o, n) = t
  BY DEF After
<1> HIDE DEF r, new
<1>3. /\ RowIds(t)
      /\ \A k \in 1 .. n : /\ L + k \in DOMAIN t /\ L + k \notin DOMAIN s
                           /\ t[L + k] = new[k]
  <2>1. /\ RowIds(t)
        /\ \A k \in 1 .. n : /\ LastId(r) + k \in DOMAIN t /\ LastId(r) + k \notin DOMAIN r
                             /\ t[LastId(r) + k] = new[k]
    BY <1>1, InsertFirst
  <2> QED BY <1>1, <2>1
<1>4. /\ DOMAIN t = DOMAIN s \cup {L + k : k \in 1 .. n}
      /\ \A i \in DOMAIN s : t[i] = r[i]
  BY <1>1 DEF InsertRows
<1> HIDE DEF t
<1>5. L \in Nat /\ \A i \in DOMAIN s : i <= L
  BY LastIdIsLast
<1>6. LastId(t) = L + n
  <2>1. CASE n = 0
    <3>1. DOMAIN t = DOMAIN s
      BY <1>4, <2>1
    <3>2. LastId(t) = L
      BY <3>1, LastIdSame
    <3> HIDE DEF L
    <3> QED BY <1>5, <2>1, <3>2
  <2>2. CASE n # 0
    <3>1. L + n \in DOMAIN t
      BY <1>4, <2>2
    <3>2. \A i \in DOMAIN t : i <= L + n
      <4>1. \A i \in DOMAIN s : i \in Nat
        BY DEF RowIds
      <4> HIDE DEF L
      <4> QED BY <1>4, <1>5, <4>1
    <3>3. LastId(t) \in DOMAIN t /\ L + n <= LastId(t) /\ LastId(t) \in Nat
      BY <1>3, <3>1, LastIdIsLast
    <3> HIDE DEF L
    <3> QED BY <1>5, <3>2, <3>3
  <2> QED BY <2>1, <2>2
<1>7. t = [i \in DOMAIN t |-> t[i]]
  BY DEF t, InsertRows
<1> QED BY <1>2, <1>3, <1>4, <1>6, <1>7 DEF r, new, IsAfter

(* m with one more line.                                                   *)
With(m, c, q) == [d \in DOMAIN m \cup {c} |-> IF d = c THEN q ELSE m[d]]

(* An UPDATE is one more line ...                                          *)
LEMMA AfterUpdate ==
  ASSUME NEW s, IsTable(s), RowIds(s), NEW m, NEW l, NEW o, NEW n \in Nat,
         NEW c, c \notin DOMAIN m, \A k \in 1 .. n : o[k] \in DOMAIN m, NEW q,
         NEW line, line = [d \in {c} |-> q]
  PROVE  UpdateRates(After(s, m, l, o, n), line)
           = After(s, With(m, c, q), l, o, n)
<1> DEFINE T == After(s, m, l, o, n)
           W == After(s, With(m, c, q), l, o, n)
           L == LastId(s)
<1>1. /\ DOMAIN T = DOMAIN s \cup {L + k : k \in 1 .. n}
      /\ \A i \in DOMAIN s : T[i] = UpdateRates(s, Rest(m, o, n))[i]
      /\ \A k \in 1 .. n : T[L + k] = Lines(m, l, o, n)[k]
  <2>1. IsAfter(T, s, m, l, o, n)
    BY AfterParts
  <2> HIDE DEF T
  <2> QED BY <2>1 DEF IsAfter
<1>2. /\ DOMAIN W = DOMAIN s \cup {L + k : k \in 1 .. n}
      /\ \A i \in DOMAIN s : W[i] = UpdateRates(s, Rest(With(m, c, q), o, n))[i]
      /\ \A k \in 1 .. n : W[L + k] = Lines(With(m, c, q), l, o, n)[k]
      /\ W = [i \in DOMAIN W |-> W[i]]
  <2>1. IsAfter(W, s, With(m, c, q), l, o, n)
    BY AfterParts
  <2> HIDE DEF W
  <2> QED BY <2>1 DEF IsAfter
<1> HIDE DEF T, W, L
<1> DEFINE U == UpdateRates(T, line)
<1>3. /\ U = [i \in DOMAIN T |-> U[i]]
      /\ \A i \in DOMAIN T : U[i] = IF T[i].code = c THEN [T[i] EXCEPT !.rate = q] ELSE T[i]
  BY DEF UpdateRates
<1> HIDE DEF U
<1>4. ASSUME NEW i \in DOMAIN s PROVE U[i] = W[i]
  <2> DEFINE A == Rest(m, o, n)
             B == Rest(With(m, c, q), o, n)
  <2>1. s[i] \in PriceRows
    BY DEF IsTable
  <2>2. /\ T[i] = IF s[i].code \in DOMAIN A THEN [s[i] EXCEPT !.rate = A[s[i].code]] ELSE s[i]
        /\ W[i] = IF s[i].code \in DOMAIN B THEN [s[i] EXCEPT !.rate = B[s[i].code]] ELSE s[i]
    BY <1>1, <1>2 DEF UpdateRates
  <2>3. /\ c \notin DOMAIN A /\ c \in DOMAIN B /\ B[c] = q
        /\ \A d : d # c => (d \in DOMAIN A <=> d \in DOMAIN B)
        /\ \A d \in DOMAIN A : B[d] = A[d]
    BY DEF Rest, Restrict, With
  <2> HIDE DEF A, B
  <2>4. T[i].code = s[i].code
    BY <2>1, <2>2 DEF PriceRows
  <2>5. U[i] = IF s[i].code = c THEN [T[i] EXCEPT !.rate = q] ELSE T[i]
    BY <1>1, <1>3, <2>4
  <2>6. CASE s[i].code = c
    BY <2>2, <2>3, <2>5, <2>6
  <2>7. CASE s[i].code # c
    BY <2>2, <2>3, <2>5, <2>7
  <2> QED BY <2>6, <2>7
<1>5. ASSUME NEW k \in 1 .. n PROVE U[L + k] = W[L + k]
  <2>1. o[k] # c /\ o[k] \in DOMAIN m
    OBVIOUS
  <2>2. Lines(With(m, c, q), l, o, n)[k] = Lines(m, l, o, n)[k]
    BY <2>1 DEF Lines, With
  <2>3. Lines(m, l, o, n)[k].code # c
    BY <2>1 DEF Lines
  <2>4. T[L + k] = W[L + k] /\ T[L + k].code # c /\ L + k \in DOMAIN T
    BY <1>1, <1>2, <2>2, <2>3
  <2> QED BY <1>3, <2>4
<1>6. DOMAIN W = DOMAIN T /\ \A i \in DOMAIN T : U[i] = W[i]
  BY <1>1, <1>2, <1>4, <1>5
<1>7. U = W
  BY <1>2, <1>3, <1>6
<1> QED BY <1>7 DEF U, T, W

(* ... and so is an INSERT.                                                *)
Then(o, n, c) == [k \in 1 .. n + 1 |-> IF k = n + 1 THEN c ELSE o[k]]

IsThen(p, o, n, c) ==
  /\ p[n + 1] = c /\ \A k \in 1 .. n : p[k] = o[k]
  /\ {p[k] : k \in 1 .. n + 1} = {o[k] : k \in 1 .. n} \cup {c}

LEMMA ThenParts ==
  ASSUME NEW o, NEW n \in Nat, NEW c
  PROVE  IsThen(Then(o, n, c), o, n, c)
<1>1. \A k \in 1 .. n + 1 : k \in 1 .. n \/ k = n + 1
  OBVIOUS
<1>2. n + 1 \in Nat /\ n + 1 \in 1 .. n + 1
  OBVIOUS
<1>3. \A k \in 1 .. n : k \in 1 .. n + 1 /\ k # n + 1
  OBVIOUS
<1> DEFINE p == Then(o, n, c)
<1>4. p[n + 1] = c /\ \A k \in 1 .. n : p[k] = o[k]
  BY <1>2, <1>3 DEF Then
<1> HIDE DEF p
<1>5. {p[k] : k \in 1 .. n + 1} = {o[k] : k \in 1 .. n} \cup {c}
  BY <1>1, <1>2, <1>3, <1>4
<1> QED BY <1>4, <1>5 DEF p, IsThen

LEMMA AfterInsert ==
  ASSUME NEW s, RowIds(s), NEW m, NEW l, NEW o, NEW n \in Nat,
         NEW c, c \notin DOMAIN m, \A k \in 1 .. n : o[k] \in DOMAIN m, NEW q
  PROVE  InsertRows(After(s, m, l, o, n), <<[code |-> c, loc |-> l, rate |-> q]>>, {1})
           = After(s, With(m, c, q), l, Then(o, n, c), n + 1)
<1> DEFINE p == Then(o, n, c)
           T == After(s, m, l, o, n)
           W == After(s, With(m, c, q), l, p, n + 1)
           L == LastId(s)
           row == [code |-> c, loc |-> l, rate |-> q]
<1>1. /\ RowIds(T) /\ LastId(T) = L + n
      /\ DOMAIN T = DOMAIN s \cup {L + k : k \in 1 .. n}
      /\ \A i \in DOMAIN s : T[i] = UpdateRates(s, Rest(m, o, n))[i]
      /\ \A k \in 1 .. n : T[L + k] = Lines(m, l, o, n)[k]
  <2>1. IsAfter(T, s, m, l, o, n)
    BY AfterParts
  <2> HIDE DEF T
  <2> QED BY <2>1 DEF IsAfter
<1>2. n + 1 \in Nat
  OBVIOUS
<1>3. /\ DOMAIN W = DOMAIN s \cup {L + k : k \in 1 .. n + 1}
      /\ \A i \in DOMAIN s : W[i] = UpdateRates(s, Rest(With(m, c, q), p, n + 1))[i]
      /\ \A k \in 1 .. n + 1 : W[L + k] = Lines(With(m, c, q), l, p, n + 1)[k]
      /\ W = [i \in DOMAIN W |-> W[i]]
  <2> HIDE DEF p
  <2>1. IsAfter(W, s, With(m, c, q), l, p, n + 1)
    BY <1>2, AfterParts
  <2> HIDE DEF W
  <2> QED BY <2>1 DEF IsAfter
<1>4. IsThen(p, o, n, c)
  BY ThenParts
<1>5. L \in Nat
  BY LastIdIsLast
<1>6. Rest(With(m, c, q), p, n + 1) = Rest(m, o, n)
  <2>1. DOMAIN With(m, c, q) \ {p[k] : k \in 1 .. n + 1} = DOMAIN m \ {o[k] : k \in 1 .. n}
    <3> HIDE DEF p
    <3> QED BY <1>4 DEF With, IsThen
  <2>2. \A d \in DOMAIN m \ {o[k] : k \in 1 .. n} : With(m, c, q)[d] = m[d]
    BY DEF With
  <2> HIDE DEF p
  <2> QED BY <2>1, <2>2 DEF Rest, Restrict
<1>7. ASSUME NEW k \in 1 .. n
      PROVE  Lines(With(m, c, q), l, p, n + 1)[k] = Lines(m, l, o, n)[k]
  <2>1. k \in 1 .. n + 1 /\ p[k] = o[k]
    <3> HIDE DEF p
    <3> QED BY <1>4 DEF IsThen
  <2>2. o[k] # c /\ o[k] \in DOMAIN m
    OBVIOUS
  <2> HIDE DEF p
  <2> QED BY <2>1, <2>2 DEF Lines, With
<1>8. Lines(With(m, c, q), l, p, n + 1)[n + 1] = row
  <2>1. n + 1 \in 1 .. n + 1 /\ p[n + 1] = c
    <3> HIDE DEF p
    <3> QED BY <1>4 DEF IsThen
  <2> HIDE DEF p
  <2> QED BY <2>1 DEF Lines, With
<1> HIDE DEF T, W, L, p, row
<1> DEFINE U == InsertRows(T, <<row>>, {1})
<1>9. /\ U = [i \in DOMAIN U |-> U[i]]
      /\ DOMAIN U = DOMAIN T \cup {L + n + 1}
      /\ \A i \in DOMAIN T : U[i] = T[i]
  BY <1>1 DEF InsertRows
<1>10. U[L + n + 1] = row
  <2>1. {1} \subseteq 1 .. 1 /\ 1 \in {1} /\ 1 \in Nat
    OBVIOUS
  <2>2. \A k \in {1} : U[LastId(T) + k] = <<row>>[k]
    BY <1>1, <2>1, InsertRowsNew
  <2>3. U[LastId(T) + 1] = row
    BY <2>2
  <2> QED BY <1>1, <2>3
<1> HIDE DEF U
<1>11. DOMAIN U = DOMAIN W
  <2>1. \A k \in 1 .. n + 1 : k \in 1 .. n \/ k = n + 1
    OBVIOUS
  <2>2. \A k \in 1 .. n : k \in 1 .. n + 1
    OBVIOUS
  <2>3. n + 1 \in 1 .. n + 1 /\ L + (n + 1) = L + n + 1
    BY <1>5
  <2>4. {L + k : k \in 1 .. n + 1} = {L + k : k \in 1 .. n} \cup {L + n + 1}
    BY <2>1, <2>2, <2>3
  <2> QED BY <1>1, <1>3, <1>9, <2>4
<1>12. ASSUME NEW i \in DOMAIN s PROVE U[i] = W[i]
  BY <1>1, <1>3, <1>6, <1>9
<1>13. ASSUME NEW k \in 1 .. n PROVE U[L + k] = W[L + k]
  <2>1. k \in 1 .. n + 1
    OBVIOUS
  <2>2. L + k \in DOMAIN T
    BY <1>1
  <2> QED BY <1>1, <1>3, <1>7, <1>9, <2>1, <2>2
<1>14. U[L + n + 1] = W[L + n + 1]
  <2>1. n + 1 \in 1 .. n + 1 /\ L + (n + 1) = L + n + 1
    BY <1>5
  <2>2. W[L + (n + 1)] = row
    BY <1>3, <1>8, <2>1
  <2> QED BY <1>10, <2>1, <2>2
<1>15. \A i \in DOMAIN U : U[i] = W[i]
  BY <1>1, <1>9, <1>12, <1>13, <1>14
<1>16. U = W
  BY <1>3, <1>9, <1>11, <1>15
<1> QED BY <1>16 DEF U, T, W, p, row

(* The codes inserted, in the order o, are those that had to be.           *)
Inserted(m, s, again) == (DOMAIN m \ CodesOf(s)) \cup again
Orders(o, n, N) ==
  /\ \A k \in 1 .. n : o[k] \in N
  /\ \A j, k \in 1 .. n : o[j] = o[k] => j = k
  /\ \A c \in N : \E k \in 1 .. n : o[k] = c

LEMMA OrdersRange ==
  ASSUME NEW n \in Nat, NEW N, NEW o, Orders(o, n, N)
  PROVE  {o[k] : k \in 1 .. n} = N
BY DEF Orders

LEMMA OrdersCount ==
  ASSUME NEW n \in Nat, NEW N, NEW o, Orders(o, n, N)
  PROVE  Cardinality(N) = n /\ [k \in 1 .. n |-> o[k]] \in Bijection(1 .. n, N)
<1> DEFINE p == [k \in 1 .. n |-> o[k]]
<1>1. p \in [1 .. n -> N]
  BY DEF Orders
<1>2. \A k \in 1 .. n : p[k] = o[k]
  OBVIOUS
<1>3. DOMAIN p = 1 .. n
  OBVIOUS
<1> HIDE DEF p
<1>4. p \in Bijection(1 .. n, N)
  BY <1>1, <1>2, <1>3 DEF Orders, Bijection, Injection, Surjection, IsInjective
<1>5. ExistsBijection(1 .. n, N)
  BY <1>4 DEF ExistsBijection
<1>6. Cardinality(N) = n
  BY <1>5, FS_CountingElements
<1> QED BY <1>4, <1>6 DEF p

(* A transaction's table is the one after its lines, and conversely.       *)
LEMMA AfterMember ==
  ASSUME NEW s, NEW m, NEW l, NEW again, NEW n \in Nat, NEW o,
         Orders(o, n, Inserted(m, s, again))
  PROVE  After(s, m, l, o, n) \in UpdaterTables(s, m, l, again)
<1> DEFINE N == Inserted(m, s, again)
           p == [k \in 1 .. n |-> o[k]]
<1>1. Cardinality(N) = n /\ p \in Bijection(1 .. n, N)
  BY OrdersCount
<1>2. {o[k] : k \in 1 .. n} = N
  BY OrdersRange
<1>3. Rest(m, o, n) = Restrict(m, DOMAIN m \ N)
  BY <1>2 DEF Rest
<1>4. Lines(m, l, o, n) = [k \in 1 .. n |-> [code |-> p[k], loc |-> l, rate |-> m[p[k]]]]
  BY DEF Lines
<1> HIDE DEF p
<1>5. After(s, m, l, o, n) =
        InsertRows(UpdateRates(s, Restrict(m, DOMAIN m \ N)),
                   [k \in 1 .. n |-> [code |-> p[k], loc |-> l, rate |-> m[p[k]]]], 1 .. n)
  BY <1>3, <1>4 DEF After
<1> QED BY <1>1, <1>5 DEF UpdaterTables, Inserted

LEMMA MemberAfter ==
  ASSUME IsFiniteSet(Codes),
         NEW s, NEW m \in Tariffs, NEW l, NEW again \in Again(m),
         NEW t \in UpdaterTables(s, m, l, again)
  PROVE  \E n \in Nat : \E o :
           Orders(o, n, Inserted(m, s, again)) /\ t = After(s, m, l, o, n)
<1> DEFINE N == Inserted(m, s, again)
           n == Cardinality(N)
<1>1. n \in Nat
  <2>1. N \subseteq Codes
    BY TariffParts DEF Inserted, Again
  <2> QED BY <2>1, FS_Subset, FS_CardinalityType
<1>2. PICK p \in Bijection(1 .. n, N) :
        t = InsertRows(UpdateRates(s, Restrict(m, DOMAIN m \ N)),
                       [k \in 1 .. n |-> [code |-> p[k], loc |-> l, rate |-> m[p[k]]]],
                       1 .. n)
  BY DEF UpdaterTables, Inserted
<1> HIDE DEF n, N
<1>3. Orders(p, n, N)
  BY DEF Orders, Bijection, Injection, Surjection, IsInjective
<1>4. {p[k] : k \in 1 .. n} = N
  BY <1>1, <1>3, OrdersRange
<1>5. t = After(s, m, l, p, n)
  BY <1>2, <1>4 DEF After, Rest, Lines
<1> QED BY <1>1, <1>3, <1>5 DEF n, N

LEMMA AfterCodes ==
  ASSUME NEW s, IsTable(s), RowIds(s), NEW m, NEW l, NEW n \in Nat, NEW o,
         \A k \in 1 .. n : o[k] \in DOMAIN m
  PROVE  /\ CodesOf(s) \subseteq CodesOf(After(s, m, l, o, n))
         /\ CodesOf(After(s, m, l, o, n)) \subseteq CodesOf(s) \cup DOMAIN m
<1> DEFINE t == After(s, m, l, o, n)
<1>1. IsAfter(t, s, m, l, o, n)
  BY AfterParts
<1> HIDE DEF t
<1>2. ASSUME NEW i \in DOMAIN s PROVE i \in DOMAIN t /\ t[i].code = s[i].code
  <2>1. s[i] \in PriceRows
    BY DEF IsTable
  <2>2. i \in DOMAIN t /\ t[i] = UpdateRates(s, Rest(m, o, n))[i]
    BY <1>1 DEF IsAfter
  <2> QED BY <2>1, <2>2 DEF UpdateRates, PriceRows
<1>3. ASSUME NEW i \in DOMAIN t, i \notin DOMAIN s PROVE t[i].code \in DOMAIN m
  <2>1. PICK k \in 1 .. n : i = LastId(s) + k
    BY <1>1, <1>3 DEF IsAfter
  <2>2. t[i] = Lines(m, l, o, n)[k]
    BY <1>1, <2>1 DEF IsAfter
  <2>3. t[i].code = o[k]
    BY <2>2 DEF Lines
  <2> QED BY <2>3
<1>4. CodesOf(s) \subseteq CodesOf(t) /\ CodesOf(t) \subseteq CodesOf(s) \cup DOMAIN m
  BY <1>2, <1>3 DEF CodesOf
<1> QED BY <1>4 DEF t

LEMMA WithTariff ==
  ASSUME NEW m \in Tariffs, NEW c \in Codes, NEW q \in Rates
  PROVE  With(m, c, q) \in Tariffs /\ Again(m) \subseteq Again(With(m, c, q))
<1>1. /\ DOMAIN m \cup {c} \in SUBSET Codes
      /\ With(m, c, q) \in [DOMAIN m \cup {c} -> Rates]
  BY TariffParts DEF With
<1>2. With(m, c, q) \in Tariffs
  BY <1>1 DEF Tariffs
<1> QED BY <1>2 DEF With, Again

LEMMA AfterNothing ==
  ASSUME NEW s, IsTable(s), RowIds(s), NEW l, NEW o
  PROVE  After(s, <<>>, l, o, 0) = s
<1> DEFINE t == After(s, <<>>, l, o, 0)
<1>1. IsAfter(t, s, <<>>, l, o, 0)
  BY AfterParts
<1> HIDE DEF t
<1>2. DOMAIN t = DOMAIN s
  BY <1>1 DEF IsAfter
<1>3. \A i \in DOMAIN s : t[i] = s[i]
  BY <1>1 DEF IsAfter, UpdateRates, Rest, Restrict
<1>4. t = s
  BY <1>1, <1>2, <1>3 DEF IsAfter, IsTable
<1> QED BY <1>4 DEF t

(* A transaction that has written nothing yet,                             *)
LEMMA NoLines ==
  ASSUME NEW s, IsTable(s), RowIds(s), NEW l
  PROVE  s \in UpdaterTables(s, <<>>, l, {})
<1>1. Orders(<<>>, 0, Inserted(<<>>, s, {}))
  BY DEF Orders, Inserted
<1>2. After(s, <<>>, l, <<>>, 0) \in UpdaterTables(s, <<>>, l, {})
  BY <1>1, AfterMember
<1> QED BY <1>2, AfterNothing

(* one more UPDATE, of a code that has a row,                              *)
LEMMA OneUpdate ==
  ASSUME IsFiniteSet(Codes), NEW s, IsTable(s), RowIds(s),
         NEW m \in Tariffs, NEW l, NEW again \in Again(m),
         NEW t \in UpdaterTables(s, m, l, again),
         NEW c \in CodesOf(t) \ DOMAIN m, NEW q,
         NEW line, line = [d \in {c} |-> q]
  PROVE  UpdateRates(t, line) \in UpdaterTables(s, With(m, c, q), l, again)
<1> PICK n \in Nat : \E o : Orders(o, n, Inserted(m, s, again)) /\ t = After(s, m, l, o, n)
  BY MemberAfter
<1>1. PICK o : Orders(o, n, Inserted(m, s, again)) /\ t = After(s, m, l, o, n)
  OBVIOUS
<1>2. \A k \in 1 .. n : o[k] \in DOMAIN m
  BY <1>1 DEF Orders, Inserted, Again
<1>3. c \in CodesOf(s)
  BY <1>1, <1>2, AfterCodes
<1>4. Inserted(With(m, c, q), s, again) = Inserted(m, s, again)
  BY <1>3 DEF Inserted, With
<1>5. UpdateRates(t, line) = After(s, With(m, c, q), l, o, n)
  <2>1. c \notin DOMAIN m
    OBVIOUS
  <2>2. UpdateRates(After(s, m, l, o, n), line) = After(s, With(m, c, q), l, o, n)
    BY <1>2, <2>1, AfterUpdate
  <2> QED BY <1>1, <2>2
<1> QED BY <1>1, <1>4, <1>5, AfterMember

LEMMA ThenOrders ==
  ASSUME NEW n \in Nat, NEW N, NEW o, Orders(o, n, N), NEW c, c \notin N
  PROVE  Orders(Then(o, n, c), n + 1, N \cup {c})
<1> DEFINE p == Then(o, n, c)
<1>1. IsThen(p, o, n, c)
  BY ThenParts
<1> HIDE DEF p
<1>2. \A k \in 1 .. n + 1 : k \in 1 .. n \/ k = n + 1
  OBVIOUS
<1>3. \A k \in 1 .. n : k \in 1 .. n + 1
  OBVIOUS
<1>4. n + 1 \in 1 .. n + 1
  OBVIOUS
<1>5. \A k \in 1 .. n + 1 : p[k] \in N \cup {c}
  BY <1>1, <1>2 DEF IsThen, Orders
<1>6. \A j, k \in 1 .. n + 1 : p[j] = p[k] => j = k
  BY <1>1, <1>2 DEF IsThen, Orders
<1>7. \A d \in N \cup {c} : \E k \in 1 .. n + 1 : p[k] = d
  BY <1>1, <1>3, <1>4 DEF IsThen, Orders
<1> QED BY <1>5, <1>6, <1>7 DEF Orders, p

(* one more INSERT, of a code that has none,                               *)
LEMMA OneInsert ==
  ASSUME IsFiniteSet(Codes), NEW s, IsTable(s), RowIds(s),
         NEW m \in Tariffs, NEW l, NEW again \in Again(m),
         NEW t \in UpdaterTables(s, m, l, again),
         NEW c, c \notin CodesOf(t), c \notin DOMAIN m, NEW q
  PROVE  InsertRows(t, <<[code |-> c, loc |-> l, rate |-> q]>>, {1})
           \in UpdaterTables(s, With(m, c, q), l, again)
<1> PICK n \in Nat : \E o : Orders(o, n, Inserted(m, s, again)) /\ t = After(s, m, l, o, n)
  BY MemberAfter
<1>1. PICK o : Orders(o, n, Inserted(m, s, again)) /\ t = After(s, m, l, o, n)
  OBVIOUS
<1>2. \A k \in 1 .. n : o[k] \in DOMAIN m
  BY <1>1 DEF Orders, Inserted, Again
<1>3. c \notin CodesOf(s)
  BY <1>1, <1>2, AfterCodes
<1>4. /\ Inserted(With(m, c, q), s, again) = Inserted(m, s, again) \cup {c}
      /\ c \notin Inserted(m, s, again)
  BY <1>3 DEF Inserted, With, Again
<1>5. Orders(Then(o, n, c), n + 1, Inserted(With(m, c, q), s, again))
  BY <1>1, <1>4, ThenOrders
<1>6. InsertRows(t, <<[code |-> c, loc |-> l, rate |-> q]>>, {1})
        = After(s, With(m, c, q), l, Then(o, n, c), n + 1)
  BY <1>1, <1>2, AfterInsert
<1>7. n + 1 \in Nat
  OBVIOUS
<1> QED BY <1>5, <1>6, <1>7, AfterMember

(* and the first INSERT, whether the code has a row or not.                *)
LEMMA FirstInsert ==
  ASSUME NEW s, IsTable(s), RowIds(s), NEW l, NEW c, NEW q
  PROVE  InsertRows(s, <<[code |-> c, loc |-> l, rate |-> q]>>, {1})
           \in UpdaterTables(s, With(<<>>, c, q), l, {c})
<1>1. Orders(<<>>, 0, {}) /\ c \notin DOMAIN <<>> /\ \A k \in 1 .. 0 : <<>>[k] \in DOMAIN <<>>
  BY DEF Orders
<1>2. Inserted(With(<<>>, c, q), s, {c}) = {} \cup {c}
  BY DEF Inserted, With
<1>3. Orders(Then(<<>>, 0, c), 0 + 1, Inserted(With(<<>>, c, q), s, {c}))
  <2>1. Orders(Then(<<>>, 0, c), 0 + 1, {} \cup {c})
    BY <1>1, ThenOrders
  <2> QED BY <1>2, <2>1
<1>4. InsertRows(After(s, <<>>, l, <<>>, 0), <<[code |-> c, loc |-> l, rate |-> q]>>, {1})
        = After(s, With(<<>>, c, q), l, Then(<<>>, 0, c), 0 + 1)
  BY <1>1, AfterInsert
<1>5. After(s, <<>>, l, <<>>, 0) = s
  BY AfterNothing
<1>6. 0 + 1 \in Nat
  OBVIOUS
<1> QED BY <1>3, <1>4, <1>5, <1>6, AfterMember
=============================================================================
