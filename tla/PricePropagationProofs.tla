----------------------- MODULE PricePropagationProofs -----------------------
(***************************************************************************)
(* Theorems of PricePropagation, for every value of its constants: the     *)
(* types, that no committed row is lost, and that one run of an updater    *)
(* that has the system to itself repairs whatever went wrong before.       *)
(***************************************************************************)
EXTENDS PricePropagation, PriceTableProofs, FiniteSetTheorems

(* An updater's order is an enumeration of its map.                        *)
Lists(o, m) ==
  /\ \A i \in 1 .. Len(o) : o[i] \in DOMAIN m
  /\ \A i, j \in 1 .. Len(o) : o[i] = o[j] => i = j
  /\ \A c \in DOMAIN m : \E i \in 1 .. Len(o) : o[i] = c

(* Where an updater is in it, and what it was asked for.                   *)
Iterates(u) ==
  /\ Len(order[u]) <= Cardinality(Codes) /\ next[u] <= Len(order[u]) + 1
  /\ upc[u] \notin {"off", "menu"} => Lists(order[u], map[u])
  /\ upc[u] \in {"off", "menu", "save", "write", "count"} => next[u] = 1
  /\ upc[u] \in {"price", "insert"} => next[u] <= Len(order[u])
  /\ upc[u] \in {"db", "insert"} => job[u].op # "remove"
  /\ upc[u] = "delete" => job[u].op = "remove"
Iteration == \A u \in Updaters : Iterates(u)

(* The draft is the committed table unless somebody holds the lock.  It    *)
(* adds to that table, but at the end of a DELETE; an updater that holds   *)
(* the lock is at its transaction, and only the holder commits.            *)
Deleting == lock \in Updaters /\ upc[lock] = "commit" /\ job[lock].op = "remove"
Transaction ==
  /\ RowIds(table) /\ RowIds(draft) /\ (lock = "none" => draft = table)
  /\ Deleting => draft = DeleteCode(table, job[lock].code)
  /\ ~Deleting => Extends(draft, table)
  /\ lock \in Updaters => upc[lock] \in {"db", "insert", "commit"}
  /\ \A v \in Updaters : upc[v] = "commit" => lock = v

(* The server's loops stay inside what they walk, the segment is there     *)
(* once it has been loaded, and while the server holds SHARED for the seed *)
(* city it is about to insert, that city is missing.                       *)
Scanning == spc \in {"scan", "scan_price"}
Looping ==
  /\ spc \in {"seed", "seed_insert"} => loop.at >= 1
  /\ spc = "seed_insert" => loop.at <= Len(Seeds)
  /\ Scanning => loop.at >= 1 /\ loop.at <= loop.count
Made ==
  /\ spc \in {"idle", "apply", "reload", "scan", "scan_price", "reset"} => shm.made
  /\ solo # Nobody => shm.made /\ spc # "create"
SeedHeld ==
  spc = "seed_insert" /\ reading => ~HasPlace(table, Seeds[loop.at].loc)
Stands == Looping /\ Made /\ SeedHeld

(* What a writer has made of the committed table: an updater has written   *)
(* lines of its map that it has come by, the server has updated rates.     *)
Past(u) == {order[u][i] : i \in 1 .. next[u] - 1}
Written(t, s, l, D) ==
  \E m \in Tariffs : /\ DOMAIN m \subseteq D
                     /\ \E again \in Again(m) : t \in UpdaterTables(s, m, l, again)
WriterDraft ==
  lock \in Updaters /\ ~Deleting =>
    /\ Written(draft, table, job[lock].loc, Past(lock))
    /\ upc[lock] = "insert" => Code(lock) \notin CodesOf(draft)
ServerDraft == lock = "server" => \E m \in Tariffs : draft = UpdateRates(table, m)
Drafts == WriterDraft /\ ServerDraft

(* The run that began with the system to itself still has it to itself ... *)
Alone == solo # Nobody => \A v \in Updaters \ {solo} : upc[v] = "off"

(* ... no SIGHUP is pending or being handled before its own ...            *)
Unsignalled ==
  solo # Nobody /\ upc[solo] # "off" =>
    /\ ~flag /\ spc \notin {"apply", "reload", "reset"}
    /\ Scanning => loop.then = "idle"

(* ... and while the server is up it does not rewrite prices.txt.          *)
Up ==
  solo # Nobody /\ steady =>
    /\ spc \in {"idle", "apply", "reload", "scan", "scan_price", "reset", "failed"}
    /\ Scanning => loop.then = "reset"

(* What that run has written so far stays as it wrote it.                  *)
Entry(u, i) == [code |-> order[u][i], rate |-> map[u][order[u][i]]]
FileWritten ==
  solo # Nobody /\ steady
  /\ upc[solo] \in {"count", "slots", "price", "db", "insert", "delete", "commit", "signal"} =>
    file = AsPrinted(map[solo])
SlotsWritten ==
  solo # Nobody /\ upc[solo] \in {"slots", "price"} =>
    /\ shm.count = Len(order[solo])
    /\ \A i \in 1 .. next[solo] - 1 : shm.slots[i] = Entry(solo, i)
    /\ upc[solo] = "price" => shm.slots[next[solo]].code = Code(solo)
ShmWritten ==
  solo # Nobody /\ upc[solo] \in {"db", "insert", "delete", "commit", "signal"} =>
    ShmMap(shm) = map[solo]
Left ==
  solo # Nobody /\ upc[solo] = "off" /\ steady => file = AsPrinted(ShmMap(shm))

(* After it has gone, the server's SIGHUP handling brings the cache, and   *)
(* the table as the server sees it, up to the segment: entry by entry, in  *)
(* a scan that began when the run was over.                                *)
Latest(s, n, c) == CHOOSE i \in 1 .. n : /\ s.slots[i].code = c
                                         /\ \A j \in 1 .. n : s.slots[j].code = c => j <= i
ShmPrefix(s, n) == [c \in {s.slots[i].code : i \in 1 .. n} |-> s.slots[Latest(s, n, c)].rate]
Fresh == spc = "reset" \/ (spc = "idle" /\ ~flag)
CacheScanned ==
  solo # Nobody /\ upc[solo] = "off" /\ Scanning /\ (loop.then = "reset" \/ ~flag) =>
    /\ loop.count = shm.count /\ cache = ShmPrefix(shm, loop.at - 1)
    /\ spc = "scan_price" => loop.code = shm.slots[loop.at].code
CacheHealed ==
  solo # Nobody /\ upc[solo] = "off" /\ Fresh => cache = ShmMap(shm)
TableHealed ==
  solo # Nobody /\ upc[solo] = "off" /\ steady =>
    /\ spc = "apply" => lines = AsPrinted(ShmMap(shm))
    /\ Fresh \/ Scanning \/ spc \in {"apply", "reload"} =>
         Agree(draft, AsPrinted(ShmMap(shm)))

Recovery == /\ Alone /\ Unsignalled /\ Up
            /\ FileWritten /\ SlotsWritten /\ ShmWritten /\ Left
            /\ CacheScanned /\ CacheHealed /\ TableHealed

IndInv == TypeOK /\ Iteration /\ Transaction /\ Drafts /\ Stands /\ Recovery
-----------------------------------------------------------------------------
(* The types, store by store.                                              *)
StoresOK == file \in Tariffs /\ shm \in Segments
DbOK == IsTable(table) /\ IsTable(draft) /\ lock \in {"none", "server"} \cup Updaters
ServerOK ==
  /\ reading \in BOOLEAN /\ flag \in BOOLEAN /\ lines \in Tariffs
  /\ spc \in Places /\ loop \in Loops /\ cache \in Cached
UpdatersOK ==
  /\ upc \in [Updaters -> Phases] /\ job \in [Updaters -> Jobs]
  /\ map \in [Updaters -> Tariffs] /\ order \in [Updaters -> Seq(Codes)]
  /\ next \in [Updaters -> Nat \ {0}]
HistoryOK ==
  /\ runs \in 0 .. MaxRuns /\ crashes \in 0 .. MaxCrashes
  /\ solo \in Updaters \cup {Nobody} /\ steady \in BOOLEAN

LEMMA TypeParts ==
  /\ TypeOK <=> StoresOK /\ DbOK /\ ServerOK /\ UpdatersOK /\ HistoryOK
  /\ TypeOK' <=> StoresOK' /\ DbOK' /\ ServerOK' /\ UpdatersOK' /\ HistoryOK'
BY DEF TypeOK, StoresOK, DbOK, ServerOK, UpdatersOK, HistoryOK

LEMMA Unchanged ==
  /\ StoresOK /\ UNCHANGED <<file, shm>> => StoresOK'
  /\ DbOK /\ UNCHANGED dbVars => DbOK'
  /\ ServerOK /\ UNCHANGED <<reading, spc, loop, flag, cache, lines>> => ServerOK'
  /\ UpdatersOK /\ UNCHANGED updVars => UpdatersOK'
  /\ HistoryOK /\ UNCHANGED <<history, bounds>> => HistoryOK'
BY DEF StoresOK, DbOK, ServerOK, UpdatersOK, HistoryOK, dbVars, updVars, history, bounds,
       IsTable

LEMMA CodesFinite == Cardinality(Codes) \in Nat
BY FiniteCodesAssumption, FS_CardinalityType

(* What the operator's choice leaves behind: a list of the new map.        *)
LEMMA BijectionLists ==
  ASSUME NEW m \in Tariffs,
         NEW o \in Bijection(1 .. Cardinality(DOMAIN m), DOMAIN m)
  PROVE  o \in Seq(Codes) /\ Len(o) <= Cardinality(Codes) /\ Lists(o, m)
<1> DEFINE n == Cardinality(DOMAIN m)
<1>1. DOMAIN m \subseteq Codes
  BY TariffParts
<1>2. n \in Nat /\ n <= Cardinality(Codes)
  BY <1>1, FiniteCodesAssumption, FS_Subset, FS_CardinalityType
<1>3. o \in [1 .. n -> DOMAIN m] /\ \A c \in DOMAIN m : \E i \in 1 .. n : o[i] = c
  BY DEF Bijection, Injection, Surjection
<1>4. \A i, j \in 1 .. n : o[i] = o[j] => i = j
  BY <1>3 DEF Bijection, Injection, IsInjective
<1>5. o \in Seq(Codes) /\ Len(o) = n
  BY <1>1, <1>2, <1>3
<1> QED BY <1>2, <1>3, <1>4, <1>5 DEF Lists

LEMMA OverrideTariff ==
  ASSUME NEW m \in Tariffs, NEW k \in Tariffs
  PROVE  Override(m, k) \in Tariffs
<1>1. /\ DOMAIN m \cup DOMAIN k \in SUBSET Codes
      /\ Override(m, k) \in [DOMAIN m \cup DOMAIN k -> Rates]
  BY TariffParts DEF Override
<1> QED BY <1>1 DEF Tariffs

LEMMA OnePrice ==
  ASSUME NEW c \in Codes, NEW q \in Rates
  PROVE  [d \in {c} |-> q] \in Tariffs
<1>1. {c} \in SUBSET Codes /\ [d \in {c} |-> q] \in [{c} -> Rates]
  OBVIOUS
<1> QED BY <1>1 DEF Tariffs

(* prices_cache with what is read from the segment or from prices.txt.     *)
LEMMA OverrideCached ==
  ASSUME NEW m \in Cached, NEW k \in Cached
  PROVE  Override(m, k) \in Cached
<1>1. /\ DOMAIN m \cup DOMAIN k \subseteq Codes \cup {NoCity}
      /\ Override(m, k) \in [DOMAIN m \cup DOMAIN k -> Rates \cup {0}]
  BY CachedParts DEF Override
<1> QED BY <1>1, CachedMember

LEMMA OneCached ==
  ASSUME NEW c \in Codes \cup {NoCity}, NEW q \in Rates \cup {0}
  PROVE  [d \in {c} |-> q] \in Cached
<1>1. {c} \subseteq Codes \cup {NoCity} /\ [d \in {c} |-> q] \in [{c} -> Rates \cup {0}]
  OBVIOUS
<1> QED BY <1>1, CachedMember

LEMMA PrintedTariff ==
  ASSUME NEW m \in Tariffs
  PROVE  AsPrinted(m) \in Tariffs
<1>1. DOMAIN m \in SUBSET Codes /\ AsPrinted(m) \in [DOMAIN m -> Rates]
  BY TariffParts, PrintedAssumption DEF AsPrinted
<1> QED BY <1>1 DEF Tariffs

(* prices.txt, written from the table.                                     *)
LEMMA TableMapTariff ==
  ASSUME NEW t, IsTable(t), RowIds(t)
  PROVE  TableMap(t) \in Tariffs
<1> DEFINE last(c) == CHOOSE i \in DOMAIN t : /\ t[i].code = c
                                              /\ \A j \in DOMAIN t : t[j].code = c => j <= i
<1>1. ASSUME NEW c \in CodesOf(t) PROVE t[last(c)].rate \in Rates
  <2> DEFINE S == {i \in DOMAIN t : t[i].code = c}
  <2>1. S # {} /\ S \subseteq Nat
    BY DEF CodesOf, RowIds
  <2>2. PICK n \in Nat : \A i \in S : i <= n
    BY DEF RowIds
  <2>3. \E i \in S : \A j \in S : j <= i
    <3> HIDE DEF S
    <3> QED BY <2>1, <2>2, GreatestNatural
  <2>4. last(c) \in DOMAIN t
    BY <2>3
  <2> QED BY <2>4 DEF IsTable, PriceRows
<1>2. CodesOf(t) \in SUBSET Codes
  BY DEF CodesOf, IsTable, PriceRows
<1>3. TableMap(t) \in [CodesOf(t) -> Rates]
  BY <1>1 DEF TableMap
<1> QED BY <1>2, <1>3 DEF Tariffs
-----------------------------------------------------------------------------
USE DEF Phases, Places

(* A step of one updater leaves the others where they are.                 *)
Only(u) ==
  \A v \in Updaters \ {u} :
    /\ upc'[v] = upc[v] /\ job'[v] = job[v] /\ map'[v] = map[v]
    /\ order'[v] = order[v] /\ next'[v] = next[v]

LEMMA OnlyOne ==
  ASSUME UpdatersOK, NEW u \in Updaters, Updater(u) \/ KillUpdater(u)
  PROVE  Only(u)
<1>1. Exit(u) => Only(u)
  BY DEF Exit, Goto, UpdatersOK, Only
<1>2. ASSUME NEW j, NEW m, Enter(u, j, m) PROVE Only(u)
  BY <1>2 DEF Enter, Goto, UpdatersOK, Only
<1>3. CASE Launch(u)
  BY <1>3 DEF Launch, Goto, UpdatersOK, Only
<1>4. CASE EnterUpdate(u) \/ EnterAdd(u) \/ EnterRemove(u)
  BY <1>2, <1>4 DEF EnterUpdate, EnterAdd, EnterRemove
<1>5. CASE Truncate(u) \/ WriteFile(u) \/ ShmCount(u) \/ ShmCode(u) \/ ShmPrice(u) \/ ShmDone(u)
  BY <1>5 DEF Truncate, WriteFile, ShmCount, ShmCode, ShmPrice, ShmDone, Goto, UpdatersOK, Only
<1>6. CASE DbUpdate(u) \/ DbUpdateRefused(u) \/ DbInsert(u) \/ DbEnd(u) \/ DbCommit(u) \/ Delete(u)
  BY <1>6 DEF DbUpdate, DbUpdateRefused, DbInsert, DbEnd, DbCommit, Delete, NextLine, Goto,
     UpdatersOK, Only
<1>7. CASE Decline(u) \/ Signal(u) \/ KillUpdater(u)
  BY <1>1, <1>7 DEF Decline, Signal, KillUpdater
<1> QED BY <1>3, <1>4, <1>5, <1>6, <1>7 DEF Updater

LEMMA IterationOne ==
  ASSUME Iteration, NEW u \in Updaters, Only(u), Iterates(u)'
  PROVE  Iteration'
<1> SUFFICES ASSUME NEW v \in Updaters \ {u} PROVE Iterates(v)'
  BY DEF Iteration
<1> QED BY DEF Iteration, Iterates, Only

(* An updater that ends leaves nothing behind.                             *)
LEMMA ExitTypes ==
  ASSUME UpdatersOK, NEW u \in Updaters, Exit(u)
  PROVE  UpdatersOK' /\ Iterates(u)' /\ upc'[u] = "off"
<1>1. NoJob \in Jobs
  BY UpdatersAssumption DEF NoJob, Jobs
<1>2. <<>> \in Seq(Codes) /\ Len(<<>>) = 0
  OBVIOUS
<1>3. UpdatersOK'
  BY <1>1, <1>2, EmptyTariff DEF Exit, Goto, UpdatersOK
<1>4. upc'[u] = "off" /\ order'[u] = <<>> /\ next'[u] = 1
  BY DEF Exit, Goto, UpdatersOK
<1> QED BY <1>2, <1>3, <1>4, CodesFinite DEF Iterates

LEMMA LaunchTypes ==
  ASSUME TypeOK, Iteration, NEW u \in Updaters, Launch(u)
  PROVE  TypeOK' /\ Iterates(u)'
<1> USE DEF Launch, Goto, Idle
<1>1. UpdatersOK'
  BY TypeParts DEF StoresOK, UpdatersOK
<1>2. HistoryOK'
  BY TypeParts, RunsAssumption DEF HistoryOK
<1>3. StoresOK' /\ DbOK' /\ ServerOK'
  BY TypeParts, Unchanged DEF serverVars
<1>4. Iterates(u)'
  BY TypeParts DEF Iteration, Iterates, UpdatersOK
<1> QED BY <1>1, <1>2, <1>3, <1>4, TypeParts

LEMMA EnterTypes ==
  ASSUME TypeOK, Iteration, NEW u \in Updaters,
         EnterUpdate(u) \/ EnterAdd(u) \/ EnterRemove(u)
  PROVE  TypeOK' /\ Iterates(u)'
<1>1. PICK j \in Jobs, m \in Tariffs : Enter(u, j, m)
  <2>1. map[u] \in Tariffs
    BY TypeParts DEF UpdatersOK
  <2>2. DOMAIN map[u] \subseteq Codes /\ \A c \in DOMAIN map[u] : map[u][c] \in Rates
    BY <2>1, TariffParts
  <2>3. CASE EnterUpdate(u)
    <3>1. PICK c \in DOMAIN map[u], q \in Rates :
            Enter(u, [op |-> "update", code |-> c, loc |-> Nowhere],
                  [map[u] EXCEPT ![c] = q])
      BY <2>3 DEF EnterUpdate
    <3>2. [op |-> "update", code |-> c, loc |-> Nowhere] \in Jobs
      BY <2>2, UpdatersAssumption DEF Jobs
    <3>3. [map[u] EXCEPT ![c] = q] \in Tariffs
      BY <2>1 DEF Tariffs
    <3> QED BY <3>1, <3>2, <3>3
  <2>4. CASE EnterAdd(u)
    <3>1. PICK c \in Codes, l \in Locs \ {Nowhere}, q \in Rates :
            Enter(u, [op |-> "add", code |-> c, loc |-> l],
                  Override(map[u], [d \in {c} |-> q]))
      BY <2>4 DEF EnterAdd
    <3>2. [op |-> "add", code |-> c, loc |-> l] \in Jobs
      BY DEF Jobs
    <3>3. Override(map[u], [d \in {c} |-> q]) \in Tariffs
      BY <2>1, OnePrice, OverrideTariff
    <3> QED BY <3>1, <3>2, <3>3
  <2>5. CASE EnterRemove(u)
    <3>1. PICK c \in DOMAIN map[u] :
            Enter(u, [op |-> "remove", code |-> c, loc |-> Nowhere],
                  Restrict(map[u], DOMAIN map[u] \ {c}))
      BY <2>5 DEF EnterRemove
    <3>2. [op |-> "remove", code |-> c, loc |-> Nowhere] \in Jobs
      BY <2>2, UpdatersAssumption DEF Jobs
    <3>3. Restrict(map[u], DOMAIN map[u] \ {c}) \in Tariffs
      BY <2>1, RestrictTariff
    <3> QED BY <3>1, <3>2, <3>3
  <2> QED BY <2>3, <2>4, <2>5
<1>2. PICK o \in Bijection(1 .. Cardinality(DOMAIN m), DOMAIN m) :
        order' = [order EXCEPT ![u] = o]
  BY <1>1 DEF Enter
<1>3. o \in Seq(Codes) /\ Len(o) <= Cardinality(Codes) /\ Lists(o, m)
  BY BijectionLists
<1>4. UpdatersOK'
  BY <1>1, <1>2, <1>3, TypeParts DEF Enter, Goto, UpdatersOK
<1>5. /\ upc[u] = "menu" /\ upc'[u] = "save" /\ map'[u] = m /\ order'[u] = o
      /\ next'[u] = next[u]
  BY <1>1, <1>2, TypeParts DEF Enter, Goto, UpdatersOK
<1>6. next[u] = 1
  BY <1>5 DEF Iteration, Iterates
<1>7. Len(o) \in Nat
  BY <1>3
<1>8. Iterates(u)'
  BY <1>3, <1>5, <1>6, <1>7 DEF Iterates
<1>9. StoresOK' /\ DbOK' /\ ServerOK' /\ HistoryOK'
  BY <1>1, TypeParts, Unchanged DEF Enter, serverVars
<1> QED BY <1>4, <1>8, <1>9, TypeParts

(* One place further in the order.                                         *)
LEMMA NextTypes ==
  ASSUME UpdatersOK, NEW u \in Updaters, Iterates(u), next[u] <= Len(order[u]),
         upc[u] \in {"price", "db", "insert"}, upc' \in [Updaters -> Phases],
         \/ upc[u] = "price" /\ upc'[u] = "slots"
         \/ upc[u] \in {"db", "insert"} /\ upc'[u] = "db",
         next' = [next EXCEPT ![u] = @ + 1], UNCHANGED <<job, map, order>>
  PROVE  UpdatersOK' /\ Iterates(u)'
<1>1. Len(order[u]) \in Nat /\ next[u] \in Nat \ {0}
  BY DEF UpdatersOK
<1>2. next' \in [Updaters -> Nat \ {0}] /\ next'[u] = next[u] + 1
  BY <1>1 DEF UpdatersOK
<1>3. UpdatersOK'
  BY <1>2 DEF UpdatersOK
<1>4. Iterates(u)'
  BY <1>1, <1>2 DEF Iterates
<1> QED BY <1>3, <1>4

(* The file and the segment.                                               *)
LEMMA SegmentTypes ==
  ASSUME TypeOK, Iteration, NEW u \in Updaters,
         ShmCount(u) \/ ShmCode(u) \/ ShmPrice(u)
  PROVE  StoresOK'
<1>1. /\ shm \in Segments /\ file \in Tariffs /\ Iterates(u)
      /\ order[u] \in Seq(Codes) /\ map[u] \in Tariffs /\ next[u] \in Nat \ {0}
      /\ Len(order[u]) \in Nat
  BY TypeParts DEF Iteration, UpdatersOK, StoresOK
<1>2. CASE ShmCount(u)
  <2>1. Len(order[u]) \in 0 .. Cardinality(Codes)
    BY <1>1, CodesFinite DEF Iterates
  <2> QED BY <1>1, <1>2, <2>1 DEF ShmCount, StoresOK, Segments
<1>3. CASE ShmCode(u) \/ ShmPrice(u)
  <2> DEFINE i == next[u]
  <2>1. i <= Len(order[u]) /\ Lists(order[u], map[u])
    BY <1>1, <1>3 DEF ShmCode, ShmPrice, AtEnd, Iterates
  <2>2. i \in 1 .. Len(order[u]) /\ i \in Slots
    BY <1>1, <2>1, CodesFinite DEF Iterates, Slots
  <2>3. Code(u) \in DOMAIN map[u]
    BY <2>1, <2>2 DEF Lists, Code
  <2>4. Code(u) \in Codes /\ map[u][Code(u)] \in Rates
    BY <1>1, <2>3, TariffParts
  <2> HIDE DEF i
  <2>5. CASE ShmCode(u)
    <3>1. shm' = [shm EXCEPT !.slots[i].code = Code(u)] /\ file' = file
      BY <2>5 DEF ShmCode, i
    <3>2. [shm.slots[i] EXCEPT !.code = Code(u)] \in Entries
      BY <1>1, <2>2, <2>4 DEF Segments, Entries
    <3>3. shm'.made = shm.made /\ shm'.count = shm.count
          /\ shm'.slots = [shm.slots EXCEPT ![i] = [@ EXCEPT !.code = Code(u)]]
      BY <1>1, <3>1 DEF Segments
    <3>4. shm'.slots \in [Slots -> Entries]
      BY <1>1, <2>2, <3>2, <3>3 DEF Segments
    <3>5. shm' \in Segments
      BY <1>1, <3>1, <3>3, <3>4 DEF Segments
    <3> QED BY <1>1, <3>1, <3>5 DEF StoresOK
  <2>6. CASE ShmPrice(u)
    <3> DEFINE q == map[u][Code(u)]
    <3>1. shm' = [shm EXCEPT !.slots[i].rate = q] /\ file' = file
      BY <2>6 DEF ShmPrice, i
    <3>2. [shm.slots[i] EXCEPT !.rate = q] \in Entries
      BY <1>1, <2>2, <2>4 DEF Segments, Entries
    <3>3. shm'.made = shm.made /\ shm'.count = shm.count
          /\ shm'.slots = [shm.slots EXCEPT ![i] = [@ EXCEPT !.rate = q]]
      BY <1>1, <3>1 DEF Segments
    <3>4. shm'.slots \in [Slots -> Entries]
      BY <1>1, <2>2, <3>2, <3>3 DEF Segments
    <3>5. shm' \in Segments
      BY <1>1, <3>1, <3>3, <3>4 DEF Segments
    <3> QED BY <1>1, <3>1, <3>5 DEF StoresOK
  <2> QED BY <1>3, <2>5, <2>6
<1> QED BY <1>2, <1>3

LEMMA StoreStepTypes ==
  ASSUME TypeOK, Iteration, NEW u \in Updaters,
         \/ Truncate(u) \/ WriteFile(u)
         \/ ShmCount(u) \/ ShmCode(u) \/ ShmPrice(u) \/ ShmDone(u)
  PROVE  TypeOK' /\ Iterates(u)'
<1>1. UpdatersOK /\ StoresOK /\ Iterates(u) /\ order[u] \in Seq(Codes) /\ map[u] \in Tariffs
  BY TypeParts DEF Iteration, UpdatersOK
<1>2. Len(order[u]) \in Nat /\ next[u] \in Nat \ {0}
  BY <1>1 DEF UpdatersOK
<1>3. StoresOK'
  <2>1. CASE Truncate(u) \/ WriteFile(u)
    BY <1>1, <2>1, EmptyTariff, PrintedTariff DEF Truncate, WriteFile, StoresOK
  <2>2. CASE ShmDone(u)
    BY <1>1, <2>2, Unchanged DEF ShmDone
  <2> QED BY <2>1, <2>2, SegmentTypes
<1>4. UpdatersOK' /\ Iterates(u)'
  <2>1. CASE Truncate(u) \/ WriteFile(u) \/ ShmCount(u)
    BY <1>1, <2>1 DEF Truncate, WriteFile, ShmCount, Goto, UpdatersOK, Iterates
  <2>2. CASE ShmCode(u)
    BY <1>1, <1>2, <2>2 DEF ShmCode, AtEnd, Goto, UpdatersOK, Iterates
  <2>3. CASE ShmPrice(u)
    <3>1. /\ upc[u] = "price" /\ UNCHANGED <<job, map, order>>
          /\ upc' = [upc EXCEPT ![u] = "slots"] /\ next' = [next EXCEPT ![u] = @ + 1]
          /\ next[u] <= Len(order[u])
      BY <1>1, <2>3 DEF ShmPrice, Goto, Iterates
    <3>2. upc'[u] = "slots" /\ upc' \in [Updaters -> Phases]
      BY <1>1, <3>1 DEF UpdatersOK
    <3> QED BY <1>1, <3>1, <3>2, NextTypes
  <2>4. CASE ShmDone(u)
    <3>1. /\ upc[u] = "slots" /\ UNCHANGED <<job, map, order>>
          /\ upc' = [upc EXCEPT ![u] = AfterShm(u)] /\ AfterShm(u) \in {"delete", "db"}
          /\ next' = [next EXCEPT ![u] = 1]
          /\ AfterShm(u) = "delete" <=> job[u].op = "remove"
      BY <1>2, <2>4 DEF ShmDone, AfterShm, Goto
    <3>2. next' \in [Updaters -> Nat \ {0}] /\ upc' \in [Updaters -> Phases]
      BY <1>1, <3>1 DEF UpdatersOK
    <3>3. next'[u] = 1 /\ upc'[u] = AfterShm(u)
      BY <1>1, <3>1 DEF UpdatersOK
    <3> QED BY <1>1, <1>2, <3>1, <3>2, <3>3 DEF UpdatersOK, Iterates
  <2> QED BY <2>1, <2>2, <2>3, <2>4
<1>5. DbOK' /\ ServerOK' /\ HistoryOK'
  BY TypeParts, Unchanged DEF Truncate, WriteFile, ShmCount, ShmCode, ShmPrice, ShmDone,
     serverVars
<1> QED BY <1>3, <1>4, <1>5, TypeParts

(* The transaction.                                                        *)
LEMMA SeenTable ==
  ASSUME TypeOK, Transaction, NEW u \in Updaters
  PROVE  /\ IsTable(Seen(u)) /\ RowIds(Seen(u))
         /\ upc[u] \in {"db", "insert"} => Extends(Seen(u), table)
BY TypeParts, ExtendsRefl DEF DbOK, Transaction, Deleting, Seen

LEMMA DbStepTypes ==
  ASSUME TypeOK, Iteration, Transaction, NEW u \in Updaters,
         \/ DbUpdate(u) \/ DbUpdateRefused(u) \/ DbInsert(u)
         \/ DbEnd(u) \/ DbCommit(u) \/ Delete(u)
  PROVE  TypeOK' /\ Iterates(u)'
<1>1. UpdatersOK /\ DbOK /\ Iterates(u) /\ order[u] \in Seq(Codes) /\ map[u] \in Tariffs
      /\ job[u] \in Jobs
  BY TypeParts DEF Iteration, UpdatersOK
<1>2. Len(order[u]) \in Nat /\ next[u] \in Nat \ {0}
  BY <1>1 DEF UpdatersOK
<1>3. upc[u] \in {"db", "insert"} /\ next[u] <= Len(order[u]) =>
        Code(u) \in Codes /\ map[u][Code(u)] \in Rates
  BY <1>1, <1>2, TariffParts DEF Iterates, Lists, Code
<1>4. DbOK'
  <2>1. CASE DbUpdate(u)
    <3>0. Code(u) \in Codes /\ map[u][Code(u)] \in Rates
      BY <1>2, <1>3, <2>1 DEF DbUpdate, AtEnd
    <3>1. Line(u) \in Tariffs
      BY <3>0, OnePrice DEF Line
    <3>2. IsTable(UpdateRates(Seen(u), Line(u)))
      BY <3>1, SeenTable, UpdateRatesTable
    <3> QED BY <1>1, <2>1, <3>2 DEF DbUpdate, DbOK
  <2>2. CASE DbInsert(u)
    <3> DEFINE row == [code |-> Code(u), loc |-> job[u].loc, rate |-> map[u][Code(u)]]
    <3>1. next[u] <= Len(order[u])
      BY <1>1, <2>2 DEF DbInsert, Iterates
    <3>2. row \in PriceRows
      BY <1>1, <1>3, <2>2, <3>1 DEF DbInsert, PriceRows, Jobs
    <3>3. IsTable(InsertRow(Seen(u), row))
      BY <3>2, SeenTable, InsertRowTable
    <3> QED BY <1>1, <2>2, <3>3 DEF DbInsert, DbOK
  <2>3. CASE DbCommit(u)
    BY <1>1, <2>3 DEF DbCommit, DbOK
  <2>4. CASE Delete(u)
    BY <1>1, <2>4, DeleteCodeTable DEF Delete, DbOK
  <2>5. CASE DbUpdateRefused(u) \/ DbEnd(u)
    BY <1>1, <2>5, Unchanged DEF DbUpdateRefused, DbEnd
  <2> QED BY <2>1, <2>2, <2>3, <2>4, <2>5
<1>5. UpdatersOK' /\ Iterates(u)'
  <2>1. CASE (DbUpdate(u) \/ DbUpdateRefused(u)) /\ NextLine(u) /\ UNCHANGED upc
    <3>1. /\ upc[u] = "db" /\ next[u] <= Len(order[u]) /\ UNCHANGED <<job, map, order>>
          /\ next' = [next EXCEPT ![u] = @ + 1]
      BY <1>2, <2>1 DEF DbUpdate, DbUpdateRefused, AtEnd, NextLine
    <3> QED BY <1>1, <2>1, <3>1, NextTypes DEF UpdatersOK
  <2>2. CASE (DbUpdate(u) \/ DbUpdateRefused(u)) /\ Goto(u, "insert") /\ UNCHANGED next
    BY <1>1, <1>2, <2>2 DEF DbUpdate, DbUpdateRefused, AtEnd, Goto, UpdatersOK, Iterates
  <2>3. CASE DbInsert(u)
    BY <1>1, <2>3, NextTypes DEF DbInsert, NextLine, Goto, UpdatersOK, Iterates
  <2>4. CASE DbEnd(u) \/ DbCommit(u)
    BY <1>1, <1>2, <2>4 DEF DbEnd, DbCommit, Goto, UpdatersOK, Iterates
  <2>5. CASE Delete(u)
    BY <1>1, <1>2, <2>5 DEF Delete, Goto, UpdatersOK, Iterates
  <2> QED BY <2>1, <2>2, <2>3, <2>4, <2>5 DEF DbUpdate, DbUpdateRefused
<1>6. StoresOK' /\ ServerOK' /\ HistoryOK'
  BY TypeParts, Unchanged DEF DbUpdate, DbUpdateRefused, DbInsert, DbEnd, DbCommit, Delete,
     serverVars
<1> QED BY <1>4, <1>5, <1>6, TypeParts

(* The ends of an updater.                                                 *)
LEMMA EndTypes ==
  ASSUME TypeOK, NEW u \in Updaters, Decline(u) \/ Signal(u) \/ KillUpdater(u)
  PROVE  TypeOK' /\ Iterates(u)'
<1>1. UpdatersOK' /\ Iterates(u)'
  BY TypeParts, ExitTypes DEF Decline, Signal, KillUpdater
<1>2. StoresOK' /\ DbOK'
  BY TypeParts, Unchanged DEF Decline, Signal, KillUpdater, DbOK, dbVars, IsTable
<1>3. ServerOK'
  BY TypeParts, Unchanged DEF Decline, Signal, KillUpdater, ServerOK, serverVars
<1>4. HistoryOK'
  BY TypeParts, RunsAssumption
     DEF Decline, Signal, KillUpdater, HistoryOK, history, bounds
<1> QED BY <1>1, <1>2, <1>3, <1>4, TypeParts

(* The server.                                                             *)
LEMMA ServerTypes ==
  ASSUME TypeOK, Transaction, Looping, Server \/ KillServer
  PROVE  TypeOK'
<1>1. StoresOK /\ DbOK /\ ServerOK /\ HistoryOK /\ UpdatersOK
  BY TypeParts
<1>2. UpdatersOK'
  BY <1>1, Unchanged DEF Server, Boot, SeedFind, SeedInsert, Generate, Generated, Sighup,
     ApplyRest, Applied, LoadShm, CreateShm, LoadCode, LoadPrice, ResetFlag, ServeFrame,
     ServeBusy, PressEnter, KillServer
<1>3. HistoryOK'
  <2>1. CASE PressEnter
    BY <1>1, <2>1 DEF PressEnter, ServerGone, HistoryOK, bounds
  <2>2. CASE KillServer \/ ServeBusy
    <3>1. crashes' \in 0 .. MaxCrashes
      BY <1>1, <2>2, RunsAssumption DEF KillServer, ServeBusy, HistoryOK
    <3> QED BY <1>1, <2>2, <3>1 DEF KillServer, ServeBusy, ServerGone, HistoryOK, history
  <2>3. CASE UNCHANGED <<history, bounds>>
    BY <1>1, <2>3, Unchanged
  <2> QED BY <2>1, <2>2, <2>3 DEF Server, Boot, SeedFind, SeedInsert, Generate, Generated,
     Sighup, ApplyRest, Applied, LoadShm, CreateShm, LoadCode, LoadPrice, ResetFlag, ServeFrame
<1>4. ServerOK'
  <2>0. 0 \in 0 .. Cardinality(Codes)
    BY CodesFinite
  <2>1. NoLoop \in Loops /\ [NoLoop EXCEPT !.at = 1] \in Loops
        /\ \A c \in Codes \cup {NoCity} : [loop EXCEPT !.code = c] \in Loops
        /\ [loop EXCEPT !.at = @ + 1] \in Loops
        /\ [loop EXCEPT !.at = @ + 1, !.code = NoCity] \in Loops
    <3>1. loop = [count |-> loop.count, at |-> loop.at, code |-> loop.code,
                  then |-> loop.then]
          /\ loop.count \in 0 .. Cardinality(Codes) /\ loop.at \in Nat /\ loop.at + 1 \in Nat
          /\ loop.code \in Codes \cup {NoCity} /\ loop.then \in {"idle", "reset"}
      BY <1>1 DEF ServerOK, Loops
    <3>2. NoLoop \in Loops /\ [NoLoop EXCEPT !.at = 1] \in Loops
      BY <2>0 DEF Loops, NoLoop
    <3>3. \A c \in Codes \cup {NoCity} : [loop EXCEPT !.code = c] \in Loops
      BY <3>1 DEF Loops
    <3>4. [loop EXCEPT !.at = @ + 1] \in Loops
          /\ [loop EXCEPT !.at = @ + 1, !.code = NoCity] \in Loops
      BY <3>1 DEF Loops
    <3> QED BY <3>2, <3>3, <3>4
  <2>2. <<>> \in Cached
    BY EmptyTariff, TariffCached
  <2>3. CASE LoadShm
    <3>1. shm.count \in 0 .. Cardinality(Codes)
      BY <1>1 DEF StoresOK, Segments
    <3>2. ASSUME NEW then \in {"idle", "reset"}
          PROVE  /\ [NoLoop EXCEPT !.then = then] \in Loops
                 /\ [NoLoop EXCEPT !.count = shm.count, !.at = 1, !.then = then] \in Loops
      BY <2>0, <3>1 DEF Loops, NoLoop
    <3>3. loop' \in Loops
      BY <2>3, <3>2 DEF LoadShm
    <3>4. cache' \in Cached /\ spc' \in Places
      BY <1>1, <2>2, <2>3 DEF LoadShm, ServerOK
    <3> QED BY <1>1, <2>3, <3>3, <3>4 DEF LoadShm, ServerOK
  <2>4. CASE LoadCode \/ LoadPrice
    <3>1. loop.at \in Slots
      BY <1>1, <2>4, CodesFinite
         DEF LoadCode, LoadPrice, Looping, Scanning, Slots, ServerOK, Loops
    <3>2. shm.slots[loop.at] \in Entries
      BY <1>1, <3>1 DEF StoresOK, Segments
    <3>3. shm.slots[loop.at].code \in Codes \cup {NoCity}
          /\ shm.slots[loop.at].rate \in Rates \cup {0} /\ loop.code \in Codes \cup {NoCity}
          /\ loop.then \in {"idle", "reset"}
      BY <1>1, <3>2 DEF Entries, ServerOK, Loops
    <3>4. loop' \in Loops /\ spc' \in Places
      BY <2>1, <2>4, <3>3 DEF LoadCode, LoadPrice
    <3>5. cache' \in Cached
      BY <1>1, <2>4, <3>3, OneCached, OverrideCached DEF LoadCode, LoadPrice, ServerOK
    <3> QED BY <1>1, <2>4, <3>4, <3>5 DEF LoadCode, LoadPrice, ServerOK
  <2>5. CASE Applied
    <3>1. cache' \in Cached
      BY <1>1, <2>5, OverrideCached, TariffCached DEF Applied, ServerOK
    <3> QED BY <1>1, <2>5, <3>1, EmptyTariff DEF Applied, ServerOK
  <2>6. CASE CreateShm
    <3>1. loop.then \in {"idle", "reset"}
      BY <1>1 DEF ServerOK, Loops
    <3> QED BY <1>1, <2>1, <2>6, <3>1 DEF CreateShm, ServerOK
  <2>7. CASE Boot \/ SeedFind \/ SeedInsert \/ Generate \/ Generated
    BY <1>1, <2>1, <2>7 DEF Boot, SeedFind, SeedInsert, Generate, Generated, ServerOK
  <2>8. CASE PressEnter \/ KillServer
    BY <1>1, <2>1, <2>2, <2>8, EmptyTariff DEF PressEnter, KillServer, ServerGone, ServerOK
  <2>9. CASE Sighup \/ ApplyRest \/ ResetFlag \/ ServeFrame \/ ServeBusy
    BY <1>1, <2>9 DEF Sighup, ApplyRest, ResetFlag, ServeFrame, ServeBusy, ServerOK, StoresOK,
       serverVars
  <2> QED BY <2>3, <2>4, <2>5, <2>6, <2>7, <2>8, <2>9 DEF Server
<1>5. StoresOK'
  <2>1. CASE Generated
    BY <1>1, <2>1, TableMapTariff, PrintedTariff DEF Generated, StoresOK, DbOK, Transaction
  <2>2. CASE CreateShm
    <3>1. 0 \in 0 .. Cardinality(Codes)
      BY CodesFinite
    <3> QED BY <1>1, <2>2, <3>1 DEF CreateShm, StoresOK, Segments
  <2>3. CASE UNCHANGED shm /\ file' \in {file, <<>>}
    BY <1>1, <2>3, EmptyTariff DEF StoresOK
  <2> QED BY <2>1, <2>2, <2>3 DEF Server, Boot, SeedFind, SeedInsert, Generate, Sighup,
     ApplyRest, Applied, LoadShm, LoadCode, LoadPrice, ResetFlag, ServeFrame, ServeBusy,
     PressEnter, KillServer
<1>6. DbOK'
  <2>1. CASE SeedInsert
    <3>1. loop.at \in DOMAIN Seeds
      BY <1>1, <2>1, SeedsAssumption DEF SeedInsert, Looping, ServerOK, Loops
    <3>2. Seeds[loop.at] \in PriceRows
      BY <3>1, SeedsAssumption
    <3>3. IsTable(InsertRow(table, Seeds[loop.at]))
      BY <1>1, <3>2, InsertRowTable DEF DbOK
    <3> QED BY <1>1, <2>1, <3>3 DEF SeedInsert, DbOK
  <2>2. CASE Sighup
    BY <1>1, <2>2, UpdateRatesTable DEF Sighup, DbOK, StoresOK
  <2>3. CASE ApplyRest
    <3>1. PICK rest \in SUBSET DOMAIN lines :
            draft' = UpdateRates(table, Restrict(lines, rest))
      BY <2>3 DEF ApplyRest
    <3>2. Restrict(lines, rest) \in Tariffs
      BY <1>1, RestrictTariff DEF ServerOK
    <3>3. IsTable(draft')
      BY <1>1, <3>1, <3>2, UpdateRatesTable DEF DbOK
    <3> QED BY <1>1, <2>3, <3>3 DEF ApplyRest, DbOK
  <2>4. CASE Applied
    BY <1>1, <2>4 DEF Applied, DbOK
  <2>5. CASE PressEnter \/ KillServer
    BY <1>1, <2>5 DEF PressEnter, KillServer, ServerGone, DbOK
  <2>6. CASE UNCHANGED dbVars
    BY <1>1, <2>6, Unchanged
  <2> QED BY <2>1, <2>2, <2>3, <2>4, <2>5, <2>6
       DEF Server, Boot, SeedFind, Generate, Generated, LoadShm, CreateShm, LoadCode, LoadPrice,
           ResetFlag, ServeFrame, ServeBusy
<1> QED BY <1>2, <1>3, <1>4, <1>5, <1>6, TypeParts

LEMMA TypesKept ==
  ASSUME TypeOK, Iteration, Transaction, Looping, [Next]_vars
  PROVE  TypeOK' /\ Iteration'
<1>1. ASSUME NEW u \in Updaters, Updater(u) \/ KillUpdater(u)
      PROVE  TypeOK' /\ Iteration'
  <2>1. TypeOK' /\ Iterates(u)'
    BY <1>1, LaunchTypes, EnterTypes, StoreStepTypes, DbStepTypes, EndTypes DEF Updater
  <2>2. Only(u)
    BY <1>1, OnlyOne, TypeParts
  <2> QED BY <2>1, <2>2, IterationOne
<1>2. CASE Server \/ KillServer
  <2>1. UNCHANGED updVars
    BY <1>2 DEF Server, Boot, SeedFind, SeedInsert, Generate, Generated, Sighup, ApplyRest, Applied,
       LoadShm, CreateShm, LoadCode, LoadPrice, ResetFlag, ServeFrame, ServeBusy, PressEnter, KillServer
  <2> QED BY <1>2, <2>1, ServerTypes DEF updVars, Iteration, Iterates
<1>3. CASE UNCHANGED vars
  BY <1>3, TypeParts, Unchanged DEF vars, serverVars, updVars, Iteration, Iterates
<1> QED BY <1>1, <1>2, <1>3 DEF Next
-----------------------------------------------------------------------------
(* The transaction, and what it does to the committed table.               *)
Sound == Transaction' /\ RowsStay

LEMMA ExtendsStays ==
  ASSUME Extends(table', table)
  PROVE  RowsStay
BY DEF Extends, RowsStay

(* Nothing is written, and the holder of the lock stays where it is.       *)
LEMMA ElsewhereSound ==
  ASSUME Transaction, UNCHANGED dbVars,
         lock \in Updaters => upc'[lock] = upc[lock] /\ job'[lock] = job[lock],
         \A v \in Updaters : upc'[v] = "commit" => upc[v] = "commit"
  PROVE  Sound
<1>1. RowsStay
  BY ExtendsRefl, ExtendsStays DEF dbVars
<1>2. Deleting' <=> Deleting
  BY DEF Deleting, dbVars
<1>3. RowIds(table') /\ RowIds(draft') /\ (lock' = "none" => draft' = table')
  BY DEF Transaction, dbVars
<1>4. Deleting' => draft' = DeleteCode(table', job'[lock'].code)
  BY <1>2 DEF Transaction, Deleting, dbVars
<1>5. ~Deleting' => Extends(draft', table')
  BY <1>2 DEF Transaction, dbVars
<1> QED BY <1>1, <1>3, <1>4, <1>5 DEF Sound, Transaction, dbVars

(* A write by whoever may: the draft grows from what the writer sees.      *)
LEMMA WriteSound ==
  ASSUME Transaction, NEW who, who # "none", lock' = who, table' = table,
         NEW seen, Extends(seen, table), RowIds(draft'), Extends(draft', seen),
         who \in Updaters => upc'[who] \in {"db", "insert"},
         \A v \in Updaters : upc'[v] # "commit"
  PROVE  Sound
<1>1. Extends(draft', table')
  BY ExtendsTrans
<1>2. RowsStay
  BY ExtendsRefl, ExtendsStays
<1>3. RowIds(table') /\ ~Deleting'
  BY DEF Transaction, Deleting
<1> QED BY <1>1, <1>2, <1>3 DEF Sound, Transaction

(* The lock is let go, with the draft committed or dropped.                *)
LEMMA Released ==
  ASSUME Transaction, lock' = "none", draft' = table', RowIds(table'),
         \A v \in Updaters : upc'[v] # "commit"
  PROVE  Transaction'
<1>1. ~Deleting' /\ Extends(draft', table') /\ lock' \notin Updaters
  BY ExtendsRefl, UpdatersAssumption DEF Deleting
<1> QED BY <1>1 DEF Transaction

LEMMA ReleaseSound ==
  ASSUME Transaction, lock' = "none", table' \in {table, draft}, draft' = table',
         table' = table \/ ~Deleting,
         \A v \in Updaters : upc'[v] # "commit"
  PROVE  Sound
<1>1. Extends(table', table) /\ RowIds(table')
  BY ExtendsRefl DEF Transaction
<1> QED BY <1>1, Released, ExtendsStays DEF Sound

(* While nobody else holds the lock, nobody else commits.                  *)
LEMMA NoCommitter ==
  ASSUME Transaction, NEW u \in Updaters, Only(u), lock \in {"none", u}, upc'[u] # "commit"
  PROVE  \A v \in Updaters : upc'[v] # "commit"
BY UpdatersAssumption DEF Transaction, Only

LEMMA WritesSound ==
  ASSUME TypeOK, Transaction, NEW u \in Updaters, Only(u),
         \/ DbUpdate(u)
         \/ DbInsert(u) /\ MayWrite(u) /\ lock' = u
             /\ \E row : draft' = InsertRow(Seen(u), row)
  PROVE  Sound
<1>1. UpdatersOK /\ u # "none" /\ upc[u] \in {"db", "insert"} /\ lock \in {"none", u}
  BY TypeParts, UpdatersAssumption DEF DbUpdate, DbInsert, MayWrite
<1>2. upc'[u] \in {"db", "insert"} /\ table' = table
  BY <1>1 DEF DbUpdate, DbInsert, Goto, UpdatersOK
<1>3. IsTable(Seen(u)) /\ RowIds(Seen(u)) /\ Extends(Seen(u), table)
  BY <1>1, SeenTable
<1>4. lock' = u /\ RowIds(draft') /\ Extends(draft', Seen(u))
  <2>1. CASE DbUpdate(u)
    BY <1>3, <2>1, UpdateRatesExtends, UpdateRatesRowIds DEF DbUpdate
  <2>2. CASE DbInsert(u) /\ lock' = u /\ \E row : draft' = InsertRow(Seen(u), row)
    <3>1. PICK row : draft' = InsertRow(Seen(u), row)
      BY <2>2
    <3> QED BY <1>3, <2>2, <3>1, InsertedRow
  <2> QED BY <2>1, <2>2
<1>5. \A v \in Updaters : upc'[v] # "commit"
  BY <1>1, <1>2, NoCommitter
<1> QED BY <1>1, <1>2, <1>3, <1>4, <1>5, WriteSound

(* COMMIT: a row is lost only by the DELETE that was asked for.            *)
LEMMA CommitSound ==
  ASSUME TypeOK, Transaction, NEW u \in Updaters, Only(u), DbCommit(u)
  PROVE  Sound
<1>1. upc[u] = "commit" /\ upc'[u] = "signal" /\ lock = u /\ lock' = "none"
      /\ draft' = table' /\ table' \in {table, draft}
  BY TypeParts DEF DbCommit, Goto, UpdatersOK, Transaction
<1>2. \A v \in Updaters : upc'[v] # "commit"
  BY <1>1, NoCommitter
<1>3. CASE table' = table \/ ~Deleting
  BY <1>1, <1>2, <1>3, ReleaseSound
<1>4. CASE table' = draft /\ Deleting
  <2> DEFINE t == DeleteCode(table, job[u].code)
  <2>1. /\ DOMAIN t = {i \in DOMAIN table : table[i].code # job[u].code}
        /\ \A i \in DOMAIN t : t[i] = table[i]
    BY DeleteCodeRows
  <2> HIDE DEF t
  <2>2. table' = t /\ job[u].op = "remove" /\ RowIds(table')
    BY <1>1, <1>4 DEF Transaction, Deleting, t
  <2>3. ASSUME NEW i \in DOMAIN table \ DOMAIN table'
        PROVE  \E v \in Updaters :
                 upc[v] = "commit" /\ job[v].op = "remove" /\ job[v].code = table[i].code
    BY <1>1, <2>1, <2>2
  <2>4. ASSUME NEW i \in DOMAIN table \cap DOMAIN table'
        PROVE  table'[i] = table[i]
    BY <2>1, <2>2
  <2>5. RowsStay
    BY <2>3, <2>4 DEF RowsStay
  <2>6. Transaction'
    BY <1>1, <1>2, <2>2, Released
  <2> QED BY <2>5, <2>6 DEF Sound
<1> QED BY <1>1, <1>3, <1>4

LEMMA DeleteSound ==
  ASSUME TypeOK, Transaction, NEW u \in Updaters, Iterates(u), Only(u), Delete(u),
         lock = "none", lock' = u
  PROVE  Sound
<1>1. /\ upc[u] = "delete" /\ upc'[u] = "commit" /\ job' = job /\ table' = table
      /\ draft' = DeleteCode(table, job[u].code) /\ u # "none"
  BY TypeParts, UpdatersAssumption DEF Delete, Goto, UpdatersOK
<1>2. job[u].op = "remove"
  BY <1>1 DEF Iterates
<1>3. Deleting'
  BY <1>1, <1>2 DEF Deleting
<1>4. RowIds(draft') /\ RowIds(table')
  BY <1>1, DeleteCodeRowIds DEF Transaction
<1>5. \A v \in Updaters : upc'[v] = "commit" => v = u
  BY UpdatersAssumption DEF Transaction, Only
<1>6. Transaction'
  BY <1>1, <1>3, <1>4, <1>5 DEF Transaction
<1> QED BY <1>1, <1>6, ExtendsRefl, ExtendsStays DEF Sound

(* COMMIT is about to be tried.                                            *)
LEMMA EndSound ==
  ASSUME TypeOK, Transaction, NEW u \in Updaters, Iterates(u), Only(u), DbEnd(u)
  PROVE  Sound
<1>1. /\ upc[u] = "db" /\ job' = job /\ UNCHANGED dbVars /\ job[u].op # "remove"
      /\ upc'[u] = IF lock = u THEN "commit" ELSE "signal"
  BY TypeParts DEF DbEnd, Goto, UpdatersOK, Iterates
<1>2. CASE lock # u
  BY <1>1, <1>2, ElsewhereSound DEF Only
<1>3. CASE lock = u
  <2>1. ~Deleting /\ ~Deleting'
    BY <1>1, <1>3 DEF Deleting, dbVars
  <2>2. \A v \in Updaters : upc'[v] = "commit" => v = u
    BY <1>1, <1>3 DEF Transaction, Only
  <2>3. Transaction'
    BY <1>1, <1>3, <2>1, <2>2, UpdatersAssumption DEF Transaction, dbVars
  <2> QED BY <1>1, <2>3, ExtendsRefl, ExtendsStays DEF Sound, dbVars
<1> QED BY <1>2, <1>3

LEMMA UpdaterSound ==
  ASSUME TypeOK, Iteration, Transaction, NEW u \in Updaters, Updater(u) \/ KillUpdater(u)
  PROVE  Sound
<1>1. Only(u) /\ u # "none" /\ UpdatersOK /\ Iterates(u)
  BY OnlyOne, TypeParts, UpdatersAssumption DEF Iteration
<1>2. ASSUME UNCHANGED dbVars, upc'[u] # "commit", lock # u
      PROVE  Sound
  BY <1>1, <1>2, ElsewhereSound DEF Only
<1>3. CASE Launch(u) \/ EnterUpdate(u) \/ EnterAdd(u) \/ EnterRemove(u) \/ Decline(u)
           \/ Truncate(u) \/ WriteFile(u)
           \/ ShmCount(u) \/ ShmCode(u) \/ ShmPrice(u) \/ ShmDone(u) \/ Signal(u)
  <2>1. UNCHANGED dbVars /\ upc[u] \notin {"db", "insert", "commit"}
    BY <1>3 DEF Launch, Idle, EnterUpdate, EnterAdd, EnterRemove, Enter, Decline, Truncate,
       WriteFile, ShmCount, ShmCode, ShmPrice, ShmDone, Signal
  <2>2. upc'[u] # "commit"
    BY <1>1, <1>3 DEF Launch, EnterUpdate, EnterAdd, EnterRemove, Enter, Decline, Truncate,
       WriteFile, ShmCount, ShmCode, ShmPrice, ShmDone, AfterShm, Signal, Exit, Goto, UpdatersOK
  <2>3. lock # u
    BY <2>1 DEF Transaction
  <2> QED BY <1>2, <2>1, <2>2, <2>3
<1>4. CASE DbUpdate(u)
  BY <1>1, <1>4, WritesSound
<1>5. CASE DbInsert(u)
  <2>1. CASE MayWrite(u) /\ lock' = u /\ \E row : draft' = InsertRow(Seen(u), row)
    BY <1>1, <1>5, <2>1, WritesSound
  <2>2. CASE Refused(u) /\ UNCHANGED <<draft, lock>>
    <3>1. UNCHANGED dbVars /\ lock # u /\ upc'[u] # "commit"
      BY <1>1, <1>5, <2>2 DEF DbInsert, Refused, MayWrite, dbVars, Goto, UpdatersOK
    <3> QED BY <1>2, <3>1
  <2> QED BY <1>5, <2>1, <2>2 DEF DbInsert
<1>6. CASE DbUpdateRefused(u)
  <2>1. UNCHANGED dbVars /\ lock # u /\ upc'[u] # "commit"
    BY <1>1, <1>6 DEF DbUpdateRefused, Refused, MayWrite, Goto, UpdatersOK
  <2> QED BY <1>2, <2>1
<1>7. CASE DbEnd(u)
  BY <1>1, <1>7, EndSound
<1>8. CASE DbCommit(u)
  BY <1>1, <1>8, CommitSound
<1>9. CASE Delete(u)
  <2>1. CASE lock = "none" /\ lock' = u
    BY <1>1, <1>9, <2>1, DeleteSound
  <2>2. CASE Refused(u) /\ Goto(u, "signal") /\ UNCHANGED <<draft, lock>>
    <3>1. UNCHANGED dbVars /\ lock # u /\ upc'[u] # "commit"
      BY <1>1, <1>9, <2>2 DEF Delete, Refused, MayWrite, dbVars, Goto, UpdatersOK
    <3> QED BY <1>2, <3>1
  <2> QED BY <1>9, <2>1, <2>2 DEF Delete
<1>10. CASE KillUpdater(u)
  <2>1. upc'[u] = "off" /\ table' = table
    BY <1>1, <1>10 DEF KillUpdater, Exit, Goto, UpdatersOK
  <2>2. CASE lock = u
    <3>1. lock' = "none" /\ draft' = table'
      BY <1>10, <2>2 DEF KillUpdater
    <3>2. \A v \in Updaters : upc'[v] # "commit"
      BY <1>1, <2>1, <2>2, NoCommitter
    <3> QED BY <2>1, <3>1, <3>2, ReleaseSound
  <2>3. CASE lock # u
    <3>1. UNCHANGED dbVars
      BY <1>10, <2>3 DEF KillUpdater, dbVars
    <3> QED BY <1>2, <2>1, <2>3, <3>1
  <2> QED BY <2>2, <2>3
<1> QED BY <1>3, <1>4, <1>5, <1>6, <1>7, <1>8, <1>9, <1>10 DEF Updater

LEMMA ServerSound ==
  ASSUME TypeOK, Transaction, Server \/ KillServer
  PROVE  Sound
<1>1. UNCHANGED <<upc, job>> /\ IsTable(table) /\ IsTable(draft)
      /\ "server" \notin Updaters /\ "none" \notin Updaters
  BY TypeParts, UpdatersAssumption DEF DbOK, Server, Boot, SeedFind, SeedInsert, Generate,
     Generated, Sighup, ApplyRest, Applied, LoadShm, CreateShm, LoadCode, LoadPrice, ResetFlag,
     ServeFrame, ServeBusy, PressEnter, KillServer, updVars
<1>2. CASE UNCHANGED dbVars
  BY <1>1, <1>2, ElsewhereSound
<1>3. lock \notin Updaters => ~Deleting /\ \A v \in Updaters : upc'[v] # "commit"
  BY <1>1 DEF Transaction, Deleting
<1>4. CASE SeedInsert
  <2>1. CASE lock = "none" /\ table' = InsertRow(table, Seeds[loop.at]) /\ draft' = table'
    <3>1. RowIds(table') /\ Extends(table', table) /\ lock' = "none"
      BY <1>4, <2>1, InsertedRow DEF SeedInsert, Transaction
    <3> QED BY <1>1, <1>3, <2>1, <3>1, Released, ExtendsStays DEF Sound
  <2> QED BY <1>2, <1>4, <2>1 DEF SeedInsert, dbVars
<1>5. CASE Sighup
  <2>1. CASE lock \in {"none", "server"} /\ lock' = "server" /\ draft' = UpdateRates(draft, file)
    <3>1. table' = table /\ Extends(draft, table) /\ RowIds(draft)
      BY <1>1, <1>3, <1>5, <2>1 DEF Sighup, Transaction
    <3>2. RowIds(draft') /\ Extends(draft', draft)
      BY <1>1, <2>1, <3>1, UpdateRatesExtends, UpdateRatesRowIds
    <3> QED BY <1>1, <1>3, <2>1, <3>1, <3>2, WriteSound
  <2> QED BY <1>2, <1>5, <2>1 DEF Sighup, dbVars
<1>6. CASE ApplyRest
  <2>1. PICK rest : draft' = UpdateRates(table, Restrict(lines, rest))
    BY <1>6 DEF ApplyRest
  <2>2. lock = "none" /\ lock' = "server" /\ table' = table
    BY <1>6 DEF ApplyRest
  <2>3. RowIds(draft') /\ Extends(draft', table) /\ Extends(table, table)
    BY <1>1, <2>1, UpdateRatesExtends, UpdateRatesRowIds, ExtendsRefl DEF Transaction
  <2> QED BY <1>1, <1>3, <2>2, <2>3, WriteSound
<1>7. CASE Applied
  <2>1. CASE lock = "server" /\ table' = draft /\ lock' = "none"
    BY <1>1, <1>3, <1>7, <2>1, ReleaseSound DEF Applied
  <2> QED BY <1>2, <1>7, <2>1 DEF Applied, dbVars
<1>8. CASE PressEnter \/ KillServer
  <2>1. CASE lock = "server"
    BY <1>1, <1>3, <1>8, <2>1, ReleaseSound DEF PressEnter, KillServer, ServerGone
  <2>2. CASE lock # "server"
    BY <1>2, <1>8, <2>2 DEF PressEnter, KillServer, ServerGone, dbVars
  <2> QED BY <2>1, <2>2
<1>9. CASE ~(SeedInsert \/ Sighup \/ ApplyRest \/ Applied \/ PressEnter \/ KillServer)
  BY <1>2, <1>9 DEF Server, Boot, SeedFind, Generate, Generated, LoadShm, CreateShm, LoadCode,
     LoadPrice, ResetFlag, ServeFrame, ServeBusy
<1> QED BY <1>4, <1>5, <1>6, <1>7, <1>8, <1>9

LEMMA TransactionKept ==
  ASSUME TypeOK, Iteration, Transaction, [Next]_vars
  PROVE  Transaction' /\ [RowsStay]_vars
<1>1. CASE Next
  BY <1>1, UpdaterSound, ServerSound DEF Next, Sound
<1>2. CASE UNCHANGED vars
  BY <1>2, ElsewhereSound DEF vars, updVars, Sound
<1> QED BY <1>1, <1>2
-----------------------------------------------------------------------------
(* What the lines of an updater's transaction make of the table.           *)
LEMMA WrittenNothing ==
  ASSUME NEW s, IsTable(s), RowIds(s), NEW l, NEW D
  PROVE  Written(s, s, l, D)
<1>1. s \in UpdaterTables(s, <<>>, l, {}) /\ {} \in Again(<<>>)
  BY NoLines DEF Again
<1>2. DOMAIN <<>> \subseteq D
  OBVIOUS
<1> QED BY <1>1, <1>2, EmptyTariff DEF Written

LEMMA WrittenUpdate ==
  ASSUME NEW s, IsTable(s), RowIds(s), NEW t, NEW l, NEW D, Written(t, s, l, D),
         NEW c \in Codes, c \notin D, c \in CodesOf(t), NEW q \in Rates,
         NEW line, line = [d \in {c} |-> q]
  PROVE  Written(UpdateRates(t, line), s, l, D \cup {c})
<1>1. PICK m \in Tariffs :
        DOMAIN m \subseteq D /\ \E again \in Again(m) : t \in UpdaterTables(s, m, l, again)
  BY DEF Written
<1> PICK again \in Again(m) : t \in UpdaterTables(s, m, l, again)
  BY <1>1
<1>2. With(m, c, q) \in Tariffs /\ again \in Again(With(m, c, q))
  BY WithTariff
<1>3. c \in CodesOf(t) \ DOMAIN m
  BY <1>1
<1>4. UpdateRates(t, line) \in UpdaterTables(s, With(m, c, q), l, again)
  BY <1>1, <1>3, FiniteCodesAssumption, OneUpdate
<1>5. DOMAIN With(m, c, q) \subseteq D \cup {c}
  BY <1>1 DEF With
<1> QED BY <1>2, <1>4, <1>5 DEF Written

LEMMA WrittenInsert ==
  ASSUME NEW s, IsTable(s), RowIds(s), NEW t, NEW l, NEW D, Written(t, s, l, D),
         NEW c \in Codes, c \notin D, c \notin CodesOf(t), NEW q \in Rates
  PROVE  Written(InsertRow(t, [code |-> c, loc |-> l, rate |-> q]), s, l, D \cup {c})
<1>1. PICK m \in Tariffs :
        DOMAIN m \subseteq D /\ \E again \in Again(m) : t \in UpdaterTables(s, m, l, again)
  BY DEF Written
<1> PICK again \in Again(m) : t \in UpdaterTables(s, m, l, again)
  BY <1>1
<1>2. With(m, c, q) \in Tariffs /\ again \in Again(With(m, c, q))
  BY WithTariff
<1>3. InsertRow(t, [code |-> c, loc |-> l, rate |-> q])
        \in UpdaterTables(s, With(m, c, q), l, again)
  BY <1>1, FiniteCodesAssumption, OneInsert DEF InsertRow
<1>4. DOMAIN With(m, c, q) \subseteq D \cup {c}
  BY <1>1 DEF With
<1> QED BY <1>2, <1>3, <1>4 DEF Written

LEMMA WrittenFirst ==
  ASSUME NEW s, IsTable(s), RowIds(s), NEW l, NEW D, NEW c \in Codes, NEW q \in Rates
  PROVE  Written(InsertRow(s, [code |-> c, loc |-> l, rate |-> q]), s, l, D \cup {c})
<1>1. InsertRow(s, [code |-> c, loc |-> l, rate |-> q])
        \in UpdaterTables(s, With(<<>>, c, q), l, {c})
  BY FirstInsert DEF InsertRow
<1>2. With(<<>>, c, q) \in Tariffs
  BY EmptyTariff, WithTariff
<1>3. DOMAIN With(<<>>, c, q) = {c}
  BY DEF With
<1>4. {c} \in Again(With(<<>>, c, q))
  BY <1>3 DEF Again
<1> QED BY <1>1, <1>2, <1>3, <1>4 DEF Written

LEMMA UpdateNone ==
  ASSUME NEW t, IsTable(t), NEW c, c \notin CodesOf(t), NEW q,
         NEW line, line = [d \in {c} |-> q]
  PROVE  UpdateRates(t, line) = t
BY DEF IsTable, CodesOf, UpdateRates

(* The line an updater is at is not one it has come by.                    *)
LEMMA LineParts ==
  ASSUME UpdatersOK, NEW u \in Updaters, Iterates(u), upc[u] \in {"db", "insert"},
         next[u] <= Len(order[u])
  PROVE  /\ Code(u) \in Codes /\ map[u][Code(u)] \in Rates /\ Code(u) \notin Past(u)
         /\ {order[u][i] : i \in 1 .. (next[u] + 1) - 1} = Past(u) \cup {Code(u)}
<1>1. order[u] \in Seq(Codes) /\ map[u] \in Tariffs /\ next[u] \in Nat \ {0}
  BY DEF UpdatersOK
<1>2. Len(order[u]) \in Nat /\ next[u] \in 1 .. Len(order[u])
  BY <1>1
<1>3. Lists(order[u], map[u])
  BY DEF Iterates
<1>4. Code(u) \in DOMAIN map[u]
  BY <1>2, <1>3 DEF Lists, Code
<1>5. Code(u) \in Codes /\ map[u][Code(u)] \in Rates
  BY <1>1, <1>4, TariffParts
<1>6. Code(u) \notin Past(u)
  <2> SUFFICES ASSUME NEW i \in 1 .. next[u] - 1, order[u][i] = order[u][next[u]] PROVE FALSE
    BY DEF Past, Code
  <2>1. i \in 1 .. Len(order[u]) /\ i # next[u]
    BY <1>2
  <2> QED BY <1>2, <1>3, <2>1 DEF Lists
<1>7. (\A i \in 1 .. (next[u] + 1) - 1 : i \in 1 .. next[u] - 1 \/ i = next[u])
      /\ (\A i \in 1 .. next[u] - 1 : i \in 1 .. (next[u] + 1) - 1)
      /\ next[u] \in 1 .. (next[u] + 1) - 1
  BY <1>2
<1>8. {order[u][i] : i \in 1 .. (next[u] + 1) - 1} = Past(u) \cup {Code(u)}
  BY <1>7 DEF Past, Code
<1> QED BY <1>5, <1>6, <1>8

(* The draft of an updater that may write, before it writes.               *)
LEMMA SeenWritten ==
  ASSUME TypeOK, Transaction, WriterDraft, NEW u \in Updaters, upc[u] \in {"db", "insert"}
  PROVE  Written(Seen(u), table, job[u].loc, Past(u))
<1>1. IsTable(table) /\ RowIds(table)
  BY TypeParts DEF DbOK, Transaction
<1>2. CASE lock = u
  BY <1>2 DEF WriterDraft, Deleting, Seen
<1>3. CASE lock # u
  BY <1>1, <1>3, WrittenNothing DEF Seen
<1> QED BY <1>2, <1>3

LEMMA UpdateWritten ==
  ASSUME TypeOK, Iteration, Transaction, WriterDraft, NEW u \in Updaters, DbUpdate(u)
  PROVE  WriterDraft'
<1> DEFINE c == Code(u)
           q == map[u][c]
           line == [d \in {c} |-> q]
<1>1. UpdatersOK /\ Iterates(u) /\ upc[u] = "db" /\ next[u] <= Len(order[u])
      /\ next[u] \in Nat
  <2>1. UpdatersOK /\ Iterates(u) /\ upc[u] = "db" /\ ~(next[u] > Len(order[u]))
        /\ next[u] \in Nat /\ order[u] \in Seq(Codes)
    BY TypeParts DEF Iteration, DbUpdate, AtEnd, UpdatersOK
  <2> QED BY <2>1
<1>2. /\ c \in Codes /\ q \in Rates /\ c \notin Past(u)
      /\ {order[u][i] : i \in 1 .. (next[u] + 1) - 1} = Past(u) \cup {c}
  BY <1>1, LineParts
<1>3. /\ lock' = u /\ draft' = UpdateRates(Seen(u), line)
      /\ table' = table /\ job' = job /\ order' = order
  BY DEF DbUpdate, Line
<1>4. Written(Seen(u), table, job[u].loc, Past(u))
  BY <1>1, SeenWritten
<1>5. IsTable(table) /\ RowIds(table) /\ IsTable(Seen(u))
  BY TypeParts, SeenTable DEF DbOK, Transaction
<1>6. CASE c \in CodesOf(Seen(u))
  <2>1. next' = [next EXCEPT ![u] = @ + 1] /\ upc' = upc
    BY <1>6 DEF DbUpdate, NextLine
  <2>2. next'[u] = next[u] + 1 /\ upc'[u] = "db"
    BY <1>1, <2>1 DEF UpdatersOK
  <2>3. Past(u)' = Past(u) \cup {c}
    BY <1>2, <1>3, <2>2 DEF Past
  <2> HIDE DEF c, q
  <2>4. Written(UpdateRates(Seen(u), line), table, job[u].loc, Past(u) \cup {c})
    BY <1>2, <1>4, <1>5, <1>6, WrittenUpdate
  <2>5. Written(draft', table', job'[u].loc, Past(u)')
    BY <1>3, <2>3, <2>4
  <2> QED BY <1>3, <2>2, <2>5 DEF WriterDraft
<1>7. CASE c \notin CodesOf(Seen(u))
  <2>1. next' = next
    BY <1>7 DEF DbUpdate
  <2>2. Code(u)' = c /\ Past(u)' = Past(u)
    BY <1>3, <2>1 DEF Code, Past
  <2>3. draft' = Seen(u)
    <3> HIDE DEF c, q
    <3> QED BY <1>3, <1>5, <1>7, UpdateNone
  <2>4. Written(draft', table', job'[u].loc, Past(u)')
    BY <1>3, <1>4, <2>2, <2>3
  <2> QED BY <1>3, <1>7, <2>2, <2>3, <2>4 DEF WriterDraft
<1> QED BY <1>6, <1>7

LEMMA InsertWritten ==
  ASSUME TypeOK, Iteration, Transaction, WriterDraft, NEW u \in Updaters, DbInsert(u),
         lock' = u,
         draft' = InsertRow(Seen(u), [code |-> Code(u), loc |-> job[u].loc,
                                      rate |-> map[u][Code(u)]])
  PROVE  WriterDraft'
<1> DEFINE c == Code(u)
           q == map[u][c]
           row == [code |-> c, loc |-> job[u].loc, rate |-> q]
<1>1. UpdatersOK /\ Iterates(u) /\ upc[u] = "insert" /\ next[u] <= Len(order[u])
      /\ next[u] \in Nat
  BY TypeParts DEF Iteration, DbInsert, UpdatersOK, Iterates
<1>2. /\ c \in Codes /\ q \in Rates /\ c \notin Past(u)
      /\ {order[u][i] : i \in 1 .. (next[u] + 1) - 1} = Past(u) \cup {c}
  BY <1>1, LineParts
<1>3. /\ draft' = InsertRow(Seen(u), row)
      /\ table' = table /\ job' = job /\ order' = order
      /\ next' = [next EXCEPT ![u] = @ + 1] /\ upc' = [upc EXCEPT ![u] = "db"]
  BY DEF DbInsert, NextLine, Goto
<1>4. next'[u] = next[u] + 1 /\ upc'[u] = "db"
  BY <1>1, <1>3 DEF UpdatersOK
<1>5. Past(u)' = Past(u) \cup {c}
  BY <1>2, <1>3, <1>4 DEF Past
<1>6. IsTable(table) /\ RowIds(table)
  BY TypeParts DEF DbOK, Transaction
<1>7. Written(InsertRow(Seen(u), row), table, job[u].loc, Past(u) \cup {c})
  <2>1. CASE lock = u
    <3>1. Seen(u) = draft /\ c \notin CodesOf(draft)
          /\ Written(draft, table, job[u].loc, Past(u))
      BY <1>1, <2>1 DEF WriterDraft, Deleting, Seen
    <3> HIDE DEF c, q
    <3> QED BY <1>2, <1>6, <3>1, WrittenInsert
  <2>2. CASE lock # u
    <3>1. Seen(u) = table
      BY <2>2 DEF Seen
    <3> HIDE DEF c, q
    <3> QED BY <1>2, <1>6, <3>1, WrittenFirst
  <2> QED BY <2>1, <2>2
<1>8. Written(draft', table', job'[u].loc, Past(u)')
  BY <1>3, <1>5, <1>7
<1> QED BY <1>4, <1>8 DEF WriterDraft

(* Nothing happens to the holder of the lock or to what it wrote.          *)
LEMMA WriterStays ==
  ASSUME WriterDraft, UNCHANGED dbVars,
         lock \in Updaters => /\ upc'[lock] = upc[lock] /\ job'[lock] = job[lock]
                              /\ order'[lock] = order[lock] /\ next'[lock] = next[lock]
  PROVE  WriterDraft'
<1> SUFFICES ASSUME lock \in Updaters, ~Deleting'
             PROVE  /\ Written(draft', table', job'[lock].loc,
                               {order'[lock][i] : i \in 1 .. next'[lock] - 1})
                    /\ upc'[lock] = "insert" => order'[lock][next'[lock]] \notin CodesOf(draft')
  BY DEF WriterDraft, Past, Code, dbVars
<1>1. ~Deleting
  BY DEF Deleting, dbVars
<1> QED BY <1>1 DEF WriterDraft, Past, Code, dbVars

(* The last line is written: COMMIT is next.                               *)
LEMMA EndWritten ==
  ASSUME TypeOK, Iteration, WriterDraft, NEW u \in Updaters, DbEnd(u), lock = u
  PROVE  WriterDraft'
<1>1. /\ upc[u] = "db" /\ upc'[u] = "commit" /\ UNCHANGED dbVars
      /\ job' = job /\ order' = order /\ next' = next
  BY TypeParts DEF DbEnd, Goto, UpdatersOK
<1>2. ~Deleting
  BY <1>1 DEF Deleting
<1>3. Written(draft, table, job[u].loc, Past(u))
  BY <1>2 DEF WriterDraft
<1>4. Written(draft', table', job'[u].loc, Past(u)')
  BY <1>1, <1>3 DEF dbVars, Past
<1> QED BY <1>1, <1>4 DEF WriterDraft, dbVars

LEMMA WriterKept ==
  ASSUME TypeOK, Iteration, Transaction, WriterDraft, Next
  PROVE  WriterDraft'
<1>1. ASSUME NEW u \in Updaters, Updater(u) \/ KillUpdater(u) PROVE WriterDraft'
  <2>1. Only(u) /\ u # "none" /\ UpdatersOK /\ Iterates(u) /\ "none" \notin Updaters
    BY <1>1, OnlyOne, TypeParts, UpdatersAssumption DEF Iteration
  <2>2. CASE lock # u /\ UNCHANGED dbVars
    BY <2>1, <2>2, WriterStays DEF Only
  <2>3. CASE lock' = "none"
    BY <2>1, <2>3 DEF WriterDraft
  <2>4. CASE DbUpdate(u)
    BY <2>4, UpdateWritten
  <2>5. CASE DbInsert(u)
    <3>1. CASE Refused(u) /\ UNCHANGED <<draft, lock>>
      BY <2>2, <2>5, <3>1, <2>1 DEF DbInsert, Refused, MayWrite, dbVars
    <3>2. CASE ~(Refused(u) /\ UNCHANGED <<draft, lock>>)
      BY <2>5, <3>2, InsertWritten DEF DbInsert
    <3> QED BY <3>1, <3>2
  <2>6. CASE DbUpdateRefused(u)
    BY <2>1, <2>2, <2>6 DEF DbUpdateRefused, Refused, MayWrite
  <2>7. CASE DbEnd(u)
    <3>1. CASE lock = u
      BY <2>7, <3>1, EndWritten
    <3>2. CASE lock # u
      BY <2>2, <2>7, <3>2 DEF DbEnd
    <3> QED BY <3>1, <3>2
  <2>8. CASE DbCommit(u)
    BY <2>3, <2>8 DEF DbCommit
  <2>9. CASE KillUpdater(u)
    <3>1. CASE lock = u
      BY <2>3, <2>9, <3>1 DEF KillUpdater
    <3>2. CASE lock # u
      BY <2>2, <2>9, <3>2 DEF KillUpdater, dbVars
    <3> QED BY <3>1, <3>2
  <2>10. CASE Delete(u)
    <3>1. CASE lock' = u /\ Goto(u, "commit")
      <4>1. job' = job /\ upc[u] = "delete" /\ upc'[u] = "commit"
        BY <2>1, <2>10, <3>1 DEF Delete, Goto, UpdatersOK
      <4>2. Deleting'
        BY <2>1, <3>1, <4>1 DEF Deleting, Iterates
      <4> QED BY <4>2 DEF WriterDraft
    <3>2. CASE Refused(u) /\ UNCHANGED <<draft, lock>>
      BY <2>1, <2>2, <2>10, <3>2 DEF Delete, Refused, MayWrite, dbVars
    <3> QED BY <2>10, <3>1, <3>2 DEF Delete
  <2>11. CASE Launch(u) \/ EnterUpdate(u) \/ EnterAdd(u) \/ EnterRemove(u) \/ Decline(u)
             \/ Truncate(u) \/ WriteFile(u)
             \/ ShmCount(u) \/ ShmCode(u) \/ ShmPrice(u) \/ ShmDone(u) \/ Signal(u)
    <3>1. UNCHANGED dbVars /\ upc[u] \notin {"db", "insert", "commit"}
      BY <2>11 DEF Launch, Idle, EnterUpdate, EnterAdd, EnterRemove, Enter, Decline, Truncate,
         WriteFile, ShmCount, ShmCode, ShmPrice, ShmDone, Signal
    <3> QED BY <2>2, <3>1 DEF Transaction
  <2> QED BY <1>1, <2>4, <2>5, <2>6, <2>7, <2>8, <2>9, <2>10, <2>11 DEF Updater
<1>2. ASSUME Server \/ KillServer PROVE WriterDraft'
  <2>1. UNCHANGED updVars /\ "server" \notin Updaters /\ "none" \notin Updaters
    BY <1>2, UpdatersAssumption DEF Server, Boot, SeedFind, SeedInsert, Generate, Generated,
       Sighup, ApplyRest, Applied, LoadShm, CreateShm, LoadCode, LoadPrice, ResetFlag,
       ServeFrame, ServeBusy, PressEnter, KillServer
  <2>2. CASE UNCHANGED dbVars
    BY <2>1, <2>2, WriterStays DEF updVars
  <2>3. CASE lock' \notin Updaters
    BY <2>3 DEF WriterDraft
  <2>4. UNCHANGED dbVars \/ lock' \notin Updaters
    BY <1>2, <2>1 DEF Server, Boot, SeedFind, SeedInsert, Generate, Generated, Sighup,
       ApplyRest, Applied, LoadShm, CreateShm, LoadCode, LoadPrice, ResetFlag, ServeFrame,
       ServeBusy, PressEnter, KillServer, ServerGone, dbVars
  <2> QED BY <2>2, <2>3, <2>4
<1> QED BY <1>1, <1>2 DEF Next

(* The server's lines, read once more, are written over the earlier ones.  *)
LEMMA UpdateTwice ==
  ASSUME NEW s, IsTable(s), NEW m, NEW k
  PROVE  UpdateRates(UpdateRates(s, m), k) = UpdateRates(s, Override(m, k))
<1> DEFINE once == UpdateRates(s, m)
           twice == UpdateRates(once, k)
           both == UpdateRates(s, Override(m, k))
<1>1. ASSUME NEW i \in DOMAIN s PROVE twice[i] = both[i]
  <2>1. s[i] \in PriceRows /\ i \in DOMAIN once
    BY DEF IsTable, UpdateRates
  <2>2. once[i] = IF s[i].code \in DOMAIN m THEN [s[i] EXCEPT !.rate = m[s[i].code]] ELSE s[i]
    BY DEF UpdateRates
  <2>3. once[i].code = s[i].code
    BY <2>1, <2>2 DEF PriceRows
  <2>4. twice[i] = IF s[i].code \in DOMAIN k
                   THEN [once[i] EXCEPT !.rate = k[s[i].code]] ELSE once[i]
    BY <2>1, <2>3 DEF UpdateRates
  <2>5. both[i] = IF s[i].code \in DOMAIN m \cup DOMAIN k
                  THEN [s[i] EXCEPT !.rate = Override(m, k)[s[i].code]] ELSE s[i]
    BY DEF UpdateRates, Override
  <2> HIDE DEF once, twice, both
  <2>6. CASE s[i].code \in DOMAIN k
    <3>1. Override(m, k)[s[i].code] = k[s[i].code]
      BY <2>6 DEF Override
    <3> QED BY <2>1, <2>2, <2>4, <2>5, <2>6, <3>1 DEF PriceRows
  <2>7. CASE s[i].code \notin DOMAIN k /\ s[i].code \in DOMAIN m
    <3>1. Override(m, k)[s[i].code] = m[s[i].code]
      BY <2>7 DEF Override
    <3> QED BY <2>2, <2>4, <2>5, <2>7, <3>1
  <2>8. CASE s[i].code \notin DOMAIN m \cup DOMAIN k
    BY <2>2, <2>4, <2>5, <2>8
  <2> QED BY <2>6, <2>7, <2>8
<1>2. /\ twice = [i \in DOMAIN s |-> twice[i]]
      /\ both = [i \in DOMAIN s |-> both[i]]
  BY DEF UpdateRates
<1> HIDE DEF twice, both
<1>3. twice = both
  BY <1>1, <1>2
<1> QED BY <1>3 DEF twice, both

LEMMA ServerKept ==
  ASSUME TypeOK, Transaction, ServerDraft, Next
  PROVE  ServerDraft'
<1>1. IsTable(table) /\ "server" \notin Updaters /\ file \in Tariffs /\ lines \in Tariffs
  BY TypeParts, UpdatersAssumption DEF DbOK, StoresOK, ServerOK
<1>2. CASE UNCHANGED dbVars
  BY <1>2 DEF ServerDraft, dbVars
<1>3. CASE lock' # "server"
  BY <1>3 DEF ServerDraft
<1>4. CASE Sighup /\ lock' = "server" /\ draft' = UpdateRates(draft, file)
  <2>1. table' = table
    BY <1>4 DEF Sighup
  <2>2. CASE lock = "server"
    <3>1. PICK m \in Tariffs : draft = UpdateRates(table, m)
      BY <2>2 DEF ServerDraft
    <3>2. draft' = UpdateRates(table, Override(m, file)) /\ Override(m, file) \in Tariffs
      BY <1>1, <1>4, <3>1, UpdateTwice, OverrideTariff
    <3> QED BY <2>1, <3>2 DEF ServerDraft
  <2>3. CASE lock # "server"
    <3>1. draft = table
      BY <1>4, <2>3 DEF Sighup, Transaction
    <3> QED BY <1>1, <1>4, <2>1, <3>1 DEF ServerDraft
  <2> QED BY <2>2, <2>3
<1>5. CASE ApplyRest
  <2>1. PICK rest \in SUBSET DOMAIN lines :
          table' = table /\ draft' = UpdateRates(table, Restrict(lines, rest))
    BY <1>5 DEF ApplyRest
  <2>2. Restrict(lines, rest) \in Tariffs
    BY <1>1, RestrictTariff
  <2> QED BY <2>1, <2>2 DEF ServerDraft
<1>6. ASSUME NEW u \in Updaters, Updater(u) \/ KillUpdater(u)
      PROVE  UNCHANGED dbVars \/ lock' # "server"
  <2>1. CASE DbUpdate(u) \/ DbUpdateRefused(u) \/ DbInsert(u) \/ DbEnd(u) \/ DbCommit(u)
             \/ KillUpdater(u)
    BY <1>1, <2>1 DEF DbUpdate, DbUpdateRefused, DbInsert, DbEnd, DbCommit, KillUpdater, dbVars
  <2>2. CASE Delete(u)
    BY <1>1, <2>2 DEF Delete, dbVars
  <2>3. CASE ~(DbUpdate(u) \/ DbUpdateRefused(u) \/ DbInsert(u) \/ DbEnd(u) \/ DbCommit(u)
               \/ KillUpdater(u) \/ Delete(u))
    BY <1>6, <2>3 DEF Updater, Launch, EnterUpdate, EnterAdd, EnterRemove, Enter, Decline,
       Truncate, WriteFile, ShmCount, ShmCode, ShmPrice, ShmDone, Signal
  <2> QED BY <2>1, <2>2, <2>3
<1>7. ASSUME Server \/ KillServer
      PROVE  \/ UNCHANGED dbVars \/ lock' # "server" \/ ApplyRest
             \/ Sighup /\ lock' = "server" /\ draft' = UpdateRates(draft, file)
  BY <1>7 DEF Server, Boot, SeedFind, SeedInsert, Generate, Generated, Sighup, Applied, LoadShm, CreateShm, LoadCode, LoadPrice, ResetFlag,
     ServeFrame, ServeBusy, PressEnter, KillServer, ServerGone, dbVars
<1> QED BY <1>2, <1>3, <1>4, <1>5, <1>6, <1>7 DEF Next

LEMMA DraftsKept ==
  ASSUME TypeOK, Iteration, Transaction, Drafts, [Next]_vars
  PROVE  Drafts'
<1>1. CASE Next
  BY <1>1, WriterKept, ServerKept DEF Drafts
<1>2. CASE UNCHANGED vars
  <2>1. UNCHANGED dbVars /\ upc' = upc /\ job' = job /\ order' = order /\ next' = next
    BY <1>2 DEF vars, updVars
  <2>2. WriterDraft'
    BY <2>1, WriterStays DEF Drafts
  <2>3. ServerDraft'
    BY <2>1 DEF Drafts, ServerDraft, dbVars
  <2> QED BY <2>2, <2>3 DEF Drafts
<1> QED BY <1>1, <1>2

(* So what is committed is what ParkingSessions expects of a commit.       *)
LEMMA TableStepTaken ==
  ASSUME Transaction, Drafts, SeedHeld, [Next]_vars
  PROVE  [TableStep]_vars
<1> SUFFICES ASSUME Next, table' # table PROVE TableStep
  BY DEF vars, dbVars, TableStep
<1>1. ASSUME NEW u \in Updaters, Updater(u) \/ KillUpdater(u) PROVE TableStep
  <2>1. DbCommit(u) /\ table' = draft
    BY <1>1 DEF Updater, Launch, EnterUpdate, EnterAdd, EnterRemove, Enter, Decline, Truncate,
       WriteFile, ShmCount, ShmCode, ShmPrice, ShmDone, DbUpdate, DbUpdateRefused, DbInsert,
       DbEnd, DbCommit, Delete, Signal, KillUpdater, dbVars
  <2>2. upc[u] = "commit" /\ lock = u
    BY <2>1 DEF DbCommit, Transaction
  <2>3. CASE job[u].op = "remove"
    BY <2>1, <2>2, <2>3 DEF Transaction, Deleting, TableStep
  <2>4. CASE job[u].op # "remove"
    <3>1. Written(table', table, job[u].loc, Past(u))
      BY <2>1, <2>2, <2>4 DEF Deleting, Drafts, WriterDraft
    <3> QED BY <2>2, <3>1 DEF Written, TableStep
  <2> QED BY <2>3, <2>4
<1>2. ASSUME Server \/ KillServer PROVE TableStep
  <2>1. \/ SeedInsert /\ table' = InsertRow(table, Seeds[loop.at])
        \/ Applied /\ lock = "server" /\ table' = draft
    BY <1>2 DEF Server, Boot, SeedFind, SeedInsert, Generate, Generated, Sighup, ApplyRest,
       Applied, LoadShm, CreateShm, LoadCode, LoadPrice, ResetFlag, ServeFrame, ServeBusy,
       PressEnter, KillServer, dbVars
  <2>2. CASE SeedInsert /\ table' = InsertRow(table, Seeds[loop.at])
    BY <2>2 DEF SeedInsert, SeedHeld, TableStep
  <2>3. CASE Applied /\ lock = "server" /\ table' = draft
    BY <2>3 DEF Applied, Drafts, ServerDraft, TableStep
  <2> QED BY <2>1, <2>2, <2>3
<1> QED BY <1>1, <1>2 DEF Next
-----------------------------------------------------------------------------
(* The segment as a map.                                                   *)
LEMMA ShmMapPrefix ==
  ASSUME NEW s
  PROVE  ShmMap(s) = ShmPrefix(s, s.count)
BY DEF ShmMap, ShmPrefix, Latest

LEMMA NoPrefix ==
  ASSUME NEW s
  PROVE  ShmPrefix(s, 0) = <<>>
<1>1. {s.slots[i].code : i \in 1 .. 0} = {}
  OBVIOUS
<1>2. <<>> = [c \in {} |-> s.slots[Latest(s, 0, c)].rate]
  OBVIOUS
<1> QED BY <1>1, <1>2 DEF ShmPrefix

IsLast(s, n, c, k) ==
  k \in 1 .. n /\ s.slots[k].code = c /\ \A j \in 1 .. n : s.slots[j].code = c => j <= k

LEMMA LatestIs ==
  ASSUME NEW s, NEW n \in Nat, NEW c, NEW k, IsLast(s, n, c, k)
  PROVE  Latest(s, n, c) = k
<1> DEFINE Last(i) == /\ s.slots[i].code = c
                      /\ \A j \in 1 .. n : s.slots[j].code = c => j <= i
<1>1. k \in 1 .. n /\ Last(k)
  BY DEF IsLast
<1>2. \A i \in 1 .. n : Last(i) => i = k
  BY <1>1
<1>3. Latest(s, n, c) = CHOOSE i \in 1 .. n : Last(i)
  BY DEF Latest
<1> HIDE DEF Last
<1> QED BY <1>1, <1>2, <1>3

LEMMA LatestExists ==
  ASSUME NEW s, NEW n \in Nat, NEW c \in {s.slots[i].code : i \in 1 .. n}
  PROVE  \E k : IsLast(s, n, c, k)
<1> DEFINE S == {i \in 1 .. n : s.slots[i].code = c}
<1>1. S \subseteq Nat /\ S # {} /\ \A i \in S : i <= n
  OBVIOUS
<1>2. \E k \in S : \A j \in S : j <= k
  <2> HIDE DEF S
  <2> QED BY <1>1, GreatestNatural
<1> QED BY <1>2 DEF IsLast

(* With one entry more a code was there before or is that entry's.         *)
LEMMA LatestMore ==
  ASSUME NEW s, NEW n \in Nat
  PROVE  /\ IsLast(s, n + 1, s.slots[n + 1].code, n + 1)
         /\ \A c, k : c # s.slots[n + 1].code /\ IsLast(s, n, c, k) => IsLast(s, n + 1, c, k)
<1>1. \A j \in 1 .. n + 1 : j = n + 1 \/ j \in 1 .. n
  OBVIOUS
<1>2. IsLast(s, n + 1, s.slots[n + 1].code, n + 1)
  BY DEF IsLast
<1>3. ASSUME NEW c, NEW k, c # s.slots[n + 1].code, IsLast(s, n, c, k)
      PROVE  IsLast(s, n + 1, c, k)
  BY <1>1, <1>3 DEF IsLast
<1> QED BY <1>2, <1>3

(* One entry more: the later one wins.                                     *)
LEMMA PrefixMore ==
  ASSUME NEW s, NEW n \in Nat
  PROVE  Override(ShmPrefix(s, n), [d \in {s.slots[n + 1].code} |-> s.slots[n + 1].rate])
           = ShmPrefix(s, n + 1)
<1> DEFINE d == s.slots[n + 1].code
           q == s.slots[n + 1].rate
           f == ShmPrefix(s, n)
           g == [e \in {d} |-> q]
           C(k) == {s.slots[i].code : i \in 1 .. k}
<1>1. C(n + 1) = C(n) \cup {d}
  <2>1. 1 .. (n + 1) = (1 .. n) \cup {n + 1}
    OBVIOUS
  <2> QED BY <2>1
<1>2. f = [c \in C(n) |-> s.slots[Latest(s, n, c)].rate]
  BY DEF ShmPrefix
<1>3. ShmPrefix(s, n + 1) = [c \in C(n + 1) |-> s.slots[Latest(s, n + 1, c)].rate]
  BY DEF ShmPrefix
<1>4. s.slots[Latest(s, n + 1, d)].rate = q
  <2>0. IsLast(s, n + 1, d, n + 1)
    <3> HIDE DEF q, f, g, C
    <3> QED BY LatestMore DEF d
  <2>1. Latest(s, n + 1, d) = n + 1
    <3> HIDE DEF d, q, f, g, C
    <3> QED BY <2>0, LatestIs
  <2> QED BY <2>1
<1>5. ASSUME NEW c \in C(n), c # d
      PROVE  Latest(s, n + 1, c) = Latest(s, n, c)
  <2>1. PICK k : IsLast(s, n, c, k)
    BY LatestExists
  <2>2. IsLast(s, n + 1, c, k)
    BY <1>5, <2>1, LatestMore
  <2>3. Latest(s, n, c) = k
    BY <2>1, LatestIs
  <2>4. Latest(s, n + 1, c) = k
    BY <2>2, LatestIs
  <2> QED BY <2>3, <2>4
<1> HIDE DEF C, d, q, f
<1>6. Override(f, g) = [c \in C(n) \cup {d} |-> IF c \in {d} THEN q ELSE f[c]]
  BY <1>2 DEF Override
<1>7. ASSUME NEW c \in C(n) \cup {d}
      PROVE  (IF c \in {d} THEN q ELSE f[c]) = s.slots[Latest(s, n + 1, c)].rate
  BY <1>2, <1>4, <1>5
<1>8. Override(f, g) = ShmPrefix(s, n + 1)
  BY <1>1, <1>3, <1>6, <1>7
<1> QED BY <1>8 DEF f, d, q

(* What write_prices_to_shm leaves behind, entry by entry in whatever      *)
(* order, is read by load_prices_from_shm as the map it was written from.  *)
THEOREM ShmMapWritten ==
  ASSUME NEW m \in Tariffs, NEW o \in Seq(Codes), Lists(o, m),
         NEW s, s.count = Len(o),
         \A i \in 1 .. Len(o) : s.slots[i].code = o[i] /\ s.slots[i].rate = m[o[i]]
  PROVE  ShmMap(s) = m
<1> DEFINE used == 1 .. s.count
           last(c) == CHOOSE i \in used : /\ s.slots[i].code = c
                                          /\ \A j \in used : s.slots[j].code = c => j <= i
<1>1. used = 1 .. Len(o)
  OBVIOUS
<1>2. \A i \in used : s.slots[i].code = o[i] /\ s.slots[i].rate = m[o[i]]
  BY <1>1
<1>3. {s.slots[i].code : i \in used} = DOMAIN m
  <2>1. /\ \A i \in used : o[i] \in DOMAIN m
        /\ \A c \in DOMAIN m : \E i \in used : o[i] = c
    BY <1>1 DEF Lists
  <2> HIDE DEF used
  <2>2. {s.slots[i].code : i \in used} \subseteq DOMAIN m
    BY <1>2, <2>1
  <2>3. DOMAIN m \subseteq {s.slots[i].code : i \in used}
    BY <1>2, <2>1
  <2> QED BY <2>2, <2>3
<1>4. ASSUME NEW c \in DOMAIN m PROVE s.slots[last(c)].rate = m[c]
  <2>1. PICK i \in used : o[i] = c
    BY <1>1 DEF Lists
  <2>2. \A j \in used : o[j] = c => j = i
    BY <1>1, <2>1 DEF Lists
  <2>3. i <= i
    BY <1>1
  <2>4. s.slots[i].code = c /\ \A j \in used : s.slots[j].code = c => j <= i
    <3> HIDE DEF used
    <3> QED BY <1>2, <2>1, <2>2, <2>3
  <2>5. last(c) \in used /\ s.slots[last(c)].code = c
    <3> HIDE DEF used
    <3> QED BY <2>4
  <2>6. o[last(c)] = c
    <3> HIDE DEF used, last
    <3> QED BY <1>2, <2>5
  <2> HIDE DEF used, last
  <2> QED BY <1>2, <2>5, <2>6
<1>5. ShmMap(s) = [c \in {s.slots[i].code : i \in used} |-> s.slots[last(c)].rate]
  BY DEF ShmMap
<1> HIDE DEF last, used
<1> QED BY <1>3, <1>4, <1>5, TariffParts
-----------------------------------------------------------------------------
(* Where the server's loops stand.                                         *)
LEMMA UpdaterStands ==
  ASSUME TypeOK, Stands, NEW u \in Updaters, Updater(u) \/ KillUpdater(u)
  PROVE  Stands'
<1>1. /\ UNCHANGED <<spc, loop, reading>>
      /\ table' # table => ~reading
      /\ solo' # solo /\ solo' # Nobody => spc = "idle"
  BY DEF Updater, Launch, EnterUpdate, EnterAdd, EnterRemove, Enter, Decline, Truncate,
     WriteFile, ShmCount, ShmCode, ShmPrice, ShmDone, DbUpdate, DbUpdateRefused, DbInsert,
     DbEnd, DbCommit, Delete, Signal, KillUpdater, Quiet, dbVars, serverVars, history
<1>2. shm.made => shm'.made
  BY TypeParts DEF Updater, Launch, EnterUpdate, EnterAdd, EnterRemove, Enter, Decline,
     Truncate, WriteFile, ShmCount, ShmCode, ShmPrice, ShmDone, DbUpdate, DbUpdateRefused,
     DbInsert, DbEnd, DbCommit, Delete, Signal, KillUpdater, StoresOK, Segments
<1>3. Looping'
  BY <1>1 DEF Stands, Looping, Scanning
<1>4. Made'
  BY <1>1, <1>2 DEF Stands, Made
<1>5. SeedHeld'
  BY <1>1 DEF Stands, SeedHeld
<1> QED BY <1>3, <1>4, <1>5 DEF Stands

LEMMA LoopsKept ==
  ASSUME StoresOK, ServerOK, Looping, Server \/ KillServer
  PROVE  Looping'
<1>1. loop.at \in Nat /\ loop.count \in Nat /\ loop \in Loops
  BY CodesFinite DEF ServerOK, Loops
<1>2. CASE Boot
  BY <1>2 DEF Boot, NoLoop, Looping, Scanning
<1>3. CASE SeedFind \/ SeedInsert
  <2>1. loop'.at = loop.at \/ loop'.at = loop.at + 1
    BY <1>1, <1>3 DEF SeedFind, SeedInsert, Loops
  <2>2. spc \in {"seed", "seed_insert"} /\ spc' \in {"seed", "seed_insert", "failed"}
    BY <1>3 DEF SeedFind, SeedInsert
  <2>3. spc' = "seed_insert" => loop' = loop /\ loop.at <= Len(Seeds)
    BY <1>3 DEF SeedFind, SeedInsert
  <2> QED BY <1>1, <2>1, <2>2, <2>3 DEF Looping, Scanning
<1>4. CASE LoadShm
  <2>1. spc' = "scan" => loop'.at = 1 /\ loop'.count = shm.count /\ shm.count > 0
    BY <1>4 DEF LoadShm, NoLoop
  <2>2. spc' \notin {"seed", "seed_insert", "scan_price"}
    BY <1>4 DEF LoadShm
  <2>3. spc' = "scan" => loop'.at >= 1 /\ loop'.at <= loop'.count
    <3> SUFFICES ASSUME spc' = "scan" PROVE loop'.at >= 1 /\ loop'.at <= loop'.count
      OBVIOUS
    <3>1. shm.count > 0 /\ loop' = [count |-> shm.count, at |-> 1, code |-> NoCity,
                                    then |-> loop'.then]
      BY <1>4 DEF LoadShm, NoLoop
    <3>2. shm.count \in Nat
      BY CodesFinite DEF StoresOK, Segments
    <3> QED BY <3>1, <3>2, <2>1
  <2> QED BY <2>2, <2>3 DEF Looping, Scanning
<1>5. CASE LoadCode
  <2>1. spc = "scan" /\ spc' = "scan_price" /\ loop'.at = loop.at /\ loop'.count = loop.count
    BY <1>1, <1>5 DEF LoadCode, Loops
  <2> QED BY <2>1 DEF Looping, Scanning
<1>6. CASE LoadPrice
  <2>1. CASE loop.at < loop.count
    <3>1. spc' = "scan" /\ loop'.at = loop.at + 1 /\ loop'.count = loop.count
      BY <1>1, <1>6, <2>1 DEF LoadPrice, Loops
    <3> QED BY <1>1, <2>1, <3>1 DEF Looping, Scanning
  <2>2. CASE ~(loop.at < loop.count)
    <3>1. spc' \in {"idle", "reset"}
      BY <1>1, <1>6, <2>2 DEF LoadPrice, Loops
    <3> QED BY <3>1 DEF Looping, Scanning
  <2> QED BY <2>1, <2>2
<1>7. CASE CreateShm
  BY <1>1, <1>7 DEF CreateShm, Loops, Looping, Scanning
<1>8. CASE \/ Generate \/ Generated \/ Sighup \/ ApplyRest \/ Applied \/ ResetFlag
           \/ ServeFrame \/ ServeBusy \/ PressEnter \/ KillServer
  BY <1>8 DEF Generate, Generated, Sighup, ApplyRest, Applied, ResetFlag, ServeFrame,
     ServeBusy, PressEnter, KillServer, ServerGone, serverVars, Looping, Scanning
<1> QED BY <1>2, <1>3, <1>4, <1>5, <1>6, <1>7, <1>8 DEF Server

LEMMA MadeKept ==
  ASSUME TypeOK, Made, Server \/ KillServer
  PROVE  Made'
<1>1. solo' = solo /\ (shm.made => shm'.made)
  BY TypeParts DEF Server, Boot, SeedFind, SeedInsert, Generate, Generated, Sighup,
     ApplyRest, Applied, LoadShm, CreateShm, LoadCode, LoadPrice, ResetFlag, ServeFrame,
     ServeBusy, PressEnter, KillServer, ServerGone, history, StoresOK, Segments
<1>2. CASE LoadShm
  <2>1. shm' = shm /\ (spc' = "create" <=> ~shm.made)
        /\ spc' \in {"create", "scan", "idle", "reset"}
    BY <1>2 DEF LoadShm
  <2> QED BY <1>1, <2>1 DEF Made
<1>3. CASE CreateShm
  <2>1. shm'.made /\ spc' \in {"idle", "reset"}
    BY <1>3, TypeParts DEF CreateShm, StoresOK, Segments, ServerOK, Loops
  <2> QED BY <1>1, <2>1 DEF Made
<1>4. CASE LoadPrice
  <2>1. spc = "scan_price" /\ spc' \in {"scan", "idle", "reset"}
    BY <1>4, TypeParts DEF LoadPrice, ServerOK, Loops
  <2> QED BY <1>1, <2>1 DEF Made
<1>5. CASE \/ Boot \/ SeedFind \/ SeedInsert \/ Generate \/ Generated
           \/ Sighup \/ ApplyRest \/ Applied \/ LoadCode \/ ResetFlag
           \/ ServeFrame \/ ServeBusy \/ PressEnter \/ KillServer
  BY <1>1, <1>5 DEF Boot, SeedFind, SeedInsert, Generate, Generated, Sighup, ApplyRest,
     Applied, LoadCode, ResetFlag, ServeFrame, ServeBusy, PressEnter, KillServer, ServerGone,
     serverVars, Made
<1> QED BY <1>2, <1>3, <1>4, <1>5 DEF Server

LEMMA SeedKept ==
  ASSUME TypeOK, SeedHeld, Server \/ KillServer
  PROVE  SeedHeld'
<1>1. CASE SeedFind
  <2>1. CASE spc' = "seed_insert"
    <3>1. loop' = loop /\ table' = table /\ (reading' => ~HasPlace(table, Seeds[loop.at].loc))
      BY <1>1, <2>1 DEF SeedFind, dbVars
    <3> QED BY <3>1 DEF SeedHeld
  <2>2. CASE spc' # "seed_insert"
    BY <2>2 DEF SeedHeld
  <2> QED BY <2>1, <2>2
<1>2. CASE ~SeedFind
  <2>1. spc' # "seed_insert"
    BY <1>2, TypeParts DEF Server, Boot, SeedInsert, Generate, Generated, Sighup, ApplyRest,
       Applied, LoadShm, CreateShm, LoadCode, LoadPrice, ResetFlag, ServeFrame, ServeBusy,
       PressEnter, KillServer, ServerGone, serverVars, ServerOK, Loops
  <2> QED BY <2>1 DEF SeedHeld
<1> QED BY <1>1, <1>2

LEMMA StandsKept ==
  ASSUME TypeOK, Stands, [Next]_vars
  PROVE  Stands'
<1>1. CASE Server \/ KillServer
  BY <1>1, LoopsKept, MadeKept, SeedKept, TypeParts DEF Stands
<1>2. CASE UNCHANGED vars
  BY <1>2 DEF vars, dbVars, serverVars, updVars, history, Stands, Looping, Scanning, Made,
     SeedHeld
<1> QED BY <1>1, <1>2, UpdaterStands DEF Next
-----------------------------------------------------------------------------
(* The run that has the system to itself.                                  *)
USE DEF Scanning

LEMMA NobodyRecovers ==
  ASSUME solo' = Nobody
  PROVE  Recovery'
BY DEF Recovery, Alone, Unsignalled, Up, FileWritten, SlotsWritten, ShmWritten, Left,
       CacheScanned, CacheHealed, TableHealed

(* It begins.                                                              *)
LEMMA LaunchRecovers ==
  ASSUME TypeOK, NEW u \in Updaters, Launch(u)
  PROVE  Recovery'
<1>1. CASE ~Quiet
  BY <1>1, NobodyRecovers DEF Launch
<1>2. CASE Quiet
  <2>1. /\ solo' = u /\ upc'[u] = "menu" /\ \A v \in Updaters \ {u} : upc'[v] = "off"
        /\ spc' = "idle" /\ ~flag'
    BY <1>2, TypeParts DEF Launch, Quiet, Idle, Goto, UpdatersOK, serverVars
  <2> QED BY <2>1 DEF Recovery, Alone, Unsignalled, Up, FileWritten, SlotsWritten,
             ShmWritten, Left, CacheScanned, CacheHealed, TableHealed
<1> QED BY <1>1, <1>2

(* While it is under way, a step of an updater is a step of it.            *)
LEMMA OwnStep ==
  ASSUME TypeOK, Recovery, solo # Nobody, NEW u \in Updaters, upc[u] # "off"
  PROVE  solo = u
BY DEF Recovery, Alone

(* What a step of it leaves true when it does not end with that step.      *)
LEMMA UnderWay ==
  ASSUME TypeOK, Recovery, NEW u \in Updaters, solo = u, solo # Nobody, upc[u] # "off",
         Only(u), upc'[u] # "off", UNCHANGED <<history, spc, loop, flag>>
  PROVE  /\ Alone' /\ Unsignalled' /\ Up' /\ Left'
         /\ CacheScanned' /\ CacheHealed' /\ TableHealed'
<1>1. Alone'
  BY DEF Recovery, Alone, Only, history
<1>2. Unsignalled' /\ Up'
  BY DEF Recovery, Unsignalled, Up, history
<1>3. Left' /\ CacheScanned' /\ CacheHealed' /\ TableHealed'
  BY DEF Left, CacheScanned, CacheHealed, TableHealed, history
<1> QED BY <1>1, <1>2, <1>3

(* Before it writes anything, and while it writes prices.txt.              *)
LEMMA SaveRecovers ==
  ASSUME TypeOK, Recovery, NEW u \in Updaters, solo = u, solo # Nobody, Only(u),
         EnterUpdate(u) \/ EnterAdd(u) \/ EnterRemove(u) \/ Truncate(u) \/ WriteFile(u)
  PROVE  Recovery'
<1>1. /\ upc[u] # "off" /\ upc'[u] \in {"save", "write", "count"}
      /\ UNCHANGED <<history, spc, loop, flag>>
      /\ upc'[u] = "count" => file' = AsPrinted(map'[u])
  BY TypeParts DEF EnterUpdate, EnterAdd, EnterRemove, Enter, Truncate, WriteFile, Goto,
     UpdatersOK, serverVars
<1>2. FileWritten' /\ SlotsWritten' /\ ShmWritten'
  <2>1. solo' = u /\ upc'[solo'] \in {"save", "write", "count"}
    BY <1>1 DEF history
  <2>2. FileWritten'
    BY <1>1, <2>1 DEF FileWritten, AsPrinted
  <2> QED BY <2>1, <2>2 DEF SlotsWritten, ShmWritten
<1> QED BY <1>1, <1>2, UnderWay DEF Recovery

(* While it writes the segment.                                            *)
LEMMA CountRecovers ==
  ASSUME TypeOK, Iteration, Recovery, NEW u \in Updaters, solo = u, solo # Nobody,
         ShmCount(u)
  PROVE  SlotsWritten' /\ ShmWritten'
<1>1. /\ order[u] \in Seq(Codes) /\ next[u] \in Nat \ {0} /\ upc \in [Updaters -> Phases]
      /\ Iterates(u) /\ shm \in Segments
  BY TypeParts DEF UpdatersOK, StoresOK, Iteration
<1>2. /\ next'[u] = 1 /\ upc'[u] = "slots" /\ solo' = u /\ order' = order
      /\ shm'.count = Len(order[u])
  BY <1>1 DEF ShmCount, Goto, Iterates, Segments, history
<1>3. \A i \in 1 .. next'[u] - 1 : FALSE
  BY <1>2
<1> QED BY <1>2, <1>3 DEF SlotsWritten, ShmWritten

LEMMA CodeRecovers ==
  ASSUME TypeOK, Iteration, Recovery, NEW u \in Updaters, solo = u, solo # Nobody,
         ShmCode(u)
  PROVE  SlotsWritten' /\ ShmWritten'
<1>1. /\ order[u] \in Seq(Codes) /\ next[u] \in Nat \ {0} /\ Len(order[u]) \in Nat
      /\ upc \in [Updaters -> Phases] /\ Iterates(u) /\ shm \in Segments
  BY TypeParts DEF UpdatersOK, StoresOK, Iteration
<1>2. /\ upc[u] = "slots" /\ upc'[u] = "price" /\ solo' = u
      /\ UNCHANGED <<order, map, next>> /\ next[u] <= Len(order[u])
  BY <1>1 DEF ShmCode, AtEnd, Goto, history
<1>3. next[u] \in Slots
  BY <1>1, <1>2, CodesFinite DEF Iterates, Slots
<1>4. /\ shm'.count = shm.count /\ shm'.slots[next[u]].code = Code(u)
      /\ \A i \in Slots \ {next[u]} : shm'.slots[i] = shm.slots[i]
  BY <1>1, <1>3 DEF ShmCode, Segments, Entries
<1>5. /\ shm.count = Len(order[u])
      /\ \A i \in 1 .. next[u] - 1 : shm.slots[i] = Entry(u, i)
  BY <1>2 DEF Recovery, SlotsWritten
<1>6. ASSUME NEW i \in 1 .. next'[u] - 1 PROVE shm'.slots[i] = Entry(u, i)'
  <2>1. i \in Slots \ {next[u]} /\ i \in 1 .. next[u] - 1
    BY <1>1, <1>2, CodesFinite DEF Slots, Iterates
  <2> QED BY <1>2, <1>4, <1>5, <2>1 DEF Entry
<1>7. shm'.slots[next'[u]].code = Code(u)' /\ shm'.count = Len(order'[u])
  BY <1>2, <1>4, <1>5 DEF Code
<1>8. SlotsWritten'
  BY <1>2, <1>6, <1>7 DEF SlotsWritten
<1> QED BY <1>2, <1>8 DEF ShmWritten

LEMMA PriceRecovers ==
  ASSUME TypeOK, Iteration, Recovery, NEW u \in Updaters, solo = u, solo # Nobody,
         ShmPrice(u)
  PROVE  SlotsWritten' /\ ShmWritten'
<1>1. /\ order[u] \in Seq(Codes) /\ next[u] \in Nat \ {0} /\ Len(order[u]) \in Nat
      /\ upc \in [Updaters -> Phases] /\ next \in [Updaters -> Nat \ {0}]
      /\ Iterates(u) /\ shm \in Segments
  BY TypeParts DEF UpdatersOK, StoresOK, Iteration
<1>2. /\ upc[u] = "price" /\ upc'[u] = "slots" /\ solo' = u
      /\ UNCHANGED <<order, map>> /\ next'[u] = next[u] + 1 /\ next[u] <= Len(order[u])
  BY <1>1 DEF ShmPrice, Goto, history, Iterates
<1>3. next[u] \in Slots
  BY <1>1, <1>2, CodesFinite DEF Iterates, Slots
<1>4. /\ shm.count = Len(order[u])
      /\ \A i \in 1 .. next[u] - 1 : shm.slots[i] = Entry(u, i)
      /\ shm.slots[next[u]].code = Code(u)
  BY <1>2 DEF Recovery, SlotsWritten
<1>5. /\ shm'.count = shm.count
      /\ shm'.slots[next[u]] = [code |-> Code(u), rate |-> map[u][Code(u)]]
      /\ \A i \in Slots \ {next[u]} : shm'.slots[i] = shm.slots[i]
  BY <1>1, <1>3, <1>4 DEF ShmPrice, Segments, Entries
<1>6. shm'.slots[next[u]] = Entry(u, next[u])
  BY <1>5 DEF Entry, Code
<1>7. ASSUME NEW i \in 1 .. next'[u] - 1 PROVE shm'.slots[i] = Entry(u, i)'
  <2>1. CASE i = next[u]
    BY <1>2, <1>6, <2>1 DEF Entry
  <2>2. CASE i # next[u]
    <3>1. i \in Slots \ {next[u]} /\ i \in 1 .. next[u] - 1
      BY <1>1, <1>2, <2>2, CodesFinite DEF Slots, Iterates
    <3> QED BY <1>2, <1>4, <1>5, <3>1 DEF Entry
  <2> QED BY <2>1, <2>2
<1>8. SlotsWritten'
  BY <1>2, <1>4, <1>5, <1>7 DEF SlotsWritten
<1> QED BY <1>2, <1>8 DEF ShmWritten

LEMMA SegmentDone ==
  ASSUME TypeOK, Iteration, Recovery, NEW u \in Updaters, solo = u, solo # Nobody,
         ShmDone(u)
  PROVE  SlotsWritten' /\ ShmWritten'
<1>1. /\ order[u] \in Seq(Codes) /\ map[u] \in Tariffs /\ Len(order[u]) \in Nat
      /\ next[u] \in Nat \ {0} /\ upc \in [Updaters -> Phases] /\ Iterates(u)
  BY TypeParts DEF UpdatersOK, Iteration
<1>2. /\ upc[u] = "slots" /\ upc'[u] \in {"db", "delete"} /\ solo' = u
      /\ UNCHANGED <<shm, map>> /\ next[u] > Len(order[u])
  BY <1>1 DEF ShmDone, AtEnd, AfterShm, Goto, history
<1>3. /\ shm.count = Len(order[u])
      /\ \A i \in 1 .. next[u] - 1 : shm.slots[i] = Entry(u, i)
  BY <1>2 DEF Recovery, SlotsWritten
<1>4. ASSUME NEW i \in 1 .. Len(order[u])
      PROVE  shm.slots[i].code = order[u][i] /\ shm.slots[i].rate = map[u][order[u][i]]
  <2>1. i \in 1 .. next[u] - 1
    BY <1>1, <1>2
  <2>2. shm.slots[i] = Entry(u, i)
    BY <1>3, <2>1
  <2> QED BY <2>2 DEF Entry
<1>5. Lists(order[u], map[u])
  BY <1>1, <1>2 DEF Iterates
<1> DEFINE o == order[u]
           m == map[u]
<1>6. /\ o \in Seq(Codes) /\ m \in Tariffs /\ Lists(o, m) /\ shm.count = Len(o)
      /\ \A i \in 1 .. Len(o) : shm.slots[i].code = o[i] /\ shm.slots[i].rate = m[o[i]]
  BY <1>1, <1>3, <1>4, <1>5
<1>7. ShmMap(shm) = m
  <2> HIDE DEF o, m
  <2> QED BY <1>6, ShmMapWritten
<1> QED BY <1>2, <1>7 DEF SlotsWritten, ShmWritten, ShmMap

LEMMA ShmRecovers ==
  ASSUME TypeOK, Iteration, Recovery, NEW u \in Updaters, solo = u, solo # Nobody, Only(u),
         ShmCount(u) \/ ShmCode(u) \/ ShmPrice(u) \/ ShmDone(u)
  PROVE  Recovery'
<1>1. /\ upc[u] \in {"count", "slots", "price"} /\ upc'[u] \in {"slots", "price", "db", "delete"}
      /\ UNCHANGED <<file, history, spc, loop, flag, map>>
  BY TypeParts DEF ShmCount, ShmCode, ShmPrice, ShmDone, AfterShm, Goto, UpdatersOK,
     serverVars
<1>2. FileWritten'
  BY <1>1 DEF Recovery, FileWritten, AsPrinted, history
<1>3. SlotsWritten' /\ ShmWritten'
  BY CountRecovers, CodeRecovers, PriceRecovers, SegmentDone
<1> QED BY <1>1, <1>2, <1>3, UnderWay DEF Recovery

(* While it is at the database.                                            *)
LEMMA DbRecovers ==
  ASSUME TypeOK, Recovery, NEW u \in Updaters, solo = u, solo # Nobody, Only(u),
         \/ DbUpdate(u) \/ DbUpdateRefused(u) \/ DbInsert(u)
         \/ DbEnd(u) \/ DbCommit(u) \/ Delete(u)
  PROVE  Recovery'
<1>1. /\ upc[u] \in {"db", "insert", "delete", "commit"}
      /\ upc'[u] \in {"db", "insert", "commit", "signal"}
      /\ UNCHANGED <<file, shm, history, spc, loop, flag, map>>
  BY TypeParts DEF DbUpdate, DbUpdateRefused, DbInsert, DbEnd, DbCommit, Delete, Goto,
     UpdatersOK, serverVars
<1>2. FileWritten' /\ SlotsWritten' /\ ShmWritten'
  BY <1>1 DEF Recovery, FileWritten, SlotsWritten, ShmWritten, AsPrinted, ShmMap, history
<1> QED BY <1>1, <1>2, UnderWay DEF Recovery

(* It ends with its SIGHUP.                                                *)
LEMMA SignalRecovers ==
  ASSUME TypeOK, Recovery, NEW u \in Updaters, solo = u, solo # Nobody, Only(u), Signal(u)
  PROVE  Recovery'
<1>1. /\ upc[u] = "signal" /\ upc'[u] = "off"
      /\ UNCHANGED <<file, shm, spc, loop, history>>
      /\ flag' = (flag \/ spc # "down")
  BY TypeParts DEF Signal, Exit, Goto, UpdatersOK
<1>2. /\ ~flag /\ spc \notin {"apply", "reload", "reset"}
      /\ Scanning => loop.then = "idle"
      /\ steady => spc \in {"idle", "failed"}
  BY <1>1 DEF Recovery, Unsignalled, Up
<1>3. Alone' /\ Unsignalled' /\ Up'
  BY <1>1, <1>2 DEF Recovery, Alone, Unsignalled, Up, Only, history
<1>4. FileWritten' /\ SlotsWritten' /\ ShmWritten'
  BY <1>1 DEF FileWritten, SlotsWritten, ShmWritten, history
<1>5. Left'
  <2>1. steady => file = AsPrinted(map[u])
    BY <1>1 DEF Recovery, FileWritten
  <2>2. ShmMap(shm) = map[u]
    BY <1>1 DEF Recovery, ShmWritten
  <2>3. ShmMap(shm)' = map[u]
    BY <1>1, <2>2 DEF ShmMap
  <2> QED BY <1>1, <2>1, <2>3 DEF Left, history
<1>6. ~Fresh'
  BY <1>1, <1>2 DEF Fresh
<1>7. CacheScanned' /\ CacheHealed' /\ TableHealed'
  BY <1>1, <1>2, <1>6 DEF CacheScanned, CacheHealed, TableHealed, history
<1> QED BY <1>3, <1>4, <1>5, <1>7 DEF Recovery

LEMMA UpdaterRecovers ==
  ASSUME TypeOK, Iteration, Recovery, NEW u \in Updaters, Updater(u) \/ KillUpdater(u)
  PROVE  Recovery'
<1>1. Only(u)
  BY OnlyOne, TypeParts
<1>2. CASE Launch(u)
  BY <1>2, LaunchRecovers
<1>3. CASE ~Launch(u)
  <2>1. upc[u] # "off"
    BY <1>3 DEF Updater, EnterUpdate, EnterAdd, EnterRemove, Enter, Decline, Truncate,
       WriteFile, ShmCount, ShmCode, ShmPrice, ShmDone, DbUpdate, DbUpdateRefused, DbInsert,
       DbEnd, DbCommit, Delete, Signal, KillUpdater, Idle
  <2>2. CASE solo = Nobody
    <3>1. solo' = Nobody
      BY <1>3, <2>2 DEF Updater, EnterUpdate, EnterAdd, EnterRemove, Enter, Decline, Truncate,
         WriteFile, ShmCount, ShmCode, ShmPrice, ShmDone, DbUpdate, DbUpdateRefused,
         DbInsert, DbEnd, DbCommit, Delete, Signal, KillUpdater, history
    <3> QED BY <3>1, NobodyRecovers
  <2>3. CASE solo # Nobody
    <3>1. solo = u
      BY <2>1, <2>3, OwnStep
    <3>2. CASE Decline(u) \/ KillUpdater(u)
      BY <3>1, <3>2, NobodyRecovers DEF Decline, KillUpdater
    <3> QED BY <1>1, <1>3, <2>3, <3>1, <3>2, SaveRecovers, ShmRecovers, DbRecovers,
               SignalRecovers DEF Updater
  <2> QED BY <2>2, <2>3
<1> QED BY <1>2, <1>3

(* The segment as it was, seen from the next state.                        *)
LEMMA SameSegment ==
  ASSUME shm' = shm
  PROVE  ShmMap(shm)' = ShmMap(shm) /\ AsPrinted(ShmMap(shm))' = AsPrinted(ShmMap(shm))
BY DEF ShmMap, AsPrinted

(* A step of the server leaves the run where it is, and what it has        *)
(* written.                                                                *)
LEMMA WrittenKept ==
  ASSUME TypeOK, Recovery, UNCHANGED <<updVars, solo, shm>>, steady' => steady,
         steady => UNCHANGED file
  PROVE  Alone' /\ FileWritten' /\ SlotsWritten' /\ ShmWritten' /\ Left'
<1>1. Alone'
  BY DEF Recovery, Alone, updVars
<1>2. FileWritten'
  BY DEF Recovery, FileWritten, AsPrinted, updVars
<1>3. SlotsWritten'
  BY DEF Recovery, SlotsWritten, Entry, Code, updVars
<1>4. ShmWritten' /\ Left'
  <2>1. ShmMap(shm)' = ShmMap(shm) /\ AsPrinted(ShmMap(shm))' = AsPrinted(ShmMap(shm))
    BY SameSegment
  <2>2. ShmWritten'
    BY <2>1 DEF Recovery, ShmWritten, updVars
  <2>3. Left'
    BY <2>1 DEF Recovery, Left, updVars
  <2> QED BY <2>2, <2>3
<1> QED BY <1>1, <1>2, <1>3, <1>4

(* The server is started again: it is not the one the run began with.      *)
LEMMA StartRecovers ==
  ASSUME TypeOK, Recovery, Boot \/ SeedFind \/ SeedInsert \/ Generate \/ Generated
  PROVE  Recovery'
<1>1. /\ UNCHANGED <<updVars, history, shm, flag>>
      /\ spc \in {"down", "seed", "seed_insert", "generate"}
      /\ spc' \in {"seed", "seed_insert", "generate", "load", "failed"}
  BY DEF Boot, SeedFind, SeedInsert, Generate, Generated
<1>2. solo # Nobody => ~steady
  BY <1>1 DEF Recovery, Up
<1>3. CASE solo = Nobody
  BY <1>1, <1>3, NobodyRecovers DEF history
<1>4. CASE solo # Nobody
  <2>1. Alone' /\ FileWritten' /\ SlotsWritten' /\ ShmWritten' /\ Left'
    BY <1>1, <1>2, <1>4, WrittenKept DEF history
  <2>2. Unsignalled' /\ Up'
    BY <1>1, <1>2, <1>4 DEF Recovery, Unsignalled, Up, updVars, history
  <2>3. CacheScanned' /\ CacheHealed' /\ TableHealed'
    BY <1>1, <1>2, <1>4 DEF CacheScanned, CacheHealed, TableHealed, Fresh, history
  <2> QED BY <2>1, <2>2, <2>3 DEF Recovery
<1> QED BY <1>3, <1>4

(* Its SIGHUP reads prices.txt and writes the rates into the draft: nobody *)
(* else can hold the lock.                                                 *)
LEMMA SighupRecovers ==
  ASSUME TypeOK, Transaction, Recovery, Sighup
  PROVE  Recovery'
<1>1. /\ UNCHANGED <<updVars, history, shm, file, flag>>
      /\ spc = "idle" /\ flag /\ spc' = "apply" /\ lines' = file
  BY DEF Sighup
<1>2. CASE solo = Nobody
  BY <1>1, <1>2, NobodyRecovers DEF history
<1>3. CASE solo # Nobody
  <2>1. Alone' /\ FileWritten' /\ SlotsWritten' /\ ShmWritten' /\ Left'
    BY <1>1, WrittenKept DEF history
  <2>2. upc[solo] = "off" /\ upc'[solo'] = "off"
    BY <1>1, <1>3 DEF Recovery, Unsignalled, updVars, history
  <2>3. Unsignalled' /\ Up' /\ CacheScanned' /\ CacheHealed'
    BY <1>1, <2>2 DEF Unsignalled, Up, CacheScanned, CacheHealed, Fresh
  <2>4. steady => Agree(draft', file)
    <3>1. lock \in {"none", "server"}
      BY <1>3, <2>2, TypeParts DEF Recovery, Alone, Transaction, DbOK
    <3>2. CASE DOMAIN file # {}
      BY <3>1, <3>2, TypeParts, UpdateRatesAgree DEF Sighup, DbOK
    <3>3. CASE DOMAIN file = {}
      BY <3>3 DEF Agree
    <3> QED BY <3>2, <3>3
  <2>5. steady => file = AsPrinted(ShmMap(shm))
    BY <1>3, <2>2 DEF Recovery, Left
  <2>6. TableHealed'
    BY <1>1, <2>4, <2>5, SameSegment DEF TableHealed, history
  <2> QED BY <2>1, <2>3, <2>6 DEF Recovery
<1> QED BY <1>2, <1>3

LEMMA ApplyRecovers ==
  ASSUME TypeOK, Transaction, Recovery, ApplyRest \/ Applied
  PROVE  Recovery'
<1>1. /\ UNCHANGED <<updVars, history, shm, file, flag>>
      /\ spc = "apply" /\ spc' \in {"apply", "reload"}
  BY DEF ApplyRest, Applied, serverVars
<1>2. CASE solo = Nobody
  BY <1>1, <1>2, NobodyRecovers DEF history
<1>3. CASE solo # Nobody
  <2> DEFINE wanted == AsPrinted(ShmMap(shm))
  <2>1. Alone' /\ FileWritten' /\ SlotsWritten' /\ ShmWritten' /\ Left'
    BY <1>1, WrittenKept DEF history
  <2>2. upc[solo] = "off" /\ upc'[solo'] = "off"
    BY <1>1, <1>3 DEF Recovery, Unsignalled, updVars, history
  <2>3. Unsignalled' /\ Up' /\ CacheScanned' /\ CacheHealed'
    BY <1>1, <2>2 DEF Unsignalled, Up, CacheScanned, CacheHealed, Fresh
  <2>4. steady => lines = wanted /\ Agree(draft, wanted)
    BY <1>1, <1>3, <2>2 DEF Recovery, TableHealed
  <2>5. wanted' = wanted
    BY <1>1, SameSegment
  <2> HIDE DEF wanted
  <2>6. CASE ApplyRest
    <3>1. PICK rest \in SUBSET DOMAIN lines :
            draft' = UpdateRates(table, Restrict(lines, rest))
      BY <2>6 DEF ApplyRest
    <3>2. draft = table /\ lines' = lines /\ spc' = "apply" /\ IsTable(table)
      BY <1>1, <2>6, TypeParts DEF ApplyRest, Transaction, DbOK, serverVars
    <3>3. steady => Agree(draft', wanted)
      BY <2>4, <3>1, <3>2, UpdateSomeAgree
    <3>4. TableHealed'
      BY <1>1, <2>4, <2>5, <3>2, <3>3 DEF TableHealed, history, wanted
    <3> QED BY <2>1, <2>3, <3>4 DEF Recovery
  <2>7. CASE Applied
    <3>1. draft' = draft /\ spc' = "reload"
      BY <2>7 DEF Applied
    <3>2. TableHealed'
      BY <1>1, <2>4, <2>5, <3>1 DEF TableHealed, history, wanted
    <3> QED BY <2>1, <2>3, <3>2 DEF Recovery
  <2> QED BY <2>6, <2>7
<1> QED BY <1>2, <1>3

(* The cache is loaded from the segment, entry by entry; a run that is     *)
(* over does not write it any more.                                        *)
LEMMA LoadRecovers ==
  ASSUME TypeOK, Made, Recovery, LoadShm
  PROVE  Recovery'
<1>1. /\ UNCHANGED <<updVars, history, file, flag, draft, shm>>
      /\ spc \in {"load", "reload"} /\ (spc = "load" => ~steady \/ solo = Nobody)
  BY DEF LoadShm, dbVars, Recovery, Up
<1>2. CASE solo = Nobody
  BY <1>1, <1>2, NobodyRecovers DEF history
<1>3. CASE solo # Nobody
  <2> DEFINE then == IF spc = "load" THEN "idle" ELSE "reset"
  <2>1. Alone' /\ FileWritten' /\ SlotsWritten' /\ ShmWritten' /\ Left'
    BY <1>1, WrittenKept DEF history
  <2>2. shm.made /\ cache' = <<>>
    BY <1>3 DEF Made, LoadShm
  <2>3. shm.count \in Nat
    BY CodesFinite, TypeParts DEF StoresOK, Segments
  <2>4. \/ shm.count > 0 /\ spc' = "scan" /\ loop'.count = shm.count
           /\ loop'.at = 1 /\ loop'.then = then
        \/ shm.count = 0 /\ spc' = then
    BY <2>2, <2>3 DEF LoadShm, NoLoop
  <2>5. cache' = ShmPrefix(shm, 0) /\ (shm.count = 0 => cache' = ShmMap(shm))
    BY <2>2, NoPrefix, ShmMapPrefix
  <2>6. Unsignalled' /\ Up'
    BY <1>1, <1>3, <2>4 DEF Recovery, Unsignalled, Up, updVars, history
  <2>7. CacheScanned'
    <3>1. spc' = "scan" => loop'.count = shm.count /\ loop'.at - 1 = 0
      BY <2>4
    <3>2. spc' # "scan_price"
      BY <2>4
    <3>3. spc' = "scan" => cache' = ShmPrefix(shm', loop'.at - 1)
      BY <1>1, <2>5, <3>1
    <3> QED BY <1>1, <3>1, <3>2, <3>3 DEF CacheScanned, ShmPrefix, Latest
  <2>8. CacheHealed'
    <3>1. Fresh' => shm.count = 0
      BY <2>4 DEF Fresh
    <3> QED BY <1>1, <2>5, <3>1, SameSegment DEF CacheHealed
  <2>9. TableHealed'
    <3>1. steady => spc = "reload" /\ spc' # "apply"
      BY <1>1, <1>3, <2>4
    <3> QED BY <1>1, <1>3, <3>1, SameSegment DEF Recovery, TableHealed, updVars, history
  <2> QED BY <2>1, <2>6, <2>7, <2>8, <2>9 DEF Recovery
<1> QED BY <1>2, <1>3

(* No run that has the system to itself begins before the segment is made. *)
LEMMA CreateRecovers ==
  ASSUME Made, CreateShm
  PROVE  Recovery'
BY NobodyRecovers DEF Made, CreateShm, history

LEMMA CodeLoadRecovers ==
  ASSUME TypeOK, Recovery, LoadCode
  PROVE  Recovery'
<1>1. /\ UNCHANGED <<updVars, history, file, flag, draft, shm, cache>>
      /\ spc = "scan" /\ spc' = "scan_price"
  BY DEF LoadCode, dbVars
<1>2. /\ loop'.count = loop.count /\ loop'.at = loop.at /\ loop'.then = loop.then
      /\ loop'.code = shm.slots[loop.at].code
  BY TypeParts DEF LoadCode, ServerOK, Loops
<1>3. CASE solo = Nobody
  BY <1>1, <1>3, NobodyRecovers DEF history
<1>4. CASE solo # Nobody
  <2>1. Alone' /\ FileWritten' /\ SlotsWritten' /\ ShmWritten' /\ Left'
    BY <1>1, WrittenKept DEF history
  <2>2. Unsignalled' /\ Up'
    BY <1>1, <1>2 DEF Recovery, Unsignalled, Up, updVars, history
  <2>3. ShmPrefix(shm, loop.at - 1)' = ShmPrefix(shm, loop.at - 1)
    BY <1>1, <1>2 DEF ShmPrefix, Latest
  <2>4. CacheScanned'
    BY <1>1, <1>2, <2>3 DEF Recovery, CacheScanned, updVars, history
  <2>5. CacheHealed'
    BY <1>1 DEF CacheHealed, Fresh
  <2>6. TableHealed'
    BY <1>1, SameSegment DEF Recovery, TableHealed, updVars, history
  <2> QED BY <2>1, <2>2, <2>4, <2>5, <2>6 DEF Recovery
<1> QED BY <1>3, <1>4

LEMMA PriceLoadRecovers ==
  ASSUME TypeOK, Looping, Recovery, LoadPrice
  PROVE  Recovery'
<1>1. /\ UNCHANGED <<updVars, history, file, flag, draft, shm>> /\ spc = "scan_price"
      /\ cache' = Override(cache, [d \in {loop.code} |-> shm.slots[loop.at].rate])
  BY DEF LoadPrice, dbVars
<1>2. loop \in Loops /\ loop.at \in Nat \ {0} /\ loop.count \in Nat /\ loop.at <= loop.count
  BY <1>1, CodesFinite, TypeParts DEF ServerOK, Loops, Looping
<1>3. CASE solo = Nobody
  BY <1>1, <1>3, NobodyRecovers DEF history
<1>4. CASE solo # Nobody
  <2>1. Alone' /\ FileWritten' /\ SlotsWritten' /\ ShmWritten' /\ Left'
    BY <1>1, WrittenKept DEF history
  <2>2. \/ /\ spc' = "scan" /\ loop'.at = loop.at + 1 /\ loop.at < loop.count
           /\ loop'.count = loop.count /\ loop'.then = loop.then
        \/ /\ spc' = loop.then /\ loop.then \in {"idle", "reset"} /\ loop.at = loop.count
    <3>1. CASE loop.at < loop.count
      BY <1>2, <3>1 DEF LoadPrice, Loops
    <3>2. CASE ~(loop.at < loop.count)
      <4>1. loop.at = loop.count
        BY <1>2, <3>2
      <4> QED BY <1>2, <3>2, <4>1 DEF LoadPrice, Loops
    <3> QED BY <3>1, <3>2
  <2>3. Unsignalled' /\ Up'
    BY <1>1, <2>2 DEF Recovery, Unsignalled, Up, updVars, history
  <2>4. ASSUME upc[solo] = "off", loop.then = "reset" \/ ~flag
        PROVE  loop.count = shm.count /\ cache' = ShmPrefix(shm, loop.at)
    <3>1. /\ loop.count = shm.count /\ cache = ShmPrefix(shm, loop.at - 1)
          /\ loop.code = shm.slots[loop.at].code
      BY <1>1, <1>4, <2>4 DEF Recovery, CacheScanned
    <3> DEFINE n == loop.at - 1
    <3>2. n \in Nat /\ n + 1 = loop.at
      BY <1>2
    <3>3. Override(ShmPrefix(shm, n), [d \in {shm.slots[n + 1].code} |-> shm.slots[n + 1].rate])
            = ShmPrefix(shm, n + 1)
      <4> HIDE DEF n
      <4> QED BY <3>2, PrefixMore
    <3> QED BY <1>1, <3>1, <3>2, <3>3
  <2>5. CacheScanned'
    <3>1. CASE spc' = "scan"
      <4>1. /\ loop'.at = loop.at + 1 /\ loop'.count = loop.count /\ loop'.then = loop.then
        BY <2>2, <3>1
      <4>2. loop'.at - 1 = loop.at
        BY <1>2, <4>1
      <4>3. ShmPrefix(shm', loop'.at - 1) = ShmPrefix(shm, loop.at)
        BY <1>1, <4>2
      <4> QED BY <1>1, <2>4, <3>1, <4>1, <4>3 DEF CacheScanned, updVars, history
    <3>2. CASE spc' # "scan"
      BY <2>2, <3>2 DEF CacheScanned
    <3> QED BY <3>1, <3>2
  <2>6. CacheHealed'
    <3>1. ASSUME upc[solo] = "off", Fresh' PROVE cache' = ShmMap(shm)
      <4>1. spc' = loop.then /\ loop.at = loop.count /\ (loop.then = "reset" \/ ~flag)
        BY <1>1, <2>2, <3>1 DEF Fresh
      <4> QED BY <2>4, <3>1, <4>1, ShmMapPrefix
    <3> QED BY <1>1, <3>1, SameSegment DEF CacheHealed, updVars, history
  <2>7. TableHealed'
    <3>1. spc' # "apply"
      BY <2>2
    <3> QED BY <1>1, <3>1, SameSegment DEF Recovery, TableHealed, updVars, history
  <2> QED BY <2>1, <2>3, <2>5, <2>6, <2>7 DEF Recovery
<1> QED BY <1>3, <1>4

LEMMA OtherServerRecovers ==
  ASSUME TypeOK, Recovery,
         ResetFlag \/ ServeFrame \/ ServeBusy \/ PressEnter \/ KillServer
  PROVE  Recovery'
<1>1. CASE solo = Nobody
  <2>1. solo' = Nobody
    BY <1>1 DEF ResetFlag, ServeFrame, ServeBusy, PressEnter, KillServer, history
  <2> QED BY <2>1, NobodyRecovers
<1>2. CASE solo # Nobody
  <2>1. /\ UNCHANGED <<updVars, solo, shm, file>> /\ (steady' => steady)
    BY DEF ResetFlag, ServeFrame, ServeBusy, PressEnter, KillServer, ServerGone, history
  <2>2. Alone' /\ FileWritten' /\ SlotsWritten' /\ ShmWritten' /\ Left'
    BY <2>1, WrittenKept
  <2>3. CASE ResetFlag \/ ServeFrame
    <3>1. /\ UNCHANGED <<updVars, history, cache, draft, shm>> /\ spc' = "idle"
          /\ spc = "reset" \/ (spc = "idle" /\ flag' = flag)
      BY <2>3 DEF ResetFlag, ServeFrame, dbVars
    <3>2. Unsignalled' /\ Up'
      BY <1>2, <3>1 DEF Recovery, Unsignalled, Up, updVars, history
    <3>3. Fresh' => Fresh
      BY <3>1 DEF Fresh
    <3>4. CacheScanned' /\ CacheHealed'
      BY <1>2, <3>1, <3>3, SameSegment DEF Recovery, CacheScanned, CacheHealed, updVars, history
    <3>5. TableHealed'
      BY <1>2, <3>1, <3>3, SameSegment DEF Recovery, TableHealed, updVars, history
    <3> QED BY <2>2, <3>2, <3>4, <3>5 DEF Recovery
  <2>4. CASE ServeBusy
    <3>1. UNCHANGED <<updVars, history, flag>> /\ spc = "idle" /\ spc' = "failed"
      BY <2>4 DEF ServeBusy
    <3>2. Unsignalled' /\ Up'
      BY <1>2, <3>1 DEF Recovery, Unsignalled, Up, updVars, history
    <3>3. CacheScanned' /\ CacheHealed' /\ TableHealed'
      BY <3>1 DEF CacheScanned, CacheHealed, TableHealed, Fresh
    <3> QED BY <2>2, <3>2, <3>3 DEF Recovery
  <2>5. CASE PressEnter \/ KillServer
    <3>1. spc' = "down" /\ ~flag' /\ ~steady'
      BY <2>5 DEF PressEnter, KillServer, ServerGone
    <3> QED BY <2>2, <3>1
            DEF Recovery, Unsignalled, Up, CacheScanned, CacheHealed, TableHealed, Fresh
  <2> QED BY <2>3, <2>4, <2>5
<1> QED BY <1>1, <1>2

LEMMA RecoveryKept ==
  ASSUME TypeOK, Iteration, Transaction, Stands, Recovery, [Next]_vars
  PROVE  Recovery'
<1>1. CASE Server \/ KillServer
  BY <1>1, StartRecovers, SighupRecovers, ApplyRecovers, LoadRecovers, CreateRecovers,
     CodeLoadRecovers, PriceLoadRecovers, OtherServerRecovers DEF Server, Stands
<1>2. CASE UNCHANGED vars
  <2>1. /\ UNCHANGED <<updVars, history, file, shm, draft, flag, spc, loop, cache, lines>>
    BY <1>2 DEF vars, dbVars, serverVars
  <2>2. Alone' /\ FileWritten' /\ SlotsWritten' /\ ShmWritten' /\ Left'
    BY <2>1, WrittenKept DEF history
  <2>3. Unsignalled' /\ Up'
    BY <2>1 DEF Recovery, Unsignalled, Up, updVars, history
  <2>4. CacheScanned' /\ CacheHealed'
    <3>1. ShmPrefix(shm', loop'.at - 1) = ShmPrefix(shm, loop.at - 1)
      BY <2>1
    <3>2. CacheScanned'
      BY <2>1, <3>1 DEF Recovery, CacheScanned, updVars, history
    <3>3. CacheHealed'
      BY <2>1, SameSegment DEF Recovery, CacheHealed, Fresh, updVars, history
    <3> QED BY <3>2, <3>3
  <2>5. TableHealed'
    BY <2>1, SameSegment DEF Recovery, TableHealed, Fresh, updVars, history
  <2> QED BY <2>2, <2>3, <2>4, <2>5 DEF Recovery
<1> QED BY <1>1, <1>2, UpdaterRecovers DEF Next
-----------------------------------------------------------------------------
LEMMA InitInv ==
  ASSUME Init
  PROVE  IndInv
<1>1. IsTable(Seeds) /\ RowIds(Seeds)
  BY SeedsTable, SeedsRowIds
<1>2. AsPrinted(TableMap(Seeds)) \in Tariffs
  BY <1>1, TableMapTariff, PrintedTariff
<1>3. StoresOK
  <2>1. Zero \in Entries
    BY DEF Zero, Entries, NoCity
  <2>2. 0 \in 0 .. Cardinality(Codes)
    BY CodesFinite
  <2>3. NewShm \in Segments
    BY <2>1, <2>2 DEF NewShm, Segments
  <2> QED BY <1>2, <2>3 DEF Init, StoresOK
<1>4. DbOK
  BY <1>1 DEF Init, DbOK
<1>5. ServerOK
  <2>1. 0 \in 0 .. Cardinality(Codes)
    BY CodesFinite
  <2>2. NoLoop \in Loops
    BY <2>1 DEF NoLoop, Loops
  <2> QED BY <2>2, EmptyTariff, TariffCached DEF Init, ServerOK
<1>6. NoJob \in Jobs
  BY UpdatersAssumption DEF NoJob, Jobs
<1>7. UpdatersOK
  BY <1>6, EmptyTariff DEF Init, UpdatersOK
<1>8. HistoryOK
  <2>1. 0 \in 0 .. MaxRuns /\ 0 \in 0 .. MaxCrashes
    BY RunsAssumption
  <2> QED BY <2>1 DEF Init, HistoryOK
<1>9. Iteration
  <2>1. ASSUME NEW u \in Updaters PROVE Iterates(u)
    <3>1. upc[u] = "off" /\ order[u] = <<>> /\ next[u] = 1
      BY DEF Init
    <3>2. Len(order[u]) = 0
      BY <3>1
    <3> QED BY <3>1, <3>2, CodesFinite DEF Iterates
  <2> QED BY <2>1 DEF Iteration
<1>10. Transaction
  BY <1>1, ExtendsRefl, UpdatersAssumption DEF Init, Transaction, Deleting
<1>11. Recovery
  BY DEF Init, Recovery, Alone, Unsignalled, Up, FileWritten, SlotsWritten, ShmWritten,
     Left, CacheScanned, CacheHealed, TableHealed
<1>12. Drafts
  BY UpdatersAssumption DEF Init, Drafts, WriterDraft, ServerDraft
<1>13. Stands
  BY DEF Init, Stands, Looping, Made, SeedHeld
<1> QED BY <1>3, <1>4, <1>5, <1>7, <1>8, <1>9, <1>10, <1>11, <1>12, <1>13, TypeParts
        DEF IndInv

LEMMA InvKept ==
  ASSUME IndInv, [Next]_vars
  PROVE  IndInv' /\ [RowsStay]_vars /\ [TableStep]_vars
BY TypesKept, TransactionKept, DraftsKept, StandsKept, TableStepTaken, RecoveryKept
   DEF IndInv, Stands

LEMMA Invariant == Spec => []IndInv
<1>1. Init => IndInv
  BY InitInv
<1>2. IndInv /\ [Next]_vars => IndInv'
  BY InvKept
<1> QED BY <1>1, <1>2, PTL DEF Spec

(* Every variable of PricePropagation keeps its type: in particular the    *)
(* segment never counts more entries than there are cities, and every      *)
(* entry an updater writes lies inside it.                                 *)
THEOREM TypeCorrect == Spec => []TypeOK
<1>1. IndInv => TypeOK
  BY DEF IndInv
<1> QED BY <1>1, Invariant, PTL

(* No committed row of `prices' is lost or moved, whoever commits after    *)
(* whom and whoever is killed in between: only an updater at its DELETE    *)
(* takes a row away, and only one of the code it was asked to remove.      *)
THEOREM CommittedRowsKept == Spec => RowsKept
<1>1. IndInv /\ [Next]_vars => [RowsStay]_vars
  BY InvKept
<1> QED BY <1>1, Invariant, PTL DEF Spec, RowsKept

(* A step that changes the committed table is one that ParkingSessions     *)
(* allows its environment or takes itself: a transaction of an updater,    *)
(* with others writing between its statements; the rates of prices.txt; or *)
(* one seed city, inserted where none is unless the SELECT COUNT before it *)
(* was refused.  So what is shown there holds beside these programs.       *)
THEOREM EnvironmentAsAssumed == Spec => CommitsAsAssumed
<1>1. IndInv /\ [Next]_vars => [TableStep]_vars
  BY InvKept
<1> QED BY <1>1, Invariant, PTL DEF Spec, CommitsAsAssumed

(* One run of PRICE_UPDATER that has the system to itself repairs whatever *)
(* went wrong before it: afterwards prices_cache is what it wrote, and, if *)
(* the server stayed up, prices.txt and the listed rows have it as it is   *)
(* printed.                                                                *)
THEOREM Healing == Spec => []SoloRunHeals
<1>1. ASSUME IndInv PROVE SoloRunHeals
  <2> SUFFICES ASSUME Quiet, solo # Nobody
               PROVE  /\ cache = ShmMap(shm)
                      /\ steady => /\ file = AsPrinted(cache)
                                   /\ \A i \in DOMAIN draft :
                                        draft[i].code \in DOMAIN cache =>
                                          draft[i].rate = Printed[cache[draft[i].code]]
    BY DEF SoloRunHeals
  <2>1. solo \in Updaters
    BY <1>1, TypeParts DEF IndInv, HistoryOK
  <2>2. upc[solo] = "off" /\ Fresh
    BY <2>1 DEF Quiet, Idle, Fresh
  <2>3. cache = ShmMap(shm)
    BY <1>1, <2>2 DEF IndInv, Recovery, CacheHealed
  <2>4. steady => file = AsPrinted(cache) /\ Agree(draft, AsPrinted(cache))
    BY <1>1, <2>2, <2>3 DEF IndInv, Recovery, Left, TableHealed
  <2>5. Agree(draft, AsPrinted(cache)) =>
          \A i \in DOMAIN draft : draft[i].code \in DOMAIN cache =>
            draft[i].rate = Printed[cache[draft[i].code]]
    BY DEF Agree, AsPrinted
  <2> QED BY <2>3, <2>4, <2>5
<1> QED BY <1>1, Invariant, PTL
=============================================================================
