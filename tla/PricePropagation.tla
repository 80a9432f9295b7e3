-------------------------- MODULE PricePropagation --------------------------
(***************************************************************************)
(* How a price, a new city or a removed city travels from PRICE_UPDATER to *)
(* the server: prices.txt, the shared memory segment, the table `prices'   *)
(* of data.db and SIGHUP.  Every updater is a process of its own, started  *)
(* by an operator; nothing keeps two of them apart but SQLite's lock on    *)
(* data.db, and nothing orders them with the server's SIGHUP handling or   *)
(* with its start, which inserts the seed cities one by one and rewrites   *)
(* prices.txt from the table.  The segment is written and read entry by    *)
(* entry without a lock.  A COMMIT or DELETE that meets a reader is        *)
(* refused and not repeated: the updater closes its connection, the server *)
(* keeps its transaction open.                                             *)
(***************************************************************************)
EXTENDS PriceTable, Sequences

CONSTANTS
  Updaters,    \* updater processes that may run at the same time
  Nobody,      \* no updater
  Nowhere,     \* the coordinates an update carries: (0, 0)
  Printed,     \* a price as `<<' prints it in prices.txt: 6 significant digits
  MaxRuns,     \* bound: updater runs
  MaxCrashes   \* bound: processes killed, or ended by a frame's refused write

(* `server' and `none' are the other holders of the lock.                  *)
ASSUME UpdatersAssumption ==
  {Nobody, "server", "none"} \cap Updaters = {} /\ Nowhere \in Locs
(* A city code is an int: there are finitely many.                         *)
ASSUME FiniteCodesAssumption == IsFiniteSet(Codes)
ASSUME PrintedAssumption == Printed \in [Rates -> Rates]
ASSUME RunsAssumption == MaxRuns \in Nat /\ MaxCrashes \in Nat

VARIABLES
  file,     \* prices.txt, as the map its lines spell
  shm,      \* the segment /prices_shm
  table,    \* table prices, as committed
  draft,    \* the same as the holder of the write lock sees it
  lock,     \* who holds RESERVED on data.db (the server, outside its price
            \* update: a transaction left open, which holds PENDING too)
  reading,  \* the server has a SELECT left at a row: it holds SHARED
  spc,      \* where the server stands
  loop,     \* its loop over the seeds or over the entries of the segment
  flag,     \* SigGuard::update_prices
  cache,    \* prices_cache
  lines,    \* what the server read from prices.txt
  upc,      \* where each updater stands
  job,      \* what its operator asked for
  map,      \* its map `prices'
  order,    \* the order in which that map is iterated
  next,     \* position in that order
  runs, crashes,      \* bounded counters
  solo,     \* the updater that ran last with the system to itself (history)
  steady    \* the server has not gone down since that run began (history)

dbVars     == <<table, draft, lock>>
serverVars == <<reading, spc, loop, flag, cache, lines>>
updVars    == <<upc, job, map, order, next>>
history    == <<solo, steady>>
bounds     == <<runs, crashes>>
vars == <<file, shm, dbVars, serverVars, updVars, history, bounds>>

Slots   == 1 .. Cardinality(Codes)
Zero    == [code |-> 0, rate |-> 0]          \* a slot ftruncate left empty
NewShm  == [made |-> FALSE, count |-> 0, slots |-> [i \in Slots |-> Zero]]

(* Later entries for a code win, as in prices_cache[code] = price.         *)
ShmMap(s) ==
  LET used == 1 .. s.count
      last(c) == CHOOSE i \in used : /\ s.slots[i].code = c
                                     /\ \A j \in used : s.slots[j].code = c => j <= i
  IN [c \in {s.slots[i].code : i \in used} |-> s.slots[last(c)].rate]

(* The lines of a table, read into a map: the last row of a code wins.     *)
TableMap(t) ==
  [c \in CodesOf(t) |->
     t[CHOOSE i \in DOMAIN t : /\ t[i].code = c
                               /\ \A j \in DOMAIN t : t[j].code = c => j <= i].rate]

(* The map that reading the lines back yields.                             *)
AsPrinted(m) == [c \in DOMAIN m |-> Printed[m[c]]]

Override(f, g) == [c \in DOMAIN f \cup DOMAIN g |-> IF c \in DOMAIN g THEN g[c] ELSE f[c]]

NoLoop == [count |-> 0, at |-> 0, code |-> NoCity, then |-> "idle"]
NoJob == [op |-> "none", code |-> NoCity, loc |-> Nowhere]

Idle(u)  == upc[u] = "off"
Quiet == spc = "idle" /\ ~flag /\ \A u \in Updaters : Idle(u)

Goto(u, where) == upc' = [upc EXCEPT ![u] = where]

Init ==
  /\ file = AsPrinted(TableMap(Seeds)) /\ shm = NewShm
  /\ table = Seeds /\ draft = table /\ lock = "none"
  /\ reading = FALSE /\ spc = "load" /\ loop = NoLoop /\ flag = FALSE /\ cache = <<>> /\ lines = <<>>
  /\ upc = [u \in Updaters |-> "off"] /\ job = [u \in Updaters |-> NoJob]
  /\ map = [u \in Updaters |-> <<>>] /\ order = [u \in Updaters |-> <<>>]
  /\ next = [u \in Updaters |-> 1]
  /\ runs = 0 /\ crashes = 0 /\ solo = Nobody /\ steady = FALSE
-----------------------------------------------------------------------------
(* An updater's process ends: what it holds on data.db is rolled back.     *)
Exit(u) ==
  /\ Goto(u, "off")
  /\ job' = [job EXCEPT ![u] = NoJob] /\ map' = [map EXCEPT ![u] = <<>>]
  /\ order' = [order EXCEPT ![u] = <<>>] /\ next' = [next EXCEPT ![u] = 1]

(* main: the file is read before the operator is asked anything.           *)
Launch(u) ==
  /\ Idle(u) /\ runs < MaxRuns /\ runs' = runs + 1
  /\ map' = [map EXCEPT ![u] = file] /\ Goto(u, "menu")
  /\ solo' = IF Quiet THEN u ELSE Nobody
  /\ steady' = TRUE
  /\ UNCHANGED <<file, shm, dbVars, serverVars, job, order, next, crashes>>

(* The operator's choice; the map is changed in memory.                    *)
Enter(u, newJob, newMap) ==
  /\ upc[u] = "menu" /\ Goto(u, "save")
  /\ job' = [job EXCEPT ![u] = newJob] /\ map' = [map EXCEPT ![u] = newMap]
  /\ \E o \in Bijection(1 .. Cardinality(DOMAIN newMap), DOMAIN newMap) :
       order' = [order EXCEPT ![u] = o]
  /\ UNCHANGED <<file, shm, dbVars, serverVars, next, history, bounds>>

EnterUpdate(u) == \E c \in DOMAIN map[u], q \in Rates :
  Enter(u, [op |-> "update", code |-> c, loc |-> Nowhere], [map[u] EXCEPT ![c] = q])

EnterAdd(u) == \E c \in Codes, l \in Locs \ {Nowhere}, q \in Rates :
  Enter(u, [op |-> "add", code |-> c, loc |-> l], Override(map[u], [d \in {c} |-> q]))

EnterRemove(u) == \E c \in DOMAIN map[u] :
  Enter(u, [op |-> "remove", code |-> c, loc |-> Nowhere],
        Restrict(map[u], DOMAIN map[u] \ {c}))

(* "City code not found" or an invalid choice: nothing is written.         *)
Decline(u) ==
  /\ upc[u] = "menu" /\ Exit(u)
  /\ solo' = IF solo = u THEN Nobody ELSE solo
  /\ UNCHANGED <<file, shm, dbVars, serverVars, steady, bounds>>

(* save_prices_file: opened with trunc, its lines flushed when it closes.  *)
Truncate(u) ==
  /\ upc[u] = "save" /\ Goto(u, "write") /\ file' = <<>>
  /\ UNCHANGED <<shm, dbVars, serverVars, job, map, order, next, history, bounds>>

WriteFile(u) ==
  /\ upc[u] = "write" /\ Goto(u, "count") /\ file' = AsPrinted(map[u])
  /\ UNCHANGED <<shm, dbVars, serverVars, job, map, order, next, history, bounds>>

(* Mutant: one entry too many (TypeOK).                                    *)
ShmCountOneMore(u) ==
  /\ upc[u] = "count" /\ Goto(u, "slots")
  /\ shm' = [shm EXCEPT !.made = TRUE, !.count = Len(order[u]) + 1]
  /\ UNCHANGED <<file, dbVars, serverVars, job, map, order, next, history, bounds>>

(* write_prices_to_shm: the count first, then entry after entry.           *)
ShmCount(u) ==
  /\ upc[u] = "count" /\ Goto(u, "slots")
  /\ shm' = [shm EXCEPT !.made = TRUE, !.count = Len(order[u])]
  /\ UNCHANGED <<file, dbVars, serverVars, job, map, order, next, history, bounds>>

Code(u)     == order[u][next[u]]
AtEnd(u)  == next[u] > Len(order[u])
AfterShm(u) == IF job[u].op = "remove" THEN "delete" ELSE "db"

(* Two memcpys per entry.                                                  *)
ShmCode(u) ==
  /\ upc[u] = "slots" /\ ~AtEnd(u) /\ Goto(u, "price")
  /\ shm' = [shm EXCEPT !.slots[next[u]].code = Code(u)]
  /\ UNCHANGED <<file, dbVars, serverVars, job, map, order, next, history, bounds>>

ShmPrice(u) ==
  /\ upc[u] = "price" /\ Goto(u, "slots")
  /\ shm' = [shm EXCEPT !.slots[next[u]].rate = map[u][Code(u)]]
  /\ next' = [next EXCEPT ![u] = @ + 1]
  /\ UNCHANGED <<file, dbVars, serverVars, job, map, order, history, bounds>>

ShmDone(u) ==
  /\ upc[u] = "slots" /\ AtEnd(u) /\ Goto(u, AfterShm(u))
  /\ next' = [next EXCEPT ![u] = 1]
  /\ UNCHANGED <<file, shm, dbVars, serverVars, job, map, order, history, bounds>>

(* update_db_from_prices_file: one transaction on a connection of its own. *)
(* A statement refused with SQLITE_BUSY changes nothing and is not         *)
(* repeated.  It is refused while another process writes, which the server *)
(* does for the time of one statement when it handles a frame or inserts a *)
(* seed.                                                                   *)
MayWrite(u)  == lock \in {"none", u}
Refused(u)   == ~MayWrite(u) \/ (lock = "none" /\ spc \in {"idle", "seed_insert"})
Committing   == \E v \in Updaters : upc[v] = "commit"
(* PENDING is held: who has not read the schema yet cannot even prepare.   *)
Shut         == (lock = "server" /\ spc # "apply") \/ Committing
Seen(u)      == IF lock = u THEN draft ELSE table
Line(u)      == [d \in {Code(u)} |-> map[u][Code(u)]]
NextLine(u)  == next' = [next EXCEPT ![u] = @ + 1]

(* Mutant: the INSERT whatever sqlite3_changes says (CommitsAsAssumed).    *)
DbUpdateThenInsert(u) ==
  /\ upc[u] = "db" /\ ~AtEnd(u) /\ MayWrite(u) /\ Goto(u, "insert")
  /\ lock' = u /\ draft' = UpdateRates(Seen(u), Line(u))
  /\ UNCHANGED <<file, shm, table, serverVars, job, map, order, next, history, bounds>>

(* UPDATE: without a row of the code sqlite3_changes is 0, and the INSERT  *)
(* follows ...                                                             *)
DbUpdate(u) ==
  /\ upc[u] = "db" /\ ~AtEnd(u) /\ MayWrite(u)
  /\ lock' = u /\ draft' = UpdateRates(Seen(u), Line(u))
  /\ IF Code(u) \in CodesOf(Seen(u)) THEN NextLine(u) /\ UNCHANGED upc
     ELSE Goto(u, "insert") /\ UNCHANGED next
  /\ UNCHANGED <<file, shm, table, serverVars, job, map, order, history, bounds>>

(* ... as it does when the UPDATE is refused: on this connection nothing   *)
(* has changed a row yet.  Not prepared, the line is skipped.              *)
DbUpdateRefused(u) ==
  /\ upc[u] = "db" /\ ~AtEnd(u) /\ Refused(u)
  /\ \/ (Shut => next[u] > 1) /\ Goto(u, "insert") /\ UNCHANGED next
     \/ Shut /\ NextLine(u) /\ UNCHANGED upc
  /\ UNCHANGED <<file, shm, dbVars, serverVars, job, map, order, history, bounds>>

DbInsert(u) ==
  /\ upc[u] = "insert" /\ Goto(u, "db") /\ NextLine(u)
  /\ \/ /\ MayWrite(u) /\ lock' = u
        /\ draft' = InsertRow(Seen(u), [code |-> Code(u), loc |-> job[u].loc,
                                        rate |-> map[u][Code(u)]])
     \/ Refused(u) /\ UNCHANGED <<draft, lock>>
  /\ UNCHANGED <<file, shm, table, serverVars, job, map, order, history, bounds>>

(* COMMIT, when something was written.                                     *)
DbEnd(u) ==
  /\ upc[u] = "db" /\ AtEnd(u)
  /\ Goto(u, IF lock = u THEN "commit" ELSE "signal")
  /\ UNCHANGED <<file, shm, dbVars, serverVars, job, map, order, next, history, bounds>>

(* remove_city: DELETE, a transaction of its own.                          *)
Delete(u) ==
  /\ upc[u] = "delete"
  /\ \/ /\ lock = "none" /\ lock' = u /\ Goto(u, "commit")
        /\ draft' = DeleteCode(table, job[u].code)
     \/ Refused(u) /\ Goto(u, "signal") /\ UNCHANGED <<draft, lock>>
  /\ UNCHANGED <<file, shm, table, serverVars, job, map, order, next, history, bounds>>

(* PENDING is taken, then the file must have no reader: the server or any  *)
(* other one refuses the commit, and sqlite3_close rolls back.             *)
DbCommit(u) ==
  /\ upc[u] = "commit" /\ Goto(u, "signal")
  /\ \/ ~reading /\ table' = draft
     \/ UNCHANGED table
  /\ lock' = "none" /\ draft' = table'
  /\ UNCHANGED <<file, shm, serverVars, job, map, order, next, history, bounds>>

(* signal_server: server.pid names the last server started; when that one  *)
(* is gone kill fails.  Success is reported in either case.                *)
Signal(u) ==
  /\ upc[u] = "signal" /\ Exit(u)
  /\ flag' = (flag \/ spc # "down")
  /\ UNCHANGED <<file, shm, dbVars, reading, spc, loop, cache, lines, history, bounds>>

(* An updater is killed between two of its steps.                          *)
KillUpdater(u) ==
  /\ ~Idle(u) /\ crashes < MaxCrashes /\ crashes' = crashes + 1
  /\ Exit(u)
  /\ lock' = IF lock = u THEN "none" ELSE lock
  /\ draft' = IF lock = u THEN table ELSE draft
  /\ solo' = Nobody
  /\ UNCHANGED <<file, shm, table, serverVars, steady, runs>>
-----------------------------------------------------------------------------
(* The server's process ends, at any step: memory and locks go with it.    *)
ServerGone ==
  /\ spc' = "down" /\ reading' = FALSE /\ flag' = FALSE
  /\ loop' = NoLoop /\ cache' = <<>> /\ lines' = <<>>
  /\ lock' = IF lock = "server" THEN "none" ELSE lock
  /\ draft' = IF lock = "server" THEN table ELSE draft
  /\ steady' = FALSE

KillServer ==
  /\ spc # "down" /\ crashes < MaxCrashes /\ crashes' = crashes + 1
  /\ ServerGone
  /\ UNCHANGED <<file, shm, table, updVars, solo, runs>>

(* Mutant: the schema is created anew (RowsKept).                          *)
BootFromScratch ==
  /\ spc = "down" /\ spc' = "seed" /\ loop' = [NoLoop EXCEPT !.at = 1]
  /\ lock = "none" /\ table' = <<>> /\ draft' = table'
  /\ UNCHANGED <<file, shm, lock, reading, flag, cache, lines, updVars, history, bounds>>

(* main and init_db: server.pid is written, then the schema is read, which *)
(* a writer that commits refuses.  From here SIGHUP sets the flag: the     *)
(* handlers are installed before main.                                     *)
Boot ==
  /\ spc = "down"
  /\ \/ ~Committing /\ spc' = "seed" /\ loop' = [NoLoop EXCEPT !.at = 1]
     \/ Committing /\ spc' = "failed" /\ UNCHANGED loop
  /\ UNCHANGED <<file, shm, dbVars, reading, flag, cache, lines, updVars, history, bounds>>

(* init_db_schema_and_seed, one city: SELECT COUNT, whose handle holds     *)
(* SHARED to the end of the iteration.  Refused, it leaves cnt at 0 and    *)
(* holds nothing.                                                          *)
SeedFind ==
  /\ spc = "seed" /\ loop.at <= Len(Seeds)
  /\ IF ~Committing /\ HasPlace(table, Seeds[loop.at].loc)
     THEN loop' = [loop EXCEPT !.at = @ + 1] /\ UNCHANGED <<spc, reading>>
     ELSE spc' = "seed_insert" /\ reading' = ~Committing /\ UNCHANGED loop
  /\ UNCHANGED <<file, shm, dbVars, flag, cache, lines, updVars, history, bounds>>

(* INSERT, a transaction of its own; any other process that uses data.db   *)
(* refuses it, and CHECK_SQL waits for Enter.                              *)
SeedInsert ==
  /\ spc = "seed_insert"
  /\ \/ /\ lock = "none" /\ spc' = "seed" /\ loop' = [loop EXCEPT !.at = @ + 1]
        /\ table' = InsertRow(table, Seeds[loop.at]) /\ draft' = table'
        /\ reading' = FALSE
     \/ spc' = "failed" /\ UNCHANGED <<table, draft, reading, loop>>
  /\ UNCHANGED <<file, shm, lock, flag, cache, lines, updVars, history, bounds>>

(* write_prices_file_from_db: truncate ...                                 *)
Generate ==
  /\ spc = "seed" /\ loop.at > Len(Seeds) /\ spc' = "generate" /\ file' = <<>>
  /\ loop' = NoLoop
  /\ UNCHANGED <<shm, dbVars, reading, flag, cache, lines, updVars, history, bounds>>

(* ... then the rows of the table, none when the SELECT is refused.        *)
Generated ==
  /\ spc = "generate" /\ spc' = "load"
  /\ file' = IF Committing THEN file ELSE AsPrinted(TableMap(table))
  /\ UNCHANGED <<shm, dbVars, reading, loop, flag, cache, lines, updVars, history, bounds>>

(* Mutant: returns when BEGIN fails (SoloRunHeals).                        *)
SighupUnlessOpen ==
  /\ spc = "idle" /\ flag /\ spc' = "apply" /\ lines' = file
  /\ IF lock = "none" /\ DOMAIN file # {}
     THEN lock' = "server" /\ draft' = UpdateRates(draft, file)
     ELSE UNCHANGED <<lock, draft>>
  /\ UNCHANGED <<file, shm, table, reading, loop, flag, cache, updVars, history, bounds>>

(* update_db_from_prices_file: the lines are read, then applied in one     *)
(* transaction, which may still be the one of an earlier update; while     *)
(* another process writes they are refused.                                *)
Sighup ==
  /\ spc = "idle" /\ flag /\ spc' = "apply" /\ lines' = file
  /\ IF lock \in {"none", "server"} /\ DOMAIN file # {}
     THEN lock' = "server" /\ draft' = UpdateRates(draft, file)
     ELSE UNCHANGED <<lock, draft>>
  /\ UNCHANGED <<file, shm, table, reading, loop, flag, cache, updVars, history, bounds>>

(* The other process lets go of the file while lines are still to come:    *)
(* only those are applied.                                                 *)
ApplyRest ==
  /\ spc = "apply" /\ lock = "none" /\ lock' = "server"
  /\ \E rest \in (SUBSET DOMAIN lines) \ {{}} : draft' = UpdateRates(table, Restrict(lines, rest))
  /\ UNCHANGED <<file, shm, table, serverVars, updVars, history, bounds>>

(* Mutant: load_prices_from_shm is not called (SoloRunHeals).              *)
AppliedWithoutReload ==
  /\ spc = "apply" /\ spc' = "reset"
  /\ \/ lock = "server" /\ table' = draft /\ lock' = "none"
     \/ UNCHANGED <<table, lock>>
  /\ cache' = Override(cache, lines) /\ lines' = <<>>
  /\ UNCHANGED <<file, shm, draft, reading, loop, flag, updVars, history, bounds>>

(* COMMIT: the server's own SELECTs do not stand in its way, but another   *)
(* reader (show_db.sh, an updater preparing a statement) refuses it, and   *)
(* the transaction stays open.  The INSERT of a code without a row always  *)
(* fails (`city' is NOT NULL), and every line goes to the cache, applied   *)
(* or not.                                                                 *)
Applied ==
  /\ spc = "apply" /\ spc' = "reload"
  /\ \/ lock = "server" /\ table' = draft /\ lock' = "none"
     \/ UNCHANGED <<table, lock>>
  /\ cache' = Override(cache, lines) /\ lines' = <<>>
  /\ UNCHANGED <<file, shm, draft, reading, loop, flag, updVars, history, bounds>>

(* load_prices_from_shm: the cache is cleared, the count read, then entry   *)
(* after entry ...                                                         *)
LoadShm ==
  /\ spc \in {"load", "reload"}
  /\ LET then == IF spc = "load" THEN "idle" ELSE "reset"
         more == shm.made /\ shm.count > 0
     IN /\ spc' = IF ~shm.made THEN "create" ELSE IF more THEN "scan" ELSE then
        /\ loop' = IF more THEN [NoLoop EXCEPT !.count = shm.count, !.at = 1, !.then = then]
                   ELSE [NoLoop EXCEPT !.then = IF shm.made THEN "idle" ELSE then]
        /\ cache' = IF shm.made THEN <<>> ELSE cache
  /\ UNCHANGED <<file, shm, dbVars, reading, flag, lines, updVars, history, bounds>>

(* ... and a segment that does not exist is created empty, whatever an     *)
(* updater has made of it meanwhile; the cache is kept.                    *)
CreateShm ==
  /\ spc = "create" /\ spc' = loop.then /\ loop' = NoLoop
  /\ shm' = [shm EXCEPT !.made = TRUE, !.count = 0]
  /\ UNCHANGED <<file, dbVars, reading, flag, cache, lines, updVars, history, bounds>>

LoadCode ==
  /\ spc = "scan" /\ spc' = "scan_price"
  /\ loop' = [loop EXCEPT !.code = shm.slots[loop.at].code]
  /\ UNCHANGED <<file, shm, dbVars, reading, flag, cache, lines, updVars, history, bounds>>

LoadPrice ==
  /\ spc = "scan_price"
  /\ cache' = Override(cache, [c \in {loop.code} |-> shm.slots[loop.at].rate])
  /\ IF loop.at < loop.count
     THEN spc' = "scan" /\ loop' = [loop EXCEPT !.at = @ + 1, !.code = NoCity]
     ELSE spc' = loop.then /\ loop' = NoLoop
  /\ UNCHANGED <<file, shm, dbVars, reading, flag, lines, updVars, history, bounds>>

(* reset_update_flag, after the reload.                                    *)
ResetFlag ==
  /\ spc = "reset" /\ spc' = "idle" /\ flag' = FALSE
  /\ UNCHANGED <<file, shm, dbVars, reading, loop, cache, lines, updVars, history, bounds>>

(* A frame is handled: it may leave a SELECT at a row or reset the last    *)
(* one, and after a write refused by a writer or a reader CHECK_SQL waits, *)
(* locks held, for Enter before the process exits.                         *)
ServeFrame ==
  /\ spc = "idle" /\ (Committing => reading) /\ reading' = ~reading
  /\ UNCHANGED <<file, shm, dbVars, spc, loop, flag, cache, lines, updVars, history, bounds>>

ServeBusy ==
  /\ spc = "idle" /\ lock # "server" /\ spc' = "failed"
  /\ crashes < MaxCrashes /\ crashes' = crashes + 1
  /\ UNCHANGED <<file, shm, dbVars, reading, loop, flag, cache, lines, updVars, history, runs>>

PressEnter ==
  /\ spc = "failed" /\ ServerGone
  /\ UNCHANGED <<file, shm, table, updVars, solo, bounds>>

Server == \/ Boot \/ SeedFind \/ SeedInsert \/ Generate \/ Generated
          \/ Sighup \/ ApplyRest \/ Applied
          \/ LoadShm \/ CreateShm \/ LoadCode \/ LoadPrice \/ ResetFlag
          \/ ServeFrame \/ ServeBusy \/ PressEnter

Updater(u) ==
  \/ Launch(u) \/ EnterUpdate(u) \/ EnterAdd(u) \/ EnterRemove(u) \/ Decline(u)
  \/ Truncate(u) \/ WriteFile(u) \/ ShmCount(u) \/ ShmCode(u) \/ ShmPrice(u) \/ ShmDone(u)
  \/ DbUpdate(u) \/ DbUpdateRefused(u) \/ DbInsert(u) \/ DbEnd(u) \/ Delete(u) \/ DbCommit(u)
  \/ Signal(u)

Next == \/ \E u \in Updaters : Updater(u) \/ KillUpdater(u)
        \/ Server \/ KillServer

Spec == Init /\ [][Next]_vars
-----------------------------------------------------------------------------
Phases == {"off", "menu", "save", "write", "count", "slots", "price", "db", "insert", "delete",
           "commit", "signal"}
Jobs == [op : {"none", "update", "add", "remove"}, code : Codes \cup {NoCity}, loc : Locs]
Entries == [code : Codes \cup {NoCity}, rate : Rates \cup {0}]
Segments == [made : BOOLEAN, count : 0 .. Cardinality(Codes), slots : [Slots -> Entries]]
Places == {"down", "seed", "seed_insert", "generate", "load", "create", "scan", "scan_price",
           "idle", "apply", "reload", "reset", "failed"}
Loops == [count : 0 .. Cardinality(Codes), at : Nat, code : Codes \cup {NoCity},
          then : {"idle", "reset"}]

(* Every variable keeps its type; the segment never counts more entries    *)
(* than there are cities.                                                  *)
TypeOK ==
  /\ file \in Tariffs /\ shm \in Segments
  /\ IsTable(table) /\ IsTable(draft) /\ lock \in {"none", "server"} \cup Updaters
  /\ reading \in BOOLEAN /\ flag \in BOOLEAN
  /\ spc \in Places /\ loop \in Loops /\ cache \in Cached /\ lines \in Tariffs
  /\ upc \in [Updaters -> Phases] /\ job \in [Updaters -> Jobs]
  /\ map \in [Updaters -> Tariffs] /\ order \in [Updaters -> Seq(Codes)]
  /\ next \in [Updaters -> Nat \ {0}]
  /\ runs \in 0 .. MaxRuns /\ crashes \in 0 .. MaxCrashes
  /\ solo \in Updaters \cup {Nobody} /\ steady \in BOOLEAN

(* Whatever went wrong before (two updaters at once, one killed half way,  *)
(* an entry of the segment read while it was written, a lost SIGHUP), one  *)
(* run that has the system to itself repairs it: once its SIGHUP is        *)
(* handled the server charges exactly the prices that run wrote, even if   *)
(* its own COMMIT was refused, and, unless the server went down meanwhile, *)
(* prices.txt has them as printed, and so has every city of the table, as  *)
(* the server sees it, that is listed there.                               *)
SoloRunHeals ==
  Quiet /\ solo # Nobody =>
    /\ cache = ShmMap(shm)
    /\ steady => /\ file = AsPrinted(cache)
                 /\ \A i \in DOMAIN draft :
                      draft[i].code \in DOMAIN cache =>
                        draft[i].rate = Printed[cache[draft[i].code]]

(* A committed transaction never loses another one's: a row leaves the     *)
(* table only by a DELETE of its code, and never changes its city or place.*)
RowsStay ==
  /\ \A i \in DOMAIN table \cap DOMAIN table' :
       table'[i].code = table[i].code /\ table'[i].loc = table[i].loc
  /\ \A i \in DOMAIN table \ DOMAIN table' :
       \E u \in Updaters :
         upc[u] = "commit" /\ job[u].op = "remove" /\ job[u].code = table[i].code
RowsKept == [][RowsStay]_vars

(* What ParkingSessions assumes of everybody else on data.db is what they  *)
(* do: every commit of an updater, with others writing between its         *)
(* statements, is one of those its environment may make, and the server's  *)
(* own price update and start are as they are there: a seed city is        *)
(* inserted only where none is, unless its SELECT COUNT was refused.       *)
TableStep ==
  table' # table =>
    \/ \E u \in Updaters, m \in Tariffs :
         /\ upc[u] = "commit"
         /\ \E again \in Again(m) : table' \in UpdaterTables(table, m, job[u].loc, again)
    \/ \E u \in Updaters :
         /\ upc[u] = "commit" /\ job[u].op = "remove"
         /\ table' = DeleteCode(table, job[u].code)
    \/ spc = "apply" /\ \E m \in Tariffs : table' = UpdateRates(table, m)
    \/ /\ spc = "seed_insert" /\ table' = InsertRow(table, Seeds[loop.at])
       /\ reading => ~HasPlace(table, Seeds[loop.at].loc)
CommitsAsAssumed == [][TableStep]_vars

(* Once nothing is under way the server charges what shared memory says:   *)
(* "checks for SIGHUP signals to update prices in real-time".  Refuted.    *)
QuietMeansFresh == Quiet => cache = ShmMap(shm)

(* When remove_city signals the server, the city has left the database:    *)
(* "Removes a city from memory, files, DB and signals server."  Refuted by *)
(* a reader: the DELETE is refused and success reported.                   *)
RemovalReachesDb ==
  \A u \in Updaters :
    upc[u] = "signal" /\ job[u].op = "remove" => job[u].code \notin CodesOf(table)
=============================================================================
