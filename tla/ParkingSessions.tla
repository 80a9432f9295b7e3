-------------------------- MODULE ParkingSessions ---------------------------
(***************************************************************************)
(* The server's frame handler (the body of the inner loop of               *)
(* Server::run_loop) over the table customer_data.                         *)
(*                                                                         *)
(* The server is one thread: `pc' is where it stands in the handler, and   *)
(* every SQL statement is a step of its own, because other processes work  *)
(* on the same file between two statements.  What a statement leaves       *)
(* behind matters too: a SELECT that returned a row is not reset before    *)
(* its next use and keeps the connection's SHARED lock (`reading'), and a  *)
(* COMMIT that meets another reader fails and leaves the transaction open  *)
(* (`tx'): from then on the server works on a database of its own, which   *)
(* reaches the file with a later COMMIT or is lost when the process ends.  *)
(* The environment is PRICE_UPDATER (a transaction or a DELETE that takes  *)
(* the lock, commits or gives up), any reader of the file, the wall clock, *)
(* SIGHUP between two frames, and a crash or stop between any two steps,   *)
(* after which a new process seeds the table prices, city by city, and     *)
(* loads the prices.                                                       *)
(***************************************************************************)
EXTENDS PriceTable, SqliteLock, Sequences

CONSTANTS
  Customers,       \* device ids
  NoFrame,         \* no frame is being handled
  Loads,           \* what loading the segment may leave in prices_cache
  TicksPerSecond,  \* resolution of the wall clock
  SecondsPerMinute,
  MaxRows,         \* bound: rows of customer_data
  MaxPrices,       \* bound: rowids of prices
  MaxClock,        \* bound: ticks of the wall clock
  MaxShifts        \* bound: times the wall clock is set back

(* Any entry may be read while it is written (PricePropagation).           *)
ASSUME LoadsAssumption == Loads \subseteq Cached
ASSUME TicksAssumption == TicksPerSecond \in Nat \ {0} /\ SecondsPerMinute \in Nat \ {0}
ASSUME BoundsAssumption ==
  MaxRows \in Nat /\ MaxPrices \in Nat /\ MaxClock \in Nat /\ MaxShifts \in Nat

VARIABLES
  rows,      \* customer_data as the server sees it; the rowid is the index
  prices,    \* table prices as the server sees it
  tx,        \* a transaction of the server was left open by a refused COMMIT
  disk,      \* both tables as committed to data.db
  cache,     \* prices_cache
  clock,     \* local wall clock, in ticks
  shifts,    \* how often the wall clock was set back (history)
  lock,      \* what another process holds on data.db
  reading,   \* the server's SELECTs left at a row
  pc,        \* where the server stands
  frame,     \* the gps_frame being handled
  city,      \* local city_code
  target,    \* local rowid, 0 when unset
  minutes,   \* local parking_minutes
  rate,      \* local price_per_hour
  seed,      \* the seed city init_db is at, 0 when it is not seeding
  acks       \* rows whose "OK CLOSED" was sent and not rolled back (history)

db       == <<rows, prices>>
locals   == <<frame, city, target, minutes, rate, seed>>
others   == <<lock, clock, shifts>>
durable  == <<tx, disk>>
vars     == <<db, durable, cache, others, reading, pc, locals, acks>>

CLOSE == 0
OPEN  == 1
Statuses == {CLOSE, OPEN, 2}     \* 2: any status the handler ignores

Frames == [cust: Customers, loc: Locs, status: Statuses]
ASSUME NoFrameAssumption == NoFrame \notin Frames
Clock  == 0 .. MaxClock
Statements == {"seed_find", "find_city", "check_open", "find_open", "price"}
Steps == {"find_city", "check_open", "insert", "find_open", "minutes",
          "price", "update_close", "reply"}
Starting == {"seed_find", "seed_insert", "load"}

Rows == [cust: Customers, code: Codes \cup {NoCity}, loc: Locs,
         status: {OPEN, CLOSE}, created: Clock, ended: Clock,
         minutes: Int, fee: Int]

(* (Definitions whose comment starts with "Mutant" are used by no module:  *)
(* each is a plausible bug in the definition that follows it, and breaks   *)
(* the property named.)                                                    *)

(* Mutant: minutes are rounded up (NoOvercharge).                          *)
DivRoundUp(a, b) == -((-a) \div b)

(* SQL's integer division truncates towards zero.                          *)
DivTrunc(a, b) == IF a >= 0 THEN a \div b ELSE -((-a) \div b)

(* Mutant: no `status = 1' in the WHERE clause (BillsAreFinal).            *)
RowsOfAnyStatus(cust, code, loc) ==
  {i \in DOMAIN rows : rows[i].cust = cust /\ rows[i].code = code /\ rows[i].loc = loc}

(* The rows check_open and find_open select.                               *)
OpenRows(cust, code, loc) ==
  {i \in DOMAIN rows : /\ rows[i].cust = cust /\ rows[i].code = code
                       /\ rows[i].loc = loc /\ rows[i].status = OPEN}

(* ORDER BY created_at DESC LIMIT 1.                                       *)
Latest(S) == {i \in S : \A j \in S : rows[j].created <= rows[i].created}

ClosedIn(rs) == {i \in DOMAIN rs : rs[i].status = CLOSE}

(* A reader of this connection, or its open transaction, holds SHARED; the *)
(* open transaction also holds RESERVED.                                   *)
MayRead(still) == tx \/ CanRead(still, lock)
MayWrite       == tx \/ CanWrite(lock)

(* A write of the server is committed at once, unless a transaction is open. *)
Save == disk' = IF tx' THEN disk ELSE [rows |-> rows', prices |-> prices']

(* strftime('%s') leaves the milliseconds of a timestamp out.              *)
Sec(t) == t \div TicksPerSecond
-----------------------------------------------------------------------------
Init ==
  /\ rows = <<>> /\ prices = Seeds /\ cache \in Loads
  /\ tx = FALSE /\ disk = [rows |-> rows, prices |-> prices]
  /\ clock = 0 /\ shifts = 0 /\ lock = "none" /\ reading = {}
  /\ pc = "idle" /\ acks = {}
  /\ frame = NoFrame
  /\ city = NoCity /\ target = 0 /\ minutes = 0 /\ rate = 0 /\ seed = 0

(* Mutant: rowid outlives the frame (TypeOK).                              *)
LeaveKeepsRowid(next) ==
  /\ pc' = next /\ frame' = NoFrame
  /\ city' = NoCity /\ target' = target /\ minutes' = 0 /\ rate' = 0 /\ seed' = 0

(* The handler's locals go out of scope.                                   *)
Leave(next) ==
  /\ pc' = next /\ frame' = NoFrame
  /\ city' = NoCity /\ target' = 0 /\ minutes' = 0 /\ rate' = 0 /\ seed' = 0

(* The next seed city, or the loading of the segment after the last.       *)
NextSeed(n) ==
  /\ seed' = IF n <= Len(Seeds) THEN n ELSE 0
  /\ pc' = IF n <= Len(Seeds) THEN "seed_find" ELSE "load"

(* CHECK_SQL: the handler is left for good, but the process waits for      *)
(* Enter before it exits, and keeps its locks.                             *)
Fail == Leave("failed") /\ UNCHANGED <<db, durable, reading>>

(* run_loop reads a whole frame and decodes it.                            *)
Receive(f) ==
  /\ pc = "idle"
  /\ f.status = OPEN => Len(rows) < MaxRows
  /\ pc' = "find_city" /\ frame' = f
  /\ UNCHANGED <<db, durable, cache, others, reading, city, target, minutes, rate, seed,
                 acks>>

(* stmt_find_city_ is reset and stepped: at a row it goes on reading, and  *)
(* both `no row' and SQLITE_BUSY leave city_code at 0.                     *)
AfterCity == CASE frame.status = OPEN  -> "check_open"
               [] frame.status = CLOSE -> "find_open"
               [] OTHER                -> "idle"

(* Mutant: the statement is reset after its use (OneOpenPerCity,           *)
(* BilledAtPriceInForce: the code is read while others may commit).        *)
FindCityReset ==
  /\ pc = "find_city"
  /\ LET still == reading \ {"find_city"}
         found == IF MayRead(still) THEN CityAt(prices, frame.loc) ELSE {}
     IN /\ city' \in (IF found = {} THEN {NoCity} ELSE found)
        /\ reading' = still
  /\ pc' = AfterCity
  /\ frame' = IF pc' = "idle" THEN NoFrame ELSE frame
  /\ UNCHANGED <<db, durable, cache, others, target, minutes, rate, seed, acks>>

FindCity ==
  /\ pc = "find_city"
  /\ LET still == reading \ {"find_city"}
         found == IF MayRead(still) THEN CityAt(prices, frame.loc) ELSE {}
     IN \/ \E c \in found : city' = c /\ reading' = still \cup {"find_city"}
        \/ found = {} /\ city' = NoCity /\ reading' = still
  /\ pc' = AfterCity
  /\ frame' = IF pc' = "idle" THEN NoFrame ELSE frame
  /\ UNCHANGED <<db, durable, cache, others, target, minutes, rate, seed, acks>>

(* Mutant: no check (ImplementsLedger, NoTimeBilledTwice).                 *)
CheckOpenSkipped ==
  /\ pc = "check_open" /\ pc' = "insert"
  /\ UNCHANGED <<db, durable, cache, others, reading, locals, acks>>

(* stmt_check_open_: only a row means `already open'; BUSY does not.       *)
CheckOpen ==
  /\ pc = "check_open"
  /\ LET still == reading \ {"check_open"}
         open  == MayRead(still) /\ OpenRows(frame.cust, city, frame.loc) # {}
     IN \/ /\ open
           /\ Leave("idle") /\ reading' = still \cup {"check_open"}
        \/ /\ ~open
           /\ pc' = "insert" /\ reading' = still
           /\ UNCHANGED locals
  /\ UNCHANGED <<db, durable, cache, others, acks>>

NewRow == [cust |-> frame.cust, code |-> city, loc |-> frame.loc, status |-> OPEN,
           created |-> clock, ended |-> clock, minutes |-> 0, fee |-> 0]

(* Mutant: inserted in a transaction nobody commits (ViewAhead).           *)
InsertUncommitted ==
  /\ pc = "insert"
  /\ \/ /\ MayWrite
        /\ rows' = Append(rows, NewRow)
        /\ Leave("idle") /\ UNCHANGED <<prices, durable, reading>>
     \/ ~MayWrite /\ Fail
  /\ UNCHANGED <<cache, others, acks>>

(* stmt_insert_open_; SQLITE_BUSY is CHECK_SQL's business.                 *)
Insert ==
  /\ pc = "insert"
  /\ \/ /\ MayWrite
        /\ rows' = Append(rows, NewRow)
        /\ Leave("idle") /\ UNCHANGED <<prices, tx, reading>> /\ Save
     \/ ~MayWrite /\ Fail
  /\ UNCHANGED <<cache, others, acks>>

(* stmt_find_open_: without a row (or with BUSY) the frame is dropped.     *)
FindOpen ==
  /\ pc = "find_open"
  /\ LET still == reading \ {"find_open"}
         open  == IF MayRead(still)
                  THEN Latest(OpenRows(frame.cust, city, frame.loc)) ELSE {}
     IN \/ \E i \in open : /\ target' = i /\ pc' = "minutes"
                           /\ reading' = still \cup {"find_open"}
                           /\ UNCHANGED <<frame, city, minutes, rate, seed>>
        \/ open = {} /\ Leave("idle") /\ reading' = still
  /\ UNCHANGED <<db, durable, cache, others, acks>>

(* stmt_minutes_ touches no table: the difference of two times, each in    *)
(* whole seconds.                                                          *)
Minutes ==
  /\ pc = "minutes" /\ pc' = "price"
  /\ minutes' = DivTrunc(Sec(clock) - Sec(rows[target].created), SecondsPerMinute)
  /\ UNCHANGED <<db, durable, cache, others, reading, frame, city, target, rate, seed,
                 acks>>

(* Mutant: the price is looked up in prices_cache only (HandlerInv).       *)
PriceFromCache ==
  /\ pc = "price" /\ pc' = "update_close"
  /\ rate' = IF city \in DOMAIN cache THEN cache[city] ELSE 0
  /\ UNCHANGED <<db, durable, cache, others, reading, frame, city, target, minutes, seed,
                 acks>>

(* stmt_price_, 0.0 without a row; a price in prices_cache comes first.    *)
Price ==
  /\ pc = "price" /\ pc' = "update_close"
  /\ LET still == reading \ {"price"}
         row   == MayRead(still) /\ city \in CodesOf(prices)
     IN /\ reading' = IF row THEN still \cup {"price"} ELSE still
        /\ \/ city \in DOMAIN cache /\ rate' = cache[city]
           \/ city \notin DOMAIN cache /\ row /\ rate' \in RateOf(prices, city)
           \/ city \notin DOMAIN cache /\ ~row /\ rate' = 0
  /\ UNCHANGED <<db, durable, cache, others, frame, city, target, minutes, seed, acks>>

(* stmt_update_close_.  The fee is kept as rate times minutes: rounding to *)
(* cents and the division by 60 are monotone in it.                        *)
Billed(r) ==
  [cust |-> r.cust, code |-> r.code, loc |-> r.loc, status |-> CLOSE,
   created |-> r.created, ended |-> clock, minutes |-> minutes, fee |-> rate * minutes]

(* Mutant: no CHECK_SQL after the UPDATE (AckedAfterClose).                *)
UpdateCloseUnchecked ==
  /\ pc = "update_close" /\ pc' = "reply"
  /\ rows' = IF MayWrite THEN [rows EXCEPT ![target] = Billed(@)] ELSE rows
  /\ UNCHANGED <<prices, tx, cache, others, reading, locals, acks>> /\ Save

UpdateClose ==
  /\ pc = "update_close"
  /\ \/ /\ MayWrite
        /\ rows' = [rows EXCEPT ![target] = Billed(@)]
        /\ pc' = "reply"
        /\ UNCHANGED <<prices, tx, reading, locals>> /\ Save
     \/ ~MayWrite /\ Fail
  /\ UNCHANGED <<cache, others, acks>>

(* send(client, "OK CLOSED\n").                                            *)
Reply ==
  /\ pc = "reply" /\ acks' = acks \cup {target} /\ Leave("idle")
  /\ UNCHANGED <<db, durable, cache, others, reading>>

(* SIGHUP, seen between two frames: BEGIN, an UPDATE for each line of      *)
(* prices.txt (refused while another process writes), COMMIT; then         *)
(* prices_cache becomes what is read from shared memory, entry by entry    *)
(* while an updater may write it.  An UPDATE that meets no row is followed *)
(* by an INSERT without the NOT NULL column `city', which always fails: no *)
(* row is ever added.  COMMIT's result is only printed: refused by another *)
(* reader it leaves the transaction open.  The next BEGIN then fails, its  *)
(* updates join the open transaction, and its COMMIT commits everything    *)
(* since.                                                                  *)
ApplyPriceChange(lines, shm) ==
  /\ pc = "idle"
  /\ prices' = IF tx \/ lock \in {"none", "shared"}
               THEN UpdateRates(prices, lines) ELSE prices
  /\ tx' = (lock = "shared" /\ (tx \/ DOMAIN lines # {}))
  /\ cache' = shm
  /\ UNCHANGED <<rows, others, reading, pc, locals, acks>> /\ Save

(* The process ends between two steps: a signal, a kill, a fault, Enter    *)
(* after CHECK_SQL.  Its memory and its locks go with it, and what it had  *)
(* not committed is rolled back.                                           *)
Crash ==
  /\ pc # "down" /\ Leave("down") /\ reading' = {}
  /\ tx' = FALSE /\ rows' = disk.rows /\ prices' = disk.prices
  /\ cache' = <<>> /\ acks' = acks \cap ClosedIn(disk.rows)
  /\ UNCHANGED <<disk, others>>

(* A new process, init_db: the schema is read ...                          *)
Boot ==
  /\ pc = "down"
  /\ \/ /\ MayRead({}) /\ NextSeed(1)
        /\ UNCHANGED <<db, durable, reading, frame, city, target, minutes, rate>>
     \/ ~MayRead({}) /\ Fail
  /\ UNCHANGED <<cache, others, acks>>

(* ... then init_db_schema_and_seed takes one city after the other.  Its   *)
(* SELECT COUNT always returns a row, so it is left reading; refused, it   *)
(* leaves cnt at 0.                                                        *)
SeedFind ==
  /\ pc = "seed_find"
  /\ \/ /\ MayRead({}) /\ HasPlace(prices, Seeds[seed].loc)
        /\ NextSeed(seed + 1) /\ UNCHANGED reading
     \/ /\ MayRead({}) => ~HasPlace(prices, Seeds[seed].loc)
        /\ pc' = "seed_insert" /\ UNCHANGED seed
        /\ reading' = IF MayRead({}) THEN {"seed_find"} ELSE {}
  /\ UNCHANGED <<db, durable, cache, others, frame, city, target, minutes, rate, acks>>

SeedInsert ==
  /\ pc = "seed_insert"
  /\ \/ /\ MayWrite /\ LastId(prices) < MaxPrices
        /\ prices' = InsertRow(prices, Seeds[seed])
        /\ NextSeed(seed + 1) /\ reading' = {}
        /\ UNCHANGED <<rows, tx, frame, city, target, minutes, rate>> /\ Save
     \/ ~MayWrite /\ Fail
  /\ UNCHANGED <<cache, others, acks>>

(* load_prices_from_shm, before the first frame.                           *)
LoadShm(shm) ==
  /\ pc = "load" /\ Leave("idle") /\ cache' = shm
  /\ UNCHANGED <<db, durable, others, reading, acks>>
-----------------------------------------------------------------------------
(* Other processes on data.db (the server's open transaction holds PENDING, *)
(* which keeps them all away): a reader (show_db.sh, or the updater before *)
(* its first write), the updater's write transaction, its attempt to       *)
(* commit, the commit, and the end of the connection without one.          *)
OtherReads ==
  /\ lock = "none" /\ ~tx /\ lock' = "shared"
  /\ UNCHANGED <<db, durable, cache, clock, shifts, reading, pc, locals, acks>>

UpdaterWrites ==
  /\ lock \in {"none", "shared"} /\ ~tx /\ lock' = "reserved"
  /\ UNCHANGED <<db, durable, cache, clock, shifts, reading, pc, locals, acks>>

UpdaterCommits ==
  /\ lock = "reserved" /\ lock' = "pending"
  /\ UNCHANGED <<db, durable, cache, clock, shifts, reading, pc, locals, acks>>

UpdaterDone(table) ==
  /\ lock = "pending" /\ CanCommit(reading) /\ lock' = "none"
  /\ DOMAIN table \subseteq 1 .. MaxPrices
  /\ prices' = table
  /\ UNCHANGED <<rows, tx, cache, clock, shifts, reading, pc, locals, acks>> /\ Save

OtherCloses ==
  /\ lock # "none" /\ lock' = "none"
  /\ UNCHANGED <<db, durable, cache, clock, shifts, reading, pc, locals, acks>>

(* The local wall clock runs, and NTP or the end of summer time sets it back. *)
Tick ==
  /\ clock < MaxClock /\ clock' = clock + 1
  /\ UNCHANGED <<db, durable, cache, shifts, lock, reading, pc, locals, acks>>

SetBack ==
  /\ shifts < MaxShifts /\ shifts' = shifts + 1
  /\ clock' \in {t \in Clock : t < clock}
  /\ UNCHANGED <<db, durable, cache, lock, reading, pc, locals, acks>>

Handle == \/ FindCity \/ CheckOpen \/ Insert \/ FindOpen
          \/ Minutes \/ Price \/ UpdateClose \/ Reply

Environment ==
  \/ OtherReads \/ UpdaterWrites \/ UpdaterCommits \/ OtherCloses
  \/ \E m \in Tariffs, l \in Locs : \E again \in Again(m) :
       \E t \in UpdaterTables(prices, m, l, again) : UpdaterDone(t)
  \/ \E c \in Codes : UpdaterDone(DeleteCode(prices, c))
  \/ Tick \/ SetBack

Next ==
  \/ \E f \in Frames : Receive(f)
  \/ Handle
  \/ \E lines \in Tariffs, shm \in Loads : ApplyPriceChange(lines, shm)
  \/ Crash \/ Boot \/ SeedFind \/ SeedInsert
  \/ \E shm \in Loads : LoadShm(shm)
  \/ Environment

Spec == Init /\ [][Next]_vars
-----------------------------------------------------------------------------
(* Every variable keeps its type.                                          *)
TypeOK ==
  /\ rows \in Seq(Rows) /\ IsTable(prices) /\ cache \in Cached
  /\ tx \in BOOLEAN /\ disk = [rows |-> disk.rows, prices |-> disk.prices]
  /\ disk.rows \in Seq(Rows) /\ IsTable(disk.prices)
  /\ clock \in Clock /\ shifts \in Nat /\ lock \in LockLevels
  /\ reading \subseteq Statements
  /\ pc \in Steps \cup Starting \cup {"idle", "failed", "down"}
  /\ seed \in 0 .. Len(Seeds) /\ (pc \in {"seed_find", "seed_insert"} <=> seed # 0)
  /\ frame \in Frames \cup {NoFrame} /\ city \in Codes \cup {NoCity}
  /\ target \in {0} \cup DOMAIN rows
  /\ minutes \in Int /\ rate \in Rates \cup {0} /\ acks \subseteq Nat

(* Two rows are the same session: one customer, one city code, one place.  *)
SameSession(r, s) == r.cust = s.cust /\ r.code = s.code /\ r.loc = s.loc

TwiceOpen(rs, i, j) ==
  i # j /\ rs[i].status = OPEN /\ rs[j].status = OPEN

OneOpenIn(rs) ==
  \A i, j \in DOMAIN rs :
    TwiceOpen(rs, i, j) /\ SameSession(rs[i], rs[j]) => rs[i].code = NoCity

(* A customer has at most one open session for a known city and place, in  *)
(* the file as in the server's view, whatever START frames repeat, whoever *)
(* works on data.db between check_open and insert, and wherever the server *)
(* dies.                                                                   *)
OneOpenPerCity == OneOpenIn(rows) /\ OneOpenIn(disk.rows)

(* The price of a city, whenever it is looked up: prices_cache first.      *)
PriceInForce(c) == IF c \in DOMAIN cache THEN {cache[c]} ELSE RateOf(prices, c)

(* What the handler may rely on between two statements, although others    *)
(* work on data.db: a known city was found by a statement that still reads *)
(* (so no other process can commit and the city stays in the table), no    *)
(* session of this customer there is open when one is about to be          *)
(* inserted, and the row about to be closed is an open session of this     *)
(* frame's customer, city and place, at the price in force if the city is  *)
(* known.  A seed city counted as missing is missing when it is inserted.  *)
CityHeld ==
  pc \in {"check_open", "insert", "find_open", "minutes", "price", "update_close"}
  /\ city # NoCity
    => "find_city" \in reading /\ city \in CodesOf(prices)

HandlerInv ==
  /\ pc \in Steps => frame \in Frames
  /\ CityHeld
  /\ pc = "insert" /\ city # NoCity => OpenRows(frame.cust, city, frame.loc) = {}
  /\ pc \in {"minutes", "price", "update_close"}
       => target \in OpenRows(frame.cust, city, frame.loc)
  /\ pc = "update_close" /\ city # NoCity => rate \in PriceInForce(city)
  /\ pc = "reply" => target \in ClosedIn(rows)
  /\ pc = "seed_insert" /\ reading # {} => ~HasPlace(prices, Seeds[seed].loc)

(* A session in a known city is billed at the price in force when it is    *)
(* closed, whoever works on data.db meanwhile: the price in prices_cache,  *)
(* whatever the segment held when it was loaded, or else the city's price  *)
(* in the table.  It never falls through to the 0.0 of a missing row: the  *)
(* city cannot leave the table between find_city and price, because the    *)
(* statement left at its row keeps the updater from committing.            *)
BilledStep ==
  \A i \in DOMAIN rows \cap DOMAIN rows' :
    rows[i].status = OPEN /\ rows'[i].status = CLOSE /\ rows[i].code # NoCity
      => \E q \in PriceInForce(rows[i].code) : rows'[i].fee = q * rows'[i].minutes
BilledAtPriceInForce == [][BilledStep]_vars

(* While the wall clock was never set back, no bill has a negative number  *)
(* of minutes or, but for less than a second, more than lie between        *)
(* created_at and ended_at.                                                *)
NoOvercharge ==
  shifts = 0 =>
    \A i \in ClosedIn(rows) :
      /\ 0 <= rows[i].minutes
      /\ rows[i].minutes * SecondsPerMinute * TicksPerSecond
           < (rows[i].ended - rows[i].created) + TicksPerSecond

(* While the wall clock was never set back, no time of a customer at a     *)
(* place in a known city is billed twice: a session begins only when the   *)
(* one before it has ended, whichever STARTs were repeated and whichever   *)
(* STOPs were lost (the next STOP then ends the session, not a second row). *)
Apart(rs) ==
  \A i, j \in DOMAIN rs :
    i < j /\ SameSession(rs[i], rs[j]) /\ rs[i].code # NoCity
      => rs[i].status = CLOSE /\ rs[i].ended <= rs[j].created

NoTimeBilledTwice == shifts = 0 => Apart(rows) /\ Apart(disk.rows)

(* From an older customer_data to a newer one no row is lost, changes      *)
(* whose, where and when it is, is reopened, or has its bill rewritten.    *)
Kept(old, new) ==
  /\ DOMAIN old \subseteq DOMAIN new
  /\ \A i \in DOMAIN old :
       /\ SameSession(old[i], new[i]) /\ new[i].created = old[i].created
       /\ old[i].status = CLOSE => new[i] = old[i]

(* The server's view is never behind the file, and differs from it only    *)
(* while its transaction is open; then nobody else is about to write, so   *)
(* that a later COMMIT or a roll-back is consistent with both.             *)
ViewAhead ==
  /\ Kept(disk.rows, rows)
  /\ ~tx => disk = [rows |-> rows, prices |-> prices]
  /\ tx => lock \in {"none", "shared"} /\ pc # "down"

(* What is committed stays: no frame, commit, roll-back or restart loses,  *)
(* reopens or rewrites a bill of data.db.                                  *)
BillsAreFinal == [][Kept(disk.rows, disk.rows')]_vars

(* "OK CLOSED" is sent only for a session that is closed in the server's   *)
(* view of the database: it never precedes the UPDATE.                     *)
AckedAfterClose == acks \subseteq ClosedIn(rows)

(* "OK CLOSED" is sent only for a session closed in data.db.  Refuted: a   *)
(* COMMIT refused long ago keeps everything since in an open transaction,  *)
(* which is rolled back when the process ends.                             *)
AckedIsDurable == acks \subseteq ClosedIn(disk.rows)
-----------------------------------------------------------------------------
(* The sessions in known cities, as the ledger sees them.                  *)
SessionOf(r) == [cust |-> r.cust, code |-> r.code, loc |-> r.loc]
BillOf(r)    == [session |-> SessionOf(r), minutes |-> r.minutes, fee |-> r.fee]

Known(rs, status) == {i \in DOMAIN rs : rs[i].code # NoCity /\ rs[i].status = status}

LedgerOf(rs) == [open  |-> [i \in Known(rs, OPEN)  |-> SessionOf(rs[i])],
                 bills |-> [i \in Known(rs, CLOSE) |-> BillOf(rs[i])]]

Ledger == INSTANCE SessionLedger WITH
            book <- LedgerOf(rows), firm <- LedgerOf(disk.rows), loose <- tx

(* Every step of the handler, of its environment and of a crash is a step  *)
(* of the ledger or leaves it alone.                                       *)
ImplementsLedger == Ledger!LedgerSpec
=============================================================================
