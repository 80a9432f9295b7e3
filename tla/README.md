# Parking system: TLA+ models, checks and proofs

A device simulates a car's parking sensor and sends START and STOP frames with a
position; a server keeps the sessions in SQLite and bills them; an operator
changes prices while all this runs. The programs are small, and almost all that
can go wrong in them lies between processes: SQLite's locks, signals, a byte
stream without markers, four copies of the prices, and daemons that start in an
order nobody enforces. That is what this project models.

Line numbers refer to the repository's files; `server.cpp` is
`server/server.cpp`, and so on.

## 1. The system

| component | state it keeps | operations | talks to |
|---|---|---|---|
| **STM32 generator** (`stm32/.../my_project/Src`) | cyclic index into ten coordinates, `data_ready` | fill a frame, raise the data-ready pin, blocking I2C transmit; START, wait, STOP, wait | I2C_DAEMON (pin and bus) |
| **I2C_DAEMON** (`BeagleBone/i2c_demon`) | descriptors of GPIO, bus and FIFO | wait for the edge, read 12 bytes, convert, write a `gps_frame` to the FIFO | CLIENT_DAEMON (FIFO) |
| **CLIENT_DAEMON** (`BeagleBone/tcp_client_demon`) | FIFO and socket | poll, read a frame from the FIFO, write it to the socket | SERVER (TCP) |
| **start script** (`BeagleBone/service`) | none | start the client, then the I2C daemon | both daemons |
| **SERVER** (`server/server.cpp`, `main.cpp`, `utils.cpp`) | one connection, prepared statements, `prices_cache`, flags set by signals; tables `prices` and `customer_data` | accept, read a frame, find the city, open or close a session, reload prices on SIGHUP, seed at start | CLIENT_DAEMON, SQLite, shared memory, `prices.txt`, `server.pid` |
| **PRICE_UPDATER** (`server/price_updater.cpp`) | a map read from `prices.txt` | change a price, add a city, remove a city: file, segment, table, SIGHUP | the same stores, SERVER |
| **show_db.sh** | none | reads all tables | SQLite |

Prices live in four places: the table `prices`, the file `prices.txt`, the
shared memory segment `/prices_shm`, and the server's `prices_cache`. Only the
table has a lock.

### What is hard about it

* **SQLite's locks.** Server and updater use the default rollback journal and no
  busy timeout, so a lock that is not free is `SQLITE_BUSY` at once, and every
  statement treats it in its own way: `find_city` takes it for "no city",
  `check_open` for "not open", `find_open` drops the frame, INSERT and UPDATE end
  the server (after somebody presses Enter; its locks stay until then), the price
  update's COMMIT prints a message and goes on *with its transaction still open*.
* **Statements left at a row.** The server steps a SELECT once and resets it only
  before its next use, so it keeps SHARED between frames. That refuses every
  commit of the updater, and it is also the only thing that keeps a city in the
  table while a frame of that city is being handled.
* **Signals.** SIGHUP only sets a flag; it is looked at before every `recv`, in
  the middle of a frame too, and cleared after the reload.
* **Stores changed one after another** by a process that may be killed, may run
  twice, and is told "success" whatever happened. The segment has no lock: count,
  code and price are copied one by one, and read one by one.
* **Crashes and restarts** of the server between any two statements. A start seeds
  ten cities in ten transactions, each after a SELECT COUNT whose refusal is taken
  for "missing".
* **The byte stream** has no frame markers and is read in pieces.
* **The clock** is the local wall clock, cut to whole seconds before times are
  subtracted, and may be set back.
* **The device chain** has no acknowledgement from end to end and no second
  attempt anywhere. Two daemons and a device wait for each other through a pin's
  edge, a blocking I2C transmit, the two `open`s of a FIFO and a TCP connection,
  and any of them may end, overflow or be restarted; and the server may keep its
  connection without reading it.
* **Byte order**: a frame is turned around or swapped five times on three
  machines.

`PROJECT.json` lists these hazards one by one, at their lines, with the
properties that would catch them.

### What makes each component correct

* Handler: a session is opened once, closed once, at the price in force; no time
  is billed twice; nothing committed is lost or rewritten; the client is answered
  after the fact.
* Price distribution: once a change has been made and handled, all copies agree
  (up to the digits `prices.txt` keeps); what went wrong before is repaired; a row
  leaves the table only when removed.
* Stream: the handler sees the client's frames, whole, in order, without delay.
* Wire format: the id, status and coordinates the server computes are the
  device's, and a frame cut off on the bus is not taken for one of the device.
* Device chain: frames arrive in order and none twice; one is lost only at the
  places where it may be; while the chain is up an offered frame arrives; nobody
  waits for somebody who waits, but for the known reasons.

## 2. The modules

| module | models |
|---|---|
| `SqliteLock` | who may read, write and commit, given what the other process holds |
| `PriceTable` | table `prices` as a function from rowids, and the operators for the SQL that reads and changes it |
| `ParkingSessions` | the server's frame handler over `customer_data`, with every other process on `data.db` as environment |
| `SessionLedger` | abstract specification: what the server promises about paid sessions |
| `PricePropagation` | updaters, the four copies of the prices, the server's start and SIGHUP handling |
| `FrameStream` | TCP's byte stream and `read_n_nonblocking` |
| `WireFormat` | the twelve bytes of a `gps_frame` through every conversion |
| `DeviceChain` | STM32, I2C_DAEMON, FIFO, CLIENT_DAEMON, TCP connection and start script |
| `LossyChannel` | abstract specification: what the chain promises of its frames |
| `MCParkingSessions`, `MCPricePropagation`, `MCDeviceChain` | small instances for TLC |
| `PriceTableProofs`, `PricePropagationProofs`, `ParkingSessionsProofs`, `ParkingLedgerProofs`, `ParkingBillingProofs`, `FrameStreamProofs`, `WireFormatProofs`, `DeviceChainProofs` | theorems and proofs |

`ParkingSessions` and `PricePropagation` share `PriceTable`; each holds the other
as its environment, cut to what it can do to the shared state (a table that
changes by a commit; a server that reads, is refused or updates prices). That the
environment of `ParkingSessions` is wide enough is a property of
`PricePropagation`, `CommitsAsAssumed`, checked and proved.
`DeviceChain` extends `WireFormat` and hands whole frames to the server;
`FrameStream` looks at the last stretch, client to server, byte by byte.

Definitions whose comment starts with "Mutant" are used by nothing: each is a
plausible bug of the definition after it, kept to show that the property it names
notices (`mutants` in `PROJECT.json`).

### ParkingSessions

`pc` is where the single server thread stands; one action per SQL statement,
because other processes work on the file between two statements:

| action | code |
|---|---|
| `Receive` | a decoded frame (server.cpp:590-601); any customer, place and status |
| `FindCity`, `CheckOpen`, `Insert` | 603-610, 614-623, 626-636 |
| `FindOpen`, `Minutes`, `Price`, `UpdateClose`, `Reply` | 645-655, 658-663, 666-674, 677-687, 691-692 |
| `ApplyPriceChange` | 508-514, 554-560, 572-580 with 237-298 |
| `Crash`, `Boot` | any end of the process; `init_db` (342-365) up to the schema |
| `SeedFind`, `SeedInsert` | `init_db_schema_and_seed`, city by city (utils.cpp:246-259, 259-278) |
| `LoadShm` | 493: the segment before the first frame |
| `OtherReads`, `UpdaterWrites`, `UpdaterCommits`, `UpdaterDone`, `OtherCloses` | the other process's lock and what its commit does to `prices` |
| `Tick`, `SetBack` | the local wall clock |

`rows` and `prices` are the tables as the server's connection sees them, `disk`
what is committed, and `tx` says that a refused COMMIT left a transaction open:
then the two may differ, later statements of the server join it, and the end of
the process throws the difference away. `reading` is the set of SELECTs left at
a row. After `CHECK_SQL` fails `pc = "failed"`: the process waits for Enter with
its locks. `seed` is the city a starting server is at. `acks` (history) is the
set of rows for which "OK CLOSED" was sent, without those rolled back.

Abstracted: coordinates are members of a small set (the code rounds to three
decimals and compares with tolerance 0.0001, which between rounded values is
equality); the fee is `rate * minutes`; names and log lines are left out. A tick
of `clock` is a `TicksPerSecond`-th of a second: `Minutes` cuts both times to
whole seconds (`Sec`, `strftime('%s')`) before it subtracts them, and divides by
`SecondsPerMinute`. `Loads` is what reading the segment may leave in
`prices_cache`: any subset of `Cached`, whose entries may have the price 0 or the
code 0 of memory not yet written, and `Rates` are any integers (`price_updater`
asks for no more). An INSERT of a price by the server itself always fails (`city`
is NOT NULL, utils.cpp:203) and is therefore not a change.

A SELECT COUNT that is refused leaves `cnt` at 0, and the INSERT follows
(utils.cpp:255-259): `SeedInsert` may then add a second row of a city. When the
SELECT was not refused it holds SHARED to the end of the iteration, so that the
city stays missing (last conjunct of `HandlerInv`).

The environment is one other connection at a time. A reader and a writer at once
are covered as far as the server can tell: it sees the stronger lock. What an
updater's commit may make of `prices` is `UpdaterTables`: lines of its map, each
an UPDATE, or an INSERT when `sqlite3_changes` is 0. That is so for a code without
a row, but also after an UPDATE refused with SQLITE_BUSY: if the lock comes free
just then, a code that has a row gets a second one (`Again`; once per transaction,
because from then on the updater has the lock). The doc of
`update_db_from_prices_file` speaks of the first case only.

### PricePropagation

An updater is a process with a program counter `upc`, its map, and the order in
which that map is iterated (any order: it is an `unordered_map`). Every store it
touches is a step: truncating and writing `prices.txt` are two, and in the segment
the count (`ShmCount`), each code (`ShmCode`) and each price (`ShmPrice`) are one
each, because nothing keeps the server from reading in between. The server is

* its start: `Boot` (schema), `SeedFind` and `SeedInsert` per city (each INSERT
  commits by itself; a refused COUNT is followed by the INSERT), `Generate` and
  `Generated` (`prices.txt` truncated, then written, or left empty when the SELECT
  is refused), then the segment;
* its SIGHUP handling: `Sighup`, `ApplyRest`, `Applied`, the segment, `ResetFlag`;
* what frames do to its locks: `ServeFrame`, `ServeBusy` (a write refused by an
  updater or by any reader), `PressEnter`.

Reading the segment is `LoadShm` (cache cleared, count read), then `LoadCode` and
`LoadPrice` for each entry, or `CreateShm` when there is none. `loop` is where the
server stands in the loop over seeds or entries. `Printed` is what `<<` makes of a
price (six significant digits): what travels through `prices.txt` is `AsPrinted`,
what travels through the segment is exact. `draft` is the table as the holder of
the write lock sees it. COMMIT and DELETE may always be refused by a reader.
`solo` and `steady` are history variables: the updater that ran last with the
system to itself, and whether the server stayed up since.

### FrameStream

A byte is its position in everything ever written, so the stream is a few
counters: `sent`, `arrived`, `taken`, `got`. A handled frame is where it started,
how many bytes were really read, and whether the connection had been torn.

### WireFormat

Pure operators on tuples of bytes, one per conversion, under the source's names
where it has them: `SwapEndian` (STM32, the whole struct turned around), `swap16`
and `i2c_read_frame` (I2C_DAEMON, field by field back), `ToPipe` (`htons` of id
and status; the floats stay as they are), `AtServer` (`ntohs`, and
`float_from_big_endian` for the floats), `CutOff` (a slave that stops in the
middle leaves the bus high: ones to the full length). A float is its four bytes;
all three machines are little-endian. The server's rounding to three decimals is
left out.

### DeviceChain

A frame is its bytes and a number the program does not have. State by owner:
`device` (`spc`, where the STM32's loop stands; `index`, `data`, `tx`, `pin`),
`daemon` (`ipc`, `pipe`: `pipe_fd >= 0`, `iframe`, and `event`: poll has an edge
to report), `client` (`cpc`, `cframe`, `sock`: its end of the connection), the
server (`server`: up, stuck or down; `torn`: the connection whose frame boundary
it has lost), and between them `fifo` and `net`, where each frame knows its
connection. `produced`, `received`, `missed`, `cut` and the numbers are history.

| action | code |
|---|---|
| `FillDataStruct`, `I2C2_Send_Data`, `EndSend`, `HAL_Delay` | `my_main.c:15-38`, `I2C_Coordinate_generator.c:23-52` |
| `OpenPipe`, `InitDevices`, `InitFails` | `i2c_daemon.c:77-119`; `gpio_init` (`i2c_master.c:39-49`) reads the value once, which consumes an edge |
| `PollGpio`, `ReadValue`, `ReadFrame`, `ReadFails`, `ReadNobody` | `i2c_daemon.c:126-142`; a read is not tried again |
| `ReadThroughReset` | `i2c_master.c:54-66`: the device is reset after some bytes (`Cuts`), and the read has its full length all the same |
| `WritePipe`, `WriteDrops`, `WriteNoReader` | `i2c_daemon.c:144-157`: written, dropped (no FIFO, or EAGAIN), EPIPE and the end |
| `Connect`, `ConnectRefused`, `ConnectFails`, `OpenForReading` | `client.h:96-112`, `client.c:61-101` |
| `GetFrame`, `SendFrame`, `SendToClosed`, `SendToReset`, `SeeHangup` | `client.c:109-138`, `client.h:114-149` |
| `Receive`, `ReceiveTorn` | `server.cpp:562-594`: a whole frame, or, on a torn connection, parts of two |
| `HupTearsFrame` | `server.cpp:443-447`: SIGHUP in mid-frame, -2, the part read is gone |
| `ServerWaits` | `utils.h:38-50`: Enter is waited for, the connection stays open |
| `ServerStops`, `ServerStarts` | a signal, Enter, SIGPIPE at `send` (692); a new process |
| `RunScript`, `ScriptStartsI2c`, `StartClient`, `StartI2c` | `start_daemons.sh`, or one daemon by hand |
| `Reset`, `I2cKilled`, `ClientKilled` | a reset of the device, a signal to a daemon |

`HAL_I2C_Slave_Transmit` and `I2C_IsErrorOccurred` are conjuncts of `ReadFrame`
and `ReadFails`: master and slave take part in the same transfer. A HAL error
resets the driver's state, so the next transmit works; the frame is not repeated.

A fault (`MaxFaults` bounds them) is whatever a program does not do by itself or
may never do: a failed `open` or read, a reset, a signal to any of the programs,
SIGHUP in mid-frame, a refused statement in the server, its end. The server
decodes nothing right on a torn connection, so `received` has only the frames it
reads whole; what a mixed frame may be is `FrameStream`'s subject.

What the code relies on without containing it, modelled from its use: a Linux
FIFO counts a process blocked in `open` as a reader, keeps its contents while one
end is open and discards them when both are closed; twelve bytes are fewer than
`PIPE_BUF`, so a write is all or nothing and, with one client, a read is never
short (the branch at `client.h:117` is not reachable). A
write on a connection the other side has closed succeeds once and is answered by
a reset. The client never reads the server's "OK CLOSED", so closing its socket
may reset the connection and lose what is on the way (`ClientKilled`).

`LossyChannel` knows the number of frames sent and the numbers received:
`sent <- Len(produced)`, `got <- Nums(received)`.

## 3. The runs

| run | instance | shows |
|---|---|---|
| `sessions` (`ParkingSessions.cfg`) | 1 customer, 1 place, codes 1 and 2 (and 0), 2 rows, clock 0..1 | `TypeOK`, `OneOpenPerCity`, `HandlerInv`, `ViewAhead`, `AckedAfterClose`, `NoTimeBilledTwice`, `BillsAreFinal`, `ImplementsLedger` |
| `billing` (`ParkingBilling.cfg`) | 1 code, 2 rates, a segment without the code, with a price or with 0, 1 row, 2 rowids of `prices`, clock 0..4, 2 ticks a second, 2 seconds a minute, one set back | `BilledAtPriceInForce`, `NoOvercharge` |
| `prices_sequential` | 1 updater, 2 runs, 2 codes, 2 places, 2 rates, 1 crash | `TypeOK`, `SoloRunHeals`, `RowsKept`, `CommitsAsAssumed` |
| `prices_concurrent` | 2 updaters (symmetric), 3 runs, 1 code, 3 rates of which 3 is printed as 2, 1 crash | `SoloRunHeals` |
| `frames` (`FrameStream.cfg`) | frames of 3 bytes, 3 frames, 2 connections, 2 SIGHUPs | `TypeOK`, `InOrder`, `WholeUnlessTorn`, `NothingSkipped`, `Prompt` |
| `chain` (`DeviceChain.cfg`) | 3 frames of 2 places, FIFO and socket of 1 frame, a reset after 11 bytes, 2 faults, 2 starts | `TypeOK`, `DecodedRight`, `ReadOnlyWhenReady`, `StandstillExplained`, `ImplementsChannel`, `LossExplained`, `OfferedIsReceived`, `HangupNoticed` |
| `durable`, `lost_sighup`, `removed`, `frames_torn`, `chain_start`, `coordinates` | smaller | one refuted statement each, below |

**Why the bounds are enough.** Two rows of one customer at one place are what it
takes to be open twice, and two codes what it takes for a place to change its
city. Customers never meet in a statement (every WHERE has the customer), so one
is enough for each; several are covered by the proofs. A clock of 0..4 with two
ticks a second and two seconds a minute has sessions that end in a cut second, a
cut minute, an exact minute, and one that is billed a minute after three ticks of
the four; and a clock set back by more than a second. Two updaters give every race
between two; the third run is the one that has to heal what they left; a state
from which no run can have the system to itself any more is not followed further
(`StillSolo`: the property has nothing to say there). One seed city is enough for
a start that is refused, repeated or overtaken; the proofs have any number. A
three-byte frame can be cut at two places, three frames over two connections
contain a torn frame with a clean one on the next connection. Buffers of one frame
make FIFO and socket full as soon as anybody is slow; three frames fill device,
FIFO and socket at once and contain a START, its STOP and the next START; two
faults are a failure and another during the recovery from it; two starts are the
script, whose start of both daemons is one, and one more after something ended, or
each daemon by hand. A cut after eleven bytes is the one that leaves the most of a
frame, its status among it; the proof has any cut. Two rowids of `prices` in
`billing` let a code have two rows. The names of all bounds are the `Max...`
constants; `MaxPrices` limits rowids of `prices`, `MaxRuns` and `MaxCrashes`
count, nothing else.

**Deadlock** is checked in the parking runs. In `FrameStream` the server may
stop, in `PricePropagation` runs and crashes are used up, and in `DeviceChain`
frames and starts are, or both daemons are down; it is off there. Who waits for
whom in the chain is the subject of `StandstillExplained` and `ChainConnects`.

**Fairness.** `Prompt` needs weak fairness of the server's steps (a single thread
in a loop with short sleeps, never blocked in `FrameStream`'s part of the code)
and of TCP's delivery on a connection that stays up. `OfferedIsReceived` and
`HangupNoticed` need weak fairness of each program of the chain by itself
(`Device`, whose delays end, `I2cDaemon`, `ClientDaemon`, the server's reading,
and the script once it has started the client): each is one thread that goes on
whenever it is not blocked. The server's reading is enabled only while it is up: a
server that waits for Enter is "stuck", and nothing, fairness included, makes it
go on or makes somebody start one that is down. `OfferedIsReceived` promises a
frame only while the server is up and knows where frames begin, and is excused by
every fault on the way. SIGHUPs, faults, starts, new connections and their ends
are not fair.

### What the code does not do

Six statements of the comments, docs or the README are refuted by short traces:

* `AckedIsDurable`: after a COMMIT refused by a reader (`show_db.sh` is enough)
  the server works in an open transaction until its next price update; what it
  acknowledged meanwhile disappears with the process. It also holds PENDING, so
  no other process can even read `data.db`.
* `QuietMeansFresh`: a SIGHUP between the reload and the reset of the flag is
  lost.
* `RemovalReachesDb`: a DELETE refused by a reader is reported as success.
* `WholeFrames`: a SIGHUP in the middle of a frame shifts the rest of the stream.
* `ChainConnects`: the script waits for a process of the client's name, which is
  there before the client has connected and opened the FIFO. I2C_DAEMON then finds
  no reader (ENXIO), never tries again and drops every frame, while the client
  waits in `open` for a writer. No fault is needed.
* `CoordinatesKept`: I2C_DAEMON leaves the coordinates in host order and the
  server converts them from network order: 31.962 becomes about 2e-11, for every
  frame. Id and status do come out right (`DecodedRight`).

### What it does do

`OneOpenPerCity`, `HandlerInv` and `BilledAtPriceInForce` hold only because
`find_city` is *not* reset after use: the mutant that resets it breaks two of
them. The price in force may be wrong: a code whose price the updater had not
yet copied is in `prices_cache` with 0.0 and is billed at that until the
updater's SIGHUP, and so is a city for which an operator entered 0. What cannot
happen is that a known city falls through to the 0.0 of a missing row.
`NoOvercharge` allows for less than a second, because the program does: from
10:00:00.999 to 10:01:00.000 is a minute. `SoloRunHeals` holds because the
server reloads the segment after every SIGHUP, whatever its own transaction did,
and because it keeps using an open transaction when BEGIN fails.
`NoTimeBilledTwice` is what repeated STARTs and lost STOPs cannot do: the next
STOP ends the open session, however late, so a customer may pay for too long a
time but not twice for the same one, as long as the city is known (in an unknown
one `check_open` may be refused as busy and a second row opened) and keeps its
code. `StandstillExplained` and `OfferedIsReceived` say that inside its loop
I2C_DAEMON loses no edge, however long it takes over the frame before: reading
the value clears the event before the I2C read releases the device.
`BillsAreFinal` and `ImplementsLedger` hold across crashes, roll-backs and
refused commits: the ledger's `Loosen`, `Settle` and `StrikeOut` are the price
for the open transaction.

## 4. The proofs

Proved by TLAPS for all values of the constants, under the assumptions stated in
the modules (codes are integers without 0, and in `PricePropagation` finitely
many: they are C ints; rates are integers, 0 and negative ones included; the
segment may leave any subset of `Cached` behind; the seeds are a sequence of
rows with distinct places; no updater is named like another holder of the lock;
the bounds are naturals; a frame has at least one byte; the table of coordinates
is not empty; each buffer holds a frame; a reset may cut a frame after any
number of its bytes).

* **ParkingSessionsProofs.** The inductive invariant is

      IndInv == TypeOK /\ HandlerInv /\ Books
      Books  == OneOpenPerCity /\ ViewAhead /\ AckedAfterClose

  `OneOpenPerCity` alone is not inductive: `Insert` needs that no session is open
  (`HandlerInv` at "insert"), which needs that `check_open` was really executed,
  which needs SHARED still held by `find_city` (`CityHeld`); `CityHeld` survives
  the environment because `UpdaterDone` is guarded by `CanCommit(reading)`. A
  crash puts `disk.rows` back, so the file must satisfy the same things as the
  view (`ViewAhead`, both halves of `OneOpenPerCity`). One lemma per action, then
  `Invariance`; `TypeCorrect`, `OneOpen`, `HandlerSound`, `ViewSound` and
  `AckSound` are its parts, `BillsFinal` and `BillSound` the action properties
  that follow: the price is looked up one step before the UPDATE, and `HandlerInv`
  says that it is still in force then.
* **ParkingLedgerProofs.** `Refinement`: `Spec => ImplementsLedger`. A step of the
  handler maps to one of the ledger's steps or to a stutter, with `book <-
  LedgerOf(rows)`, `firm <- LedgerOf(disk.rows)`, `loose <- tx`; it uses the
  invariant (a session about to be inserted is not open; a session is billed at a
  price in use).
* **ParkingBillingProofs.** `NeverOvercharged`: `NoOvercharge` for every
  resolution of the clock. Its own inductive part (`ClockInv`, on top of
  `IndInv`): while the clock was never set back no session begins in the future,
  every bill in the view and in the file covers no more than its time, and the
  minutes counted for the row about to be closed have passed, but for less than a
  second. The arithmetic is in lemmas about truncating division and about whole
  seconds. `NeverTwice`: `NoTimeBilledTwice`, from `ApartInv`, the property for
  view and file together with: no row ends later than now; that no earlier session
  is open when one is inserted is `HandlerInv`.
* **FrameStreamProofs.** The invariant relates `taken - got` to the frames handled
  on this connection; `StreamTypes`, `StreamInOrder`, `OnlyHupTears` and `NoSkips`
  follow.
* **WireFormatProofs.** `ReadFrameInverts`: the daemon gets back the frame the
  device filled, for all 2^96 of them; `ServerDecodes`: the server has its id and
  status, and its coordinates byte-reversed. Bytes of a word and back, and a
  reversal twice, are lemmas; `CutFrame` says that a cut frame has the low byte of
  its id 255 wherever it was cut.
* **DeviceChainProofs.** The inductive invariant is

      IndInv == TypeOK /\ Signals /\ Order /\ Own /\ Content /\ Held

  `Signals` ties pin, edge and the two program counters together: a device that
  waits while the daemon polls or writes has its edge pending unless `missed`, and
  without a fault the daemon reads only a waiting device. `Order` says that the
  numbers fall along the chain: device, `iframe`, FIFO, `cframe`, socket,
  received, strictly inside each queue, which is why nothing is overtaken or
  repeated whoever is restarted. `Own`: every frame sent has the device's id.
  `Content` says that what bears number n anywhere has the bytes made of frame n,
  or, if a reset cut it off, of some frame with 255 in its id's low byte, which is
  not the device's; it needs `ReadFrameInverts`, `ServerDecodes` and `CutFrame`.
  `Held` keeps the FIFO empty when nobody has it open. `ChainTypes`,
  `ReadsInTime`, `NoLostEdge` and `Decoding` are parts of it; `Losses` (an action
  property) and `Refinement` (`ImplementsChannel`) follow step by step. Every
  property of the `chain` run but its two of liveness is proved for every size of
  the buffers.

* **PriceTableProofs.** What the operators of `PriceTable` keep and return: tables
  stay tables, rows stay where they are, inserted rows get rowids of their own.
  The last rowid is a maximum; that it exists is proved from the well-foundedness
  of `<`, because induction is not available. `InsertedRow`: a row that is
  inserted is there afterwards, and all others as they were. The second half
  follows an updater's transaction line by line: `After` is the table after some
  lines, and `NoLines`, `OneUpdate`, `OneInsert`, `FirstInsert` say that
  beginning, another UPDATE, another INSERT, and a first INSERT (of a code that
  has a row or not) all stay in `UpdaterTables`.
* **PricePropagationProofs.** The inductive invariant is

      IndInv == TypeOK /\ Iteration /\ Transaction /\ Drafts /\ Stands /\ Recovery

  `Iteration`: an updater's `order` lists its map, each code once, and `next` is a
  place in it or just behind; without it the segment could count more entries than
  there are cities. `Transaction`: the draft is the table while nobody holds the
  write lock and has all its rows otherwise, and an updater that holds the lock is
  at its transaction; `CommittedRowsKept` (`RowsKept`) is a step away. `Drafts`
  says what the draft is: an updater's is the table after lines its iteration has
  passed, and at "insert" the code has no row there; the server's is the table
  with some rates changed. `Stands`: the server's loops over seeds and entries
  stay in their bounds, and a seed city counted as missing is missing while SHARED
  is held. So every commit, those of a start included, is one that
  `ParkingSessions` allows (`EnvironmentAsAssumed`), and the theorems about
  sessions and bills hold beside any number of updaters. `Recovery` is ten
  statements about the run that began with the system to itself, following it
  through its steps: it still has it to itself (`Alone`); no SIGHUP is pending
  before its own (`Unsignalled`), and a server that has stayed up is not at its
  start (`Up`), so nobody else touches the stores; what it has written so far of
  file and segment is there (`FileWritten`, `SlotsWritten`, `ShmWritten`, `Left`);
  a scan of the segment that began after the run has read its entries up to where
  it stands (`CacheScanned`; one that began before may have read anything, but
  then the run's SIGHUP is still to be handled); and from the server's SIGHUP on
  cache and table follow the segment (`CacheHealed`, and `TableHealed` in the
  digits that were printed). `Healing` (`SoloRunHeals`) is what they say at the
  end. It needs `ShmMapWritten`: a segment written entry by entry from a map, in
  any order, is read back as that map once it is complete. All parts held in both
  price instances before they were proved.

Every safety property that the passing runs check is proved. Only model-checked
are the liveness properties `Prompt`, `OfferedIsReceived` and `HangupNoticed`
(liveness under fairness is out of the prover's reach). `CommitsAsAssumed`
compares tables only; the other process's locks in `ParkingSessions` are those of
SQLite's protocol, taken and let go at any time, and are not derived from
`PricePropagation`.

## 5. Not modelled, and the plan

Not modelled, and why:

* The fee's rounding to cents (server.cpp:677): prices are decimal and the
  arithmetic is IEEE double; a model over exact numbers would decide the halves
  otherwise than the program. The fee is `rate * minutes`.
* The sizes of the shared segment (1024 bytes for the server, 2048 for the
  updater): mappings are whole pages, so nothing happens below some 340 cities.
* Sessions across a change of a city's code: nothing is promised there, and the
  model has behaviours with two open sessions at one place, under two codes.
* Two processes that write `prices.txt` in the same instant, each through its own
  offset: the model's file is the one of the writer that came last, not a mixture
  of their bytes.
* A price of eight bytes read while it is copied: one aligned or unaligned move on
  this machine; the model has it old or new. The city code 0, which an operator
  may enter, is the `city_code` of an unknown place at the same time.
* The instant between the creation of the segment and its `ftruncate`, in which a
  process that maps it is ended by SIGBUS: in the model's terms a crash at that
  step.
* Logging, RAII wrappers, the unused JSON helpers, malformed lines of
  `prices.txt`, failing `open`, `socket` and `bind`: I/O without further state.
* Vendored and generated code (SQLite, STM32 HAL, CMSIS, CubeMX output), which is
  almost all of the repository's lines: only what this program's use of it shows,
  SQLite's locks and refusals, and how a blocking I2C transmit ends.

Order of work, most important behaviour first:

1. *done*: `PriceTable`, `SqliteLock`, `ParkingSessions`, `SessionLedger`, their
   runs and proofs.
2. *done*: `PricePropagation` and its runs; `FrameStream`, its run and proofs.
3. *done*: `WireFormat`, `DeviceChain`, `LossyChannel`, their runs and proofs.
4. *done*: theorems about `PriceTable` and `PricePropagation`: types, `RowsKept`,
   `SoloRunHeals`; and `CommitsAsAssumed`, which made the environment of
   `ParkingSessions` wider than it was: the second row of a code was missing.
5. *done*: the starting server's own commits (seeding city by city, an INSERT
   after a refused COUNT), the segment entry by entry, prices as printed, times
   cut to seconds, a server that waits or has lost the frame boundary, a device
   reset in mid-transfer; and the proofs over all of it.
6. What is left: the same for the other joints, `FrameStream` below the chain's
   `net`, and the locks of `ParkingSessions` from those of `PricePropagation`.
