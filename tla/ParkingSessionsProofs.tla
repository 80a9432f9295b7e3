----------------------- MODULE ParkingSessionsProofs ------------------------
(***************************************************************************)
(* Theorems of ParkingSessions, for every value of its constants.          *)
(***************************************************************************)
EXTENDS ParkingSessions, PriceTableProofs, SequenceTheorems, TLAPS

(* The books: what must stay true of customer_data in memory and on disk.  *)
Books == OneOpenPerCity /\ ViewAhead /\ AckedAfterClose

(* The inductive invariant.  OneOpenPerCity alone is not inductive: Insert *)
(* needs to know that check_open's answer still holds, which in turn rests *)
(* on the lock that find_city left behind (HandlerInv), and a roll-back    *)
(* needs the file to be an earlier, sound state of the view (ViewAhead).   *)
IndInv == TypeOK /\ HandlerInv /\ Books

(* The program counter's values, for the case splits below.                *)
USE DEF Steps, Starting, Statements, Statuses, LockLevels, OPEN, CLOSE, NoCity

(* Kept is a preorder on tables of sessions.                               *)
LEMMA KeptRefl == \A rs : Kept(rs, rs)
BY DEF Kept, SameSession

LEMMA KeptTrans ==
  ASSUME NEW a, NEW b, NEW c, Kept(a, b), Kept(b, c)
  PROVE  Kept(a, c)
BY DEF Kept, SameSession

LEMMA SeedsLength == Len(Seeds) \in Nat
BY SeedsAssumption

LEMMA TypeOKInit == Init => TypeOK
<1> SUFFICES ASSUME Init PROVE TypeOK  OBVIOUS
<1>1. IsTable(prices) /\ cache \in Cached
  BY SeedsTable, LoadsAssumption DEF Init
<1>2. rows \in Seq(Rows)  BY DEF Init
<1>3. clock \in Clock  BY BoundsAssumption DEF Init, Clock
<1>4. disk = [rows |-> disk.rows, prices |-> disk.prices]
      /\ disk.rows = rows /\ disk.prices = prices
  BY DEF Init
<1>5. rows = <<>> /\ 0 \in Rates \cup {0} /\ 0 \in Int  BY DEF Init
<1>6. seed \in 0 .. Len(Seeds) /\ seed = 0  BY SeedsLength DEF Init
<1> QED BY <1>1, <1>2, <1>3, <1>4, <1>5, <1>6 DEF Init, TypeOK

LEMMA IndInvInit == Init => IndInv
<1> SUFFICES ASSUME Init PROVE IndInv  OBVIOUS
<1>1. HandlerInv  BY DEF Init, HandlerInv, CityHeld
<1>2. OneOpenPerCity  BY DEF Init, OneOpenPerCity, OneOpenIn
<1>3. ViewAhead  BY KeptRefl DEF Init, ViewAhead
<1>4. AckedAfterClose  BY DEF Init, AckedAfterClose, ClosedIn
<1> QED BY <1>1, <1>2, <1>3, <1>4, TypeOKInit DEF IndInv, Books

(* A step that leaves customer_data alone, and the file too or commits to  *)
(* it, keeps the books.                                                    *)
LEMMA SameRows ==
  ASSUME Books, UNCHANGED <<rows, acks>>, Save,
         tx' => lock' \in {"none", "shared"} /\ pc' # "down"
  PROVE  Books'
<1>1. OneOpenPerCity'  BY DEF Books, OneOpenPerCity, Save
<1>2. ViewAhead'  BY KeptRefl DEF Books, ViewAhead, Save
<1>3. AckedAfterClose'  BY DEF Books, AckedAfterClose, ClosedIn
<1> QED BY <1>1, <1>2, <1>3 DEF Books

LEMMA SameBooks ==
  ASSUME Books, UNCHANGED <<db, durable, lock, acks>>, pc' # "down"
  PROVE  Books'
<1>1. Save  BY DEF Books, ViewAhead, Save, db, durable
<1> QED BY <1>1, SameRows DEF Books, ViewAhead, db, durable

(* A step that adds to customer_data or closes a session in it keeps them  *)
(* if it keeps every session and every bill.                               *)
LEMMA NewRows ==
  ASSUME Books, Save, Kept(rows, rows'), OneOpenIn(rows'),
         UNCHANGED <<tx, lock, acks>>, pc' # "down"
  PROVE  Books'
<1>1. OneOpenPerCity'  BY DEF Books, OneOpenPerCity, Save
<1>2. Kept(disk.rows, rows')  BY KeptTrans DEF Books, ViewAhead
<1>3. ViewAhead'  BY <1>2, KeptRefl DEF Books, ViewAhead, Save
<1>4. AckedAfterClose'  BY DEF Books, AckedAfterClose, ClosedIn, Kept
<1> QED BY <1>1, <1>3, <1>4 DEF Books

(* Leaving the handler, to wait for a frame, for Enter, or to go down.     *)
LEMMA LeaveInv ==
  ASSUME HandlerInv, NEW next \in {"idle", "failed", "down"}, Leave(next)
  PROVE  HandlerInv'
BY DEF Leave, HandlerInv, CityHeld

LEMMA LeaveTypes ==
  ASSUME TypeOK, NEW next \in {"idle", "failed", "down"}, Leave(next)
  PROVE  /\ pc' \in Steps \cup Starting \cup {"idle", "failed", "down"}
         /\ seed' \in 0 .. Len(Seeds)
         /\ pc' \in {"seed_find", "seed_insert"} <=> seed' # 0
         /\ frame' \in Frames \cup {NoFrame} /\ city' \in Codes \cup {NoCity}
         /\ target' \in {0} \cup DOMAIN rows'
         /\ minutes' \in Int /\ rate' \in Rates \cup {0}
BY SeedsLength DEF Leave

LEMMA ReceiveInv ==
  ASSUME IndInv, NEW f \in Frames, Receive(f)
  PROVE  IndInv'
<1> USE DEF IndInv, Receive, db, durable, others
<1>1. TypeOK'  BY DEF TypeOK
<1>2. Books'  BY SameBooks
<1>3. HandlerInv'  BY DEF HandlerInv, CityHeld
<1> QED BY <1>1, <1>2, <1>3

LEMMA FindCityInv ==
  ASSUME IndInv, FindCity
  PROVE  IndInv'
<1> USE DEF IndInv, FindCity, db, durable, others
<1>1. pc' \in {"check_open", "find_open", "idle"}  BY DEF AfterCity
<1>2. city' \in Codes \cup {NoCity} /\ reading' \subseteq Statements
  BY CityAtCodes DEF TypeOK
<1>3. city' # NoCity => "find_city" \in reading' /\ city' \in CodesOf(prices)'
  BY CityAtCodes DEF TypeOK
<1>4. frame \in Frames  BY DEF HandlerInv, CityHeld
<1>5. pc' \in Steps => frame' = frame  BY <1>1
<1>6. TypeOK'  BY <1>1, <1>2, <1>4 DEF TypeOK
<1>7. Books'  BY <1>1, SameBooks
<1>8. HandlerInv'  BY <1>1, <1>3, <1>4, <1>5 DEF HandlerInv, CityHeld
<1> QED BY <1>6, <1>7, <1>8

LEMMA CheckOpenInv ==
  ASSUME IndInv, CheckOpen
  PROVE  IndInv'
<1> USE DEF IndInv, CheckOpen, db, durable, others
<1>1. reading' \subseteq Statements  BY DEF TypeOK
<1>2. CASE Leave("idle")
  <2>1. TypeOK'  BY <1>1, <1>2, LeaveTypes DEF TypeOK
  <2>2. pc' = "idle"  BY <1>2 DEF Leave
  <2> QED BY <1>2, <2>1, <2>2, LeaveInv, SameBooks
<1>3. CASE /\ ~(/\ MayRead(reading \ {"check_open"})
                /\ OpenRows(frame.cust, city, frame.loc) # {})
           /\ pc' = "insert" /\ reading' = reading \ {"check_open"}
           /\ UNCHANGED locals
  <2>1. TypeOK'  BY <1>1, <1>3 DEF TypeOK, locals
  <2>2. city # NoCity => "find_city" \in reading' /\ city \in CodesOf(prices)'
    BY <1>3 DEF HandlerInv, CityHeld
  <2>3. city # NoCity => OpenRows(frame.cust, city, frame.loc) = {}
    BY <1>3, <2>2 DEF MayRead, CanRead
  <2>4. OpenRows(frame.cust, city, frame.loc)' = OpenRows(frame.cust, city, frame.loc)
    BY <1>3 DEF locals, OpenRows
  <2>5. HandlerInv'  BY <1>3, <2>2, <2>3, <2>4 DEF HandlerInv, CityHeld, locals
  <2>6. Books'  BY <1>3, SameBooks
  <2> QED BY <2>1, <2>5, <2>6
<1> QED BY <1>2, <1>3

(* CHECK_SQL leaves the database as it is.                                 *)
LEMMA FailInv ==
  ASSUME IndInv, Fail, UNCHANGED <<cache, others, acks>>
  PROVE  IndInv'
<1> USE DEF IndInv, Fail, db, durable, others
<1>1. pc' = "failed"  BY DEF Leave
<1>2. TypeOK'  BY LeaveTypes DEF TypeOK
<1> QED BY <1>1, <1>2, LeaveInv, SameBooks

(* The new row is the only open one of its session: that is what HandlerInv *)
(* says at "insert".                                                       *)
LEMMA InsertKeeps ==
  ASSUME IndInv, pc = "insert", rows' = Append(rows, NewRow)
  PROVE  /\ rows' \in Seq(Rows)
         /\ Kept(rows, rows') /\ OneOpenIn(rows')
         /\ DOMAIN rows \subseteq DOMAIN rows'
<1> USE DEF IndInv
<1>1. rows \in Seq(Rows) /\ NewRow \in Rows
  BY DEF TypeOK, HandlerInv, CityHeld, NewRow, Rows, Frames
<1>2. /\ rows' \in Seq(Rows) /\ Len(rows') = Len(rows) + 1
      /\ rows'[Len(rows) + 1] = NewRow
      /\ \A i \in DOMAIN rows : rows'[i] = rows[i]
  BY <1>1
<1>3. DOMAIN rows = 1 .. Len(rows) /\ DOMAIN rows' = 1 .. Len(rows) + 1
  BY <1>1, <1>2
<1>4. Len(rows) \in Nat  BY <1>1
<1>5. Kept(rows, rows')  BY <1>2, <1>3, <1>4 DEF Kept, SameSession
<1>6. ASSUME NEW i \in DOMAIN rows, city # NoCity,
             SameSession(rows[i], NewRow), rows[i].status = OPEN
      PROVE  FALSE
  BY <1>6 DEF HandlerInv, CityHeld, OpenRows, SameSession, NewRow
<1>7. OneOpenIn(rows')
  <2> SUFFICES ASSUME NEW i \in DOMAIN rows', NEW j \in DOMAIN rows',
                      TwiceOpen(rows', i, j), SameSession(rows'[i], rows'[j]),
                      rows'[i].code # NoCity
               PROVE  FALSE
    BY DEF OneOpenIn
  <2>1. CASE i \in DOMAIN rows /\ j \in DOMAIN rows
    BY <1>2, <2>1 DEF Books, OneOpenPerCity, OneOpenIn, TwiceOpen
  <2>2. CASE i \in DOMAIN rows /\ j = Len(rows) + 1
    BY <1>2, <1>6, <2>2 DEF TwiceOpen, SameSession, NewRow
  <2>3. CASE i = Len(rows) + 1 /\ j \in DOMAIN rows
    BY <1>2, <1>6, <2>3 DEF TwiceOpen, SameSession, NewRow
  <2>4. CASE i = Len(rows) + 1 /\ j = Len(rows) + 1
    BY <2>4 DEF TwiceOpen
  <2> QED BY <1>3, <1>4, <2>1, <2>2, <2>3, <2>4
<1> QED BY <1>2, <1>3, <1>4, <1>5, <1>7

LEMMA InsertInv ==
  ASSUME IndInv, Insert
  PROVE  IndInv'
<1> USE DEF IndInv, Insert, others
<1>1. CASE /\ MayWrite
           /\ rows' = Append(rows, NewRow)
           /\ Leave("idle") /\ UNCHANGED <<prices, tx, reading>> /\ Save
  <2>1. rows' \in Seq(Rows) /\ Kept(rows, rows') /\ OneOpenIn(rows')
    BY <1>1, InsertKeeps
  <2>2. TypeOK'  BY <1>1, <2>1, LeaveTypes DEF TypeOK, Save
  <2>3. HandlerInv'  BY <1>1, LeaveInv
  <2>4. pc' = "idle"  BY <1>1 DEF Leave
  <2>5. Books'  BY <1>1, <2>1, <2>4, NewRows
  <2> QED BY <2>2, <2>3, <2>5
<1>2. CASE ~MayWrite /\ Fail  BY <1>2, FailInv
<1> QED BY <1>1, <1>2

LEMMA FindOpenInv ==
  ASSUME IndInv, FindOpen
  PROVE  IndInv'
<1> USE DEF IndInv, FindOpen, db, durable, others
<1>1. reading' \subseteq Statements  BY DEF TypeOK
<1>2. CASE Leave("idle")
  <2>1. TypeOK'  BY <1>1, <1>2, LeaveTypes DEF TypeOK
  <2>2. pc' = "idle"  BY <1>2 DEF Leave
  <2> QED BY <1>2, <2>1, <2>2, LeaveInv, SameBooks
<1>3. CASE \E i \in Latest(OpenRows(frame.cust, city, frame.loc)) :
             /\ target' = i /\ pc' = "minutes"
             /\ reading' = (reading \ {"find_open"}) \cup {"find_open"}
             /\ UNCHANGED <<frame, city, minutes, rate, seed>>
  <2>1. target' \in OpenRows(frame.cust, city, frame.loc) /\ target' \in DOMAIN rows
    BY <1>3 DEF Latest, OpenRows
  <2>2. TypeOK'  BY <1>1, <1>3, <2>1 DEF TypeOK
  <2>3. OpenRows(frame.cust, city, frame.loc)' = OpenRows(frame.cust, city, frame.loc)
    BY <1>3 DEF OpenRows
  <2>4. HandlerInv'  BY <1>3, <2>1, <2>3 DEF HandlerInv, CityHeld
  <2>5. Books'  BY <1>3, SameBooks
  <2> QED BY <2>2, <2>4, <2>5
<1> QED BY <1>2, <1>3

LEMMA DivTruncInt ==
  ASSUME NEW a \in Int, NEW b \in Nat \ {0}
  PROVE  DivTrunc(a, b) \in Int
BY DEF DivTrunc

LEMMA MinutesInv ==
  ASSUME IndInv, Minutes
  PROVE  IndInv'
<1> USE DEF IndInv, Minutes, db, durable, others
<1>1. target \in OpenRows(frame.cust, city, frame.loc)  BY DEF HandlerInv, CityHeld
<1>2. rows[target] \in Rows  BY <1>1 DEF TypeOK, OpenRows
<1>3. clock \in Int /\ rows[target].created \in Int
  BY <1>2, BoundsAssumption DEF TypeOK, Clock, Rows
<1>4. minutes' \in Int
  <2>1. Sec(clock) - Sec(rows[target].created) \in Int
    BY <1>3, TicksAssumption DEF Sec
  <2> QED BY <2>1, DivTruncInt, TicksAssumption
<1>5. TypeOK'  BY <1>4 DEF TypeOK
<1>6. OpenRows(frame.cust, city, frame.loc)' = OpenRows(frame.cust, city, frame.loc)
  BY DEF OpenRows
<1>7. HandlerInv'  BY <1>6 DEF HandlerInv, CityHeld
<1> QED BY <1>5, <1>7, SameBooks

LEMMA PriceInv ==
  ASSUME IndInv, Price
  PROVE  IndInv'
<1> USE DEF IndInv, Price, db, durable, others
<1>1. reading' \subseteq Statements  BY DEF TypeOK
<1>2. city \in DOMAIN cache => cache[city] \in Rates \cup {0}
  BY CachedParts DEF TypeOK
<1>3. rate' \in Rates \cup {0}  BY <1>2, RateOfRates DEF TypeOK
<1>4. TypeOK'  BY <1>1, <1>3 DEF TypeOK
<1>5. OpenRows(frame.cust, city, frame.loc)' = OpenRows(frame.cust, city, frame.loc)
  BY DEF OpenRows
<1>6. city # NoCity => rate' \in PriceInForce(city)
  <2>1. city # NoCity => "find_city" \in reading \ {"price"} /\ city \in CodesOf(prices)
    BY DEF HandlerInv, CityHeld
  <2>2. city # NoCity => MayRead(reading \ {"price"})  BY <2>1 DEF MayRead, CanRead
  <2> QED BY <2>1, <2>2 DEF PriceInForce
<1>7. city' = city /\ PriceInForce(city)' = PriceInForce(city)  BY DEF PriceInForce
<1>8. city' # NoCity => rate' \in PriceInForce(city)'  BY <1>6, <1>7
<1>9. pc' = "update_close" /\ pc = "price"  OBVIOUS
<1>10. CityHeld'  BY <1>9 DEF HandlerInv, CityHeld
<1>11. HandlerInv'  BY <1>5, <1>8, <1>9, <1>10 DEF HandlerInv
<1> QED BY <1>4, <1>11, SameBooks

(* Closing a row leaves every other row as it is, opens none, and bills at *)
(* the price in force if the city is known.                                *)
LEMMA CloseKeeps ==
  ASSUME IndInv, pc = "update_close", rows' = [rows EXCEPT ![target] = Billed(@)]
  PROVE  /\ rows' \in Seq(Rows) /\ DOMAIN rows' = DOMAIN rows
         /\ target \in DOMAIN rows /\ rows[target].status = OPEN
         /\ rows'[target] = Billed(rows[target])
         /\ Kept(rows, rows') /\ OneOpenIn(rows')
         /\ \A i \in DOMAIN rows : i # target => rows'[i] = rows[i]
         /\ rows'[target].fee = rate * rows'[target].minutes
         /\ rows[target].code # NoCity => rate \in PriceInForce(rows[target].code)
<1> USE DEF IndInv
<1> DEFINE closed == Billed(rows[target])
<1>1. /\ target \in DOMAIN rows /\ rows[target] \in Rows
      /\ rows[target].status = OPEN /\ rows[target].code = city
  BY DEF HandlerInv, CityHeld, OpenRows, TypeOK
<1>2. rate \in Int /\ minutes \in Int /\ rate * minutes \in Int
  BY RatesAssumption DEF TypeOK
<1>3. closed \in Rows  BY <1>1, <1>2 DEF Rows, TypeOK, Billed
<1>4. rows' \in Seq(Rows)  BY <1>1, <1>3 DEF TypeOK
<1>5. DOMAIN rows' = DOMAIN rows /\ rows'[target] = closed
      /\ \A i \in DOMAIN rows : i # target => rows'[i] = rows[i]
  BY <1>1
<1>6. /\ closed.status = CLOSE /\ SameSession(rows[target], closed)
      /\ closed.created = rows[target].created
      /\ closed.code = city /\ closed.fee = rate * closed.minutes
  BY <1>1 DEF Billed, SameSession
<1> HIDE DEF closed
<1>7. Kept(rows, rows')
  <2> SUFFICES ASSUME NEW i \in DOMAIN rows
               PROVE  /\ SameSession(rows[i], rows'[i]) /\ rows'[i].created = rows[i].created
                      /\ rows[i].status = CLOSE => rows'[i] = rows[i]
    BY <1>5 DEF Kept
  <2>1. CASE i = target  BY <1>1, <1>5, <1>6, <2>1
  <2>2. CASE i # target  BY <1>5, <2>2 DEF SameSession
  <2> QED BY <2>1, <2>2
<1>8. OneOpenIn(rows')
  BY <1>5, <1>6 DEF Books, OneOpenPerCity, OneOpenIn, TwiceOpen
<1>9. city # NoCity => rate \in PriceInForce(city)  BY DEF HandlerInv
<1> QED BY <1>1, <1>4, <1>5, <1>6, <1>7, <1>8, <1>9 DEF closed

LEMMA UpdateCloseInv ==
  ASSUME IndInv, UpdateClose
  PROVE  IndInv'
<1> USE DEF IndInv, UpdateClose, others
<1>1. CASE /\ MayWrite
           /\ rows' = [rows EXCEPT ![target] = Billed(@)]
           /\ pc' = "reply"
           /\ UNCHANGED <<prices, tx, reading, locals>> /\ Save
  <2>1. /\ rows' \in Seq(Rows) /\ DOMAIN rows' = DOMAIN rows
        /\ target \in DOMAIN rows /\ rows'[target] = Billed(rows[target])
        /\ Kept(rows, rows') /\ OneOpenIn(rows')
    BY <1>1, CloseKeeps
  <2>2. TypeOK'  BY <1>1, <2>1 DEF TypeOK, locals, Save
  <2>3. target' \in ClosedIn(rows)'  BY <1>1, <2>1 DEF ClosedIn, Billed, locals
  <2>4. HandlerInv'  BY <1>1, <2>3 DEF HandlerInv, CityHeld, locals
  <2>5. Books'  BY <1>1, <2>1, NewRows
  <2> QED BY <2>2, <2>4, <2>5
<1>2. CASE ~MayWrite /\ Fail  BY <1>2, FailInv
<1> QED BY <1>1, <1>2

LEMMA ReplyInv ==
  ASSUME IndInv, Reply
  PROVE  IndInv'
<1> USE DEF IndInv, Reply, db, durable, others
<1>1. target \in ClosedIn(rows)  BY DEF HandlerInv
<1>2. target \in Nat  BY <1>1 DEF ClosedIn, TypeOK
<1>3. TypeOK'  BY <1>2, LeaveTypes DEF TypeOK
<1>4. HandlerInv'  BY LeaveInv
<1>5. pc' = "idle"  BY DEF Leave
<1>6. OneOpenPerCity'  BY DEF Books, OneOpenPerCity, OneOpenIn, TwiceOpen
<1>7. ViewAhead'  BY <1>5 DEF Books, ViewAhead
<1>8. AckedAfterClose'  BY <1>1 DEF Books, AckedAfterClose, ClosedIn
<1> QED BY <1>3, <1>4, <1>6, <1>7, <1>8 DEF Books

(* SIGHUP between two frames: UPDATEs only change prices.                  *)
LEMMA ApplyPriceChangeInv ==
  ASSUME IndInv, NEW lines \in Tariffs, NEW shm \in Loads,
         ApplyPriceChange(lines, shm)
  PROVE  IndInv'
<1> USE DEF IndInv, ApplyPriceChange, others, locals
<1>1. IsTable(prices')  BY UpdateRatesTable DEF TypeOK
<1>2. TypeOK'  BY <1>1, LoadsAssumption DEF TypeOK, Save
<1>3. HandlerInv'  BY DEF HandlerInv, CityHeld
<1>4. Books'  BY SameRows
<1> QED BY <1>2, <1>3, <1>4

(* A roll-back returns to the file, whose bills the view has kept.         *)
LEMMA CrashInv ==
  ASSUME IndInv, Crash
  PROVE  IndInv'
<1> USE DEF IndInv, Crash, others
<1>1. TypeOK'
  <2>1. cache' \in Cached  BY EmptyTariff, TariffCached
  <2> QED BY <2>1, LeaveTypes DEF TypeOK
<1>2. HandlerInv'  BY LeaveInv
<1>3. OneOpenPerCity'  BY DEF Books, OneOpenPerCity
<1>4. disk = [rows |-> disk.rows, prices |-> disk.prices]  BY DEF TypeOK
<1>5. ViewAhead'  BY <1>4, KeptRefl DEF ViewAhead
<1>6. AckedAfterClose'  BY DEF AckedAfterClose, ClosedIn
<1> QED BY <1>1, <1>2, <1>3, <1>5, <1>6 DEF Books

(* Starting again: seeding adds rows to prices only.                       *)
LEMMA NextSeedTypes ==
  ASSUME NEW n \in Nat \ {0}, NextSeed(n)
  PROVE  /\ pc' \in {"seed_find", "load"}
         /\ seed' \in 0 .. Len(Seeds)
         /\ pc' \in {"seed_find", "seed_insert"} <=> seed' # 0
BY SeedsLength DEF NextSeed

LEMMA BootInv ==
  ASSUME IndInv, Boot
  PROVE  IndInv'
<1> USE DEF IndInv, Boot, db, durable, others
<1>1. CASE /\ NextSeed(1)
           /\ UNCHANGED <<db, durable, reading, frame, city, target, minutes, rate>>
  <2>1. /\ pc' \in {"seed_find", "load"} /\ seed' \in 0 .. Len(Seeds)
        /\ pc' \in {"seed_find", "seed_insert"} <=> seed' # 0
    BY <1>1, NextSeedTypes
  <2>2. TypeOK'  BY <1>1, <2>1 DEF TypeOK
  <2>3. HandlerInv'  BY <2>1 DEF HandlerInv, CityHeld
  <2> QED BY <1>1, <2>1, <2>2, <2>3, SameBooks
<1>2. CASE Fail  BY <1>2, FailInv
<1> QED BY <1>1, <1>2

LEMMA SeedFindInv ==
  ASSUME IndInv, SeedFind
  PROVE  IndInv'
<1> USE DEF IndInv, SeedFind, db, durable, others
<1>1. seed \in 1 .. Len(Seeds) /\ seed + 1 \in Nat \ {0}
  BY SeedsLength DEF TypeOK
<1>2. CASE NextSeed(seed + 1) /\ UNCHANGED reading
  <2>1. /\ pc' \in {"seed_find", "load"} /\ seed' \in 0 .. Len(Seeds)
        /\ pc' \in {"seed_find", "seed_insert"} <=> seed' # 0
    BY <1>1, <1>2, NextSeedTypes
  <2>2. TypeOK'  BY <1>2, <2>1 DEF TypeOK
  <2>3. HandlerInv'  BY <2>1 DEF HandlerInv, CityHeld
  <2> QED BY <2>1, <2>2, <2>3, SameBooks
<1>3. CASE /\ MayRead({}) => ~HasPlace(prices, Seeds[seed].loc)
           /\ pc' = "seed_insert" /\ UNCHANGED seed
           /\ reading' = IF MayRead({}) THEN {"seed_find"} ELSE {}
  <2>1. TypeOK'  BY <1>1, <1>3 DEF TypeOK
  <2>2. reading' # {} => ~HasPlace(prices, Seeds[seed].loc)'
    BY <1>3 DEF HasPlace
  <2>3. HandlerInv'  BY <1>3, <2>2 DEF HandlerInv, CityHeld
  <2> QED BY <1>3, <2>1, <2>3, SameBooks
<1> QED BY <1>2, <1>3

LEMMA SeedInsertInv ==
  ASSUME IndInv, SeedInsert
  PROVE  IndInv'
<1> USE DEF IndInv, SeedInsert, others
<1>1. seed \in 1 .. Len(Seeds) /\ seed + 1 \in Nat \ {0}
  BY SeedsLength DEF TypeOK
<1>2. CASE /\ prices' = InsertRow(prices, Seeds[seed])
           /\ NextSeed(seed + 1) /\ reading' = {}
           /\ UNCHANGED <<rows, tx, frame, city, target, minutes, rate>> /\ Save
  <2>1. /\ pc' \in {"seed_find", "load"} /\ seed' \in 0 .. Len(Seeds)
        /\ pc' \in {"seed_find", "seed_insert"} <=> seed' # 0
    BY <1>1, <1>2, NextSeedTypes
  <2>2. Seeds[seed] \in PriceRows  BY <1>1, SeedsAssumption
  <2>3. IsTable(prices')  BY <1>2, <2>2, InsertRowTable DEF TypeOK
  <2>4. TypeOK'  BY <1>2, <2>1, <2>3 DEF TypeOK, Save
  <2>5. HandlerInv'  BY <2>1 DEF HandlerInv, CityHeld
  <2>6. Books'  BY <1>2, <2>1, SameRows DEF Books, ViewAhead
  <2> QED BY <2>4, <2>5, <2>6
<1>3. CASE Fail  BY <1>3, FailInv
<1> QED BY <1>2, <1>3

LEMMA LoadShmInv ==
  ASSUME IndInv, NEW shm \in Loads, LoadShm(shm)
  PROVE  IndInv'
<1> USE DEF IndInv, LoadShm, db, durable, others
<1>1. pc' = "idle"  BY DEF Leave
<1>2. TypeOK'  BY LeaveTypes, LoadsAssumption DEF TypeOK
<1> QED BY <1>1, <1>2, LeaveInv, SameBooks

(* The other processes and the clock leave the handler and its rows alone; *)
(* they write only while the server has no transaction open.               *)
LEMMA EnvironmentInv ==
  ASSUME IndInv, Environment
  PROVE  IndInv'
<1> USE DEF IndInv
<1>1. /\ UNCHANGED <<rows, tx, cache, reading, pc, frame, city, target, minutes, rate,
                   seed, acks>>
      /\ Save /\ IsTable(prices') /\ lock' \in LockLevels
      /\ clock' \in Clock /\ shifts' \in Nat
      /\ tx => lock' \in {"none", "shared"}
  <2>0. ~tx => disk = [rows |-> rows, prices |-> prices]  BY DEF Books, ViewAhead
  <2>00. tx => lock \in {"none", "shared"}  BY DEF Books, ViewAhead
  <2> USE DEF db, durable, locals, TypeOK
  <2>1. CASE OtherReads  BY <2>0, <2>1 DEF OtherReads, Save
  <2>2. CASE UpdaterWrites  BY <2>0, <2>2 DEF UpdaterWrites, Save
  <2>3. CASE UpdaterCommits  BY <2>0, <2>00, <2>3 DEF UpdaterCommits, Save
  <2>4. CASE OtherCloses  BY <2>0, <2>4 DEF OtherCloses, Save
  <2>5. CASE \E m \in Tariffs, l \in Locs : \E again \in Again(m) :
               \E t \in UpdaterTables(prices, m, l, again) : UpdaterDone(t)
    <3>1. PICK m \in Tariffs, l \in Locs : \E again \in Again(m) :
            \E t \in UpdaterTables(prices, m, l, again) : UpdaterDone(t)
      BY <2>5
    <3>2. PICK again \in Again(m) : \E t \in UpdaterTables(prices, m, l, again) : UpdaterDone(t)
      BY <3>1
    <3>3. PICK t \in UpdaterTables(prices, m, l, again) : UpdaterDone(t)
      BY <3>2
    <3>4. IsTable(t)  BY UpdaterTablesTable
    <3> QED BY <2>00, <3>3, <3>4 DEF UpdaterDone
  <2>6. CASE \E c \in Codes : UpdaterDone(DeleteCode(prices, c))
    <3>1. PICK c \in Codes : UpdaterDone(DeleteCode(prices, c))  BY <2>6
    <3>2. IsTable(DeleteCode(prices, c))  BY DeleteCodeTable
    <3> QED BY <2>00, <3>1, <3>2 DEF UpdaterDone
  <2>7. CASE Tick  BY <2>0, <2>00, <2>7, BoundsAssumption DEF Tick, Clock, Save
  <2>8. CASE SetBack  BY <2>0, <2>00, <2>8 DEF SetBack, Save
  <2> QED BY <2>1, <2>2, <2>3, <2>4, <2>5, <2>6, <2>7, <2>8 DEF Environment
<1>2. TypeOK'  BY <1>1 DEF TypeOK, Save
<1>3. OpenRows(frame.cust, city, frame.loc)' = OpenRows(frame.cust, city, frame.loc)
  BY <1>1 DEF OpenRows
<1>4. reading # {} => prices' = prices
  BY DEF Environment, OtherReads, UpdaterWrites, UpdaterCommits, OtherCloses,
         UpdaterDone, CanCommit, Tick, SetBack, db
<1>5. CityHeld'  BY <1>1, <1>4 DEF HandlerInv, CityHeld
<1>6. HandlerInv'
  <2>1. pc = "update_close" /\ city # NoCity => PriceInForce(city)' = PriceInForce(city)
    BY <1>1, <1>4 DEF HandlerInv, CityHeld, PriceInForce
  <2>2. pc' = "update_close" /\ city' # NoCity => rate' \in PriceInForce(city)'
    BY <1>1, <2>1 DEF HandlerInv
  <2>3. pc' = "seed_insert" /\ reading' # {} => ~HasPlace(prices, Seeds[seed].loc)'
    BY <1>1, <1>4 DEF HandlerInv, HasPlace
  <2> QED BY <1>1, <1>3, <1>5, <2>2, <2>3 DEF HandlerInv, ClosedIn
<1>7. tx => pc # "down"  BY DEF Books, ViewAhead
<1>8. Books'  BY <1>1, <1>7, SameRows
<1> QED BY <1>2, <1>6, <1>8

LEMMA StutterInv ==
  ASSUME IndInv, UNCHANGED vars
  PROVE  IndInv'
<1> USE DEF vars, db, durable, locals, others
<1>1. TypeOK'  BY DEF IndInv, TypeOK
<1>2. Save  BY DEF IndInv, Books, ViewAhead, Save
<1>3. Books'  BY <1>2, SameRows DEF IndInv, Books, ViewAhead
<1>4. HandlerInv'  BY DEF IndInv, HandlerInv, CityHeld, OpenRows, ClosedIn,
                           PriceInForce, HasPlace
<1> QED BY <1>1, <1>3, <1>4 DEF IndInv

(* One step of the server, of another process or of the clock.             *)
LEMMA StepInv == IndInv /\ [Next]_vars => IndInv'
<1> SUFFICES ASSUME IndInv, [Next]_vars PROVE IndInv'  OBVIOUS
<1>1. CASE \E f \in Frames : Receive(f)  BY <1>1, ReceiveInv
<1>2. CASE Handle
  BY <1>2, FindCityInv, CheckOpenInv, InsertInv, FindOpenInv, MinutesInv,
     PriceInv, UpdateCloseInv, ReplyInv DEF Handle
<1>3. CASE \E lines \in Tariffs, shm \in Loads : ApplyPriceChange(lines, shm)
  BY <1>3, ApplyPriceChangeInv
<1>4. CASE Crash  BY <1>4, CrashInv
<1>5. CASE Boot \/ SeedFind \/ SeedInsert \/ \E shm \in Loads : LoadShm(shm)
  BY <1>5, BootInv, SeedFindInv, SeedInsertInv, LoadShmInv
<1>6. CASE Environment  BY <1>6, EnvironmentInv
<1>7. CASE UNCHANGED vars  BY <1>7, StutterInv
<1> QED BY <1>1, <1>2, <1>3, <1>4, <1>5, <1>6, <1>7 DEF Next

(* The invariant holds in every state of every behaviour.                  *)
THEOREM Invariance == Spec => []IndInv
BY IndInvInit, StepInv, PTL DEF Spec

(* Type correctness of the frame handler and its table.                    *)
THEOREM TypeCorrect == Spec => []TypeOK
<1>1. IndInv => TypeOK  BY DEF IndInv
<1> QED BY <1>1, Invariance, PTL

(* A customer has at most one open session for a known city and place,     *)
(* for any number of customers, cities, places, restarts and updaters: the *)
(* double-open check of the status=1 branch is sound where a city is known. *)
THEOREM OneOpen == Spec => []OneOpenPerCity
<1>1. IndInv => OneOpenPerCity  BY DEF IndInv, Books
<1> QED BY <1>1, Invariance, PTL

(* What each statement of the handler may rely on, whatever other          *)
(* processes do to data.db between two of them.                            *)
THEOREM HandlerSound == Spec => []HandlerInv
<1>1. IndInv => HandlerInv  BY DEF IndInv
<1> QED BY <1>1, Invariance, PTL

(* The server's view of the database is the file, or the file plus an open *)
(* transaction during which nobody else writes.                            *)
THEOREM ViewSound == Spec => []ViewAhead
<1>1. IndInv => ViewAhead  BY DEF IndInv, Books
<1> QED BY <1>1, Invariance, PTL

(* No "OK CLOSED" precedes the UPDATE that closes its session.             *)
THEOREM AckSound == Spec => []AckedAfterClose
<1>1. IndInv => AckedAfterClose  BY DEF IndInv, Books
<1> QED BY <1>1, Invariance, PTL
-----------------------------------------------------------------------------
(* What a step may do to customer_data: nothing, a roll-back to the file,  *)
(* a new row, or the closing of the row find_open chose.                   *)
LEMMA RowSteps ==
  ASSUME IndInv, [Next]_vars
  PROVE  \/ rows' = rows /\ Save
         \/ rows' = disk.rows /\ disk' = disk /\ tx' = FALSE
         \/ pc = "insert" /\ rows' = Append(rows, NewRow) /\ Save /\ tx' = tx
         \/ /\ pc = "update_close" /\ rows' = [rows EXCEPT ![target] = Billed(@)]
            /\ Save /\ tx' = tx
<1>1. UNCHANGED <<db, durable>> => rows' = rows /\ Save
  BY DEF IndInv, Books, ViewAhead, Save, db, durable
<1>2. CASE \E f \in Frames : Receive(f)  BY <1>1, <1>2 DEF Receive
<1>3. CASE Handle
  BY <1>1, <1>3 DEF Handle, FindCity, CheckOpen, Insert, FindOpen, Minutes, Price,
     UpdateClose, Reply, Fail, db, durable
<1>4. CASE \E lines \in Tariffs, shm \in Loads : ApplyPriceChange(lines, shm)
  BY <1>4 DEF ApplyPriceChange
<1>5. CASE Crash  BY <1>5 DEF Crash
<1>6. CASE Boot \/ SeedFind \/ SeedInsert \/ \E shm \in Loads : LoadShm(shm)
  BY <1>1, <1>6 DEF Boot, SeedFind, SeedInsert, LoadShm, Fail, db, durable
<1>7. CASE Environment
  BY <1>1, <1>7 DEF Environment, OtherReads, UpdaterWrites, UpdaterCommits,
     UpdaterDone, OtherCloses, Tick, SetBack
<1>8. CASE UNCHANGED vars  BY <1>1, <1>8 DEF vars
<1> QED BY <1>2, <1>3, <1>4, <1>5, <1>6, <1>7, <1>8 DEF Next

(* What is committed stays: no behaviour of the server, its crashes and    *)
(* roll-backs included, loses, reopens or rewrites a bill of data.db.      *)
THEOREM BillsFinal == Spec => BillsAreFinal
<1>1. IndInv /\ [Next]_vars => Kept(disk.rows, disk.rows')
  <2> SUFFICES ASSUME IndInv, [Next]_vars PROVE Kept(disk.rows, disk.rows')  OBVIOUS
  <2>1. Kept(disk.rows, rows)  BY DEF IndInv, Books, ViewAhead
  <2>2. Save /\ Kept(disk.rows, rows') => Kept(disk.rows, disk.rows')
    BY KeptRefl DEF Save
  <2>3. CASE rows' = rows /\ Save  BY <2>1, <2>2, <2>3
  <2>4. CASE disk' = disk  BY <2>4, KeptRefl
  <2>5. CASE pc = "insert" /\ rows' = Append(rows, NewRow) /\ Save
    BY <2>1, <2>2, <2>5, InsertKeeps, KeptTrans
  <2>6. CASE /\ pc = "update_close" /\ rows' = [rows EXCEPT ![target] = Billed(@)]
             /\ Save
    BY <2>1, <2>2, <2>6, CloseKeeps, KeptTrans
  <2> QED BY <2>3, <2>4, <2>5, <2>6, RowSteps
<1> QED BY <1>1, Invariance, PTL DEF Spec, BillsAreFinal

(* A session in a known city is billed at the price in force when it is    *)
(* closed: the one in prices_cache, which is 0 only if the segment showed  *)
(* 0 when it was read, or else the one in the table.  What the updater     *)
(* removes or changes meanwhile never makes it the 0.0 of a missing row.   *)
THEOREM BillSound == Spec => BilledAtPriceInForce
<1>1. IndInv /\ [Next]_vars => BilledStep
  <2> SUFFICES ASSUME IndInv, [Next]_vars,
                      NEW i \in DOMAIN rows \cap DOMAIN rows',
                      rows[i].status = OPEN, rows'[i].status = CLOSE,
                      rows[i].code # NoCity
               PROVE  \E q \in PriceInForce(rows[i].code) :
                        rows'[i].fee = q * rows'[i].minutes
    BY DEF BilledStep
  <2>1. CASE rows' = rows  BY <2>1
  <2>2. CASE rows' = disk.rows
    BY <2>2 DEF IndInv, Books, ViewAhead, Kept
  <2>3. CASE pc = "insert" /\ rows' = Append(rows, NewRow)
    <3>1. rows'[i] = rows[i]  BY <2>3 DEF IndInv, TypeOK
    <3> QED BY <3>1
  <2>4. CASE pc = "update_close" /\ rows' = [rows EXCEPT ![target] = Billed(@)]
    <3>1. i = target  BY <2>4, CloseKeeps
    <3> QED BY <2>4, <3>1, CloseKeeps
  <2> QED BY <2>1, <2>2, <2>3, <2>4, RowSteps
<1>2. IndInv /\ [Next]_vars => [BilledStep]_vars  BY <1>1
<1> QED BY <1>2, Invariance, PTL DEF Spec, BilledAtPriceInForce
=============================================================================
