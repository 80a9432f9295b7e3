------------------------ MODULE ParkingBillingProofs ------------------------
(***************************************************************************)
(* Nobody is overcharged by a second or more, and no time is billed twice, *)
(* while the wall clock is never set back, for every value of the          *)
(* constants of ParkingSessions.                                           *)
(***************************************************************************)
EXTENDS ParkingSessionsProofs

(* Minutes in ticks, and whether they fit into a time of so many ticks but *)
(* for less than a second.                                                 *)
Ticks(m)   == m * SecondsPerMinute * TicksPerSecond
Fits(m, t) == 0 <= m /\ Ticks(m) < t + TicksPerSecond

(* What a bill may say.                                                    *)
Paid(r) == Fits(r.minutes, r.ended - r.created)

(* No session begins later than now, and every bill is right.              *)
Timed(rs, now) ==
  \A i \in DOMAIN rs : rs[i].created <= now /\ (rs[i].status = CLOSE => Paid(rs[i]))

(* The minutes counted for the session being closed have passed by now.    *)
MinutesPassed ==
  pc \in {"price", "update_close"} => Fits(minutes, clock - rows[target].created)

(* NoOvercharge is not inductive: what `minutes' says is checked against   *)
(* the clock only when the row is written, and a roll-back restores bills  *)
(* of the file.                                                            *)
ClockInv ==
  shifts = 0 => Timed(rows, clock) /\ Timed(disk.rows, clock) /\ MinutesPassed

(* Integer division by the length of a minute never rounds up.             *)
LEMMA DivTruncBound ==
  ASSUME NEW a \in Int, 0 <= a, NEW b \in Nat \ {0}
  PROVE  0 <= DivTrunc(a, b) /\ DivTrunc(a, b) * b <= a
<1>1. a = b * (a \div b) + (a % b) /\ 0 <= a % b /\ a \div b \in Int  OBVIOUS
<1>2. 0 <= a \div b  OBVIOUS
<1>3. b * (a \div b) = (a \div b) * b  BY <1>1
<1>4. b * (a \div b) <= a  BY <1>1
<1> QED BY <1>2, <1>3, <1>4 DEF DivTrunc

LEMMA TicksInt == \A m \in Int : Ticks(m) \in Int
BY TicksAssumption DEF Ticks

(* Whole seconds: less than a second is left out.                          *)
LEMMA SecBound ==
  ASSUME NEW t \in Int
  PROVE  /\ Sec(t) \in Int
         /\ Sec(t) * TicksPerSecond <= t /\ t < Sec(t) * TicksPerSecond + TicksPerSecond
<1> DEFINE n == TicksPerSecond
           q == t \div n
<1>1. n \in Nat \ {0}  BY TicksAssumption
<1> HIDE DEF n
<1>2. t = n * q + (t % n) /\ 0 <= t % n /\ t % n < n /\ q \in Int  BY <1>1
<1>3. n * q = q * n /\ n * q \in Int /\ t % n \in Int  BY <1>1, <1>2
<1>4. q * n <= t /\ t < q * n + n  BY <1>1, <1>2, <1>3
<1> QED BY <1>2, <1>4 DEF Sec, n

(* A later time is no earlier second.                                      *)
LEMMA SecMonotone ==
  ASSUME NEW t \in Int, NEW u \in Int, t <= u
  PROVE  Sec(t) <= Sec(u)
<1> SUFFICES ASSUME Sec(u) + 1 <= Sec(t) PROVE FALSE  BY SecBound
<1> DEFINE n == TicksPerSecond
           a == Sec(t)
           b == Sec(u)
<1>1. /\ n \in Nat \ {0} /\ a \in Int /\ b \in Int
      /\ a * n <= t /\ u < b * n + n /\ b + 1 <= a
  BY SecBound, TicksAssumption
<1> HIDE DEF n, a, b
<1>2. (b + 1) * n <= a * n  BY <1>1
<1>3. (b + 1) * n = b * n + n /\ b * n \in Int /\ a * n \in Int  BY <1>1
<1> QED BY <1>1, <1>2, <1>3

(* Minutes counted from whole seconds fit into the time that has passed.   *)
LEMMA MinutesFit ==
  ASSUME NEW t \in Int, NEW u \in Int, t <= u
  PROVE  Fits(DivTrunc(Sec(u) - Sec(t), SecondsPerMinute), u - t)
<1> DEFINE n == TicksPerSecond
           m == SecondsPerMinute
           a == Sec(t)
           b == Sec(u)
           k == DivTrunc(b - a, m)
<1>1. n \in Nat \ {0} /\ m \in Nat \ {0}  BY TicksAssumption
<1>2. /\ a \in Int /\ t < a * n + n
      /\ b \in Int /\ b * n <= u
      /\ a <= b
  BY SecBound, SecMonotone
<1> HIDE DEF n, m, a, b
<1>3. 0 <= b - a /\ b - a \in Int  BY <1>2
<1>4. 0 <= k /\ k * m <= b - a  BY <1>1, <1>3, DivTruncBound
<1>5. k \in Int  BY <1>1, <1>3, DivTruncInt
<1> HIDE DEF k
<1>6. k * m \in Int  BY <1>1, <1>5
<1> DEFINE s == k * m
<1>7. s \in Int /\ s <= b - a  BY <1>4, <1>6
<1> HIDE DEF s
<1>8. s * n <= (b - a) * n  BY <1>1, <1>2, <1>7
<1>9. (b - a) * n = b * n - a * n /\ a * n \in Int /\ b * n \in Int /\ s * n \in Int
  BY <1>1, <1>2, <1>7
<1>10. s * n < (u - t) + n  BY <1>1, <1>2, <1>8, <1>9
<1> QED BY <1>4, <1>10 DEF Fits, Ticks, s, n, m, a, b, k

(* What fits into a time fits into a longer one.                           *)
LEMMA FitsLonger ==
  ASSUME NEW m \in Int, NEW t \in Int, NEW u \in Int, t <= u, Fits(m, t)
  PROVE  Fits(m, u)
BY TicksInt, TicksAssumption DEF Fits

(* The types the bounds need.                                              *)
LEMMA Typed ==
  ASSUME IndInv
  PROVE  /\ clock \in Int /\ shifts \in Nat /\ minutes \in Int
         /\ rows \in Seq(Rows) /\ disk.rows \in Seq(Rows)
         /\ \A i \in DOMAIN rows : rows[i].created \in Int
         /\ \A i \in DOMAIN disk.rows : disk.rows[i].created \in Int
<1>1. clock \in Int /\ Clock \subseteq Int  BY BoundsAssumption DEF IndInv, TypeOK, Clock
<1>2. rows \in Seq(Rows) /\ disk.rows \in Seq(Rows)  BY DEF IndInv, TypeOK
<1>3. \A r \in Rows : r.created \in Int  BY <1>1 DEF Rows
<1>4. minutes \in Int /\ shifts \in Nat  BY DEF IndInv, TypeOK
<1> QED BY <1>1, <1>2, <1>3, <1>4

(* The same of the next state.                                             *)
LEMMA TypedNext ==
  ASSUME IndInv'
  PROVE  /\ clock' \in Int
         /\ \A i \in DOMAIN rows' : rows'[i].created \in Int
         /\ \A i \in DOMAIN disk.rows' : disk.rows'[i].created \in Int
<1>1. clock' \in Int /\ Clock \subseteq Int  BY BoundsAssumption DEF IndInv, TypeOK, Clock
<1>2. rows' \in Seq(Rows) /\ disk.rows' \in Seq(Rows)  BY DEF IndInv, TypeOK
<1>3. \A r \in Rows : r.created \in Int  BY <1>1 DEF Rows
<1> QED BY <1>1, <1>2, <1>3

(* Time only goes on.                                                      *)
LEMMA TimedLater ==
  ASSUME NEW rs, NEW t \in Int, NEW u \in Int, t <= u,
         \A i \in DOMAIN rs : rs[i].created \in Int, Timed(rs, t)
  PROVE  Timed(rs, u)
BY DEF Timed

LEMMA ClockSteps ==
  ASSUME IndInv, [Next]_vars, shifts' = 0
  PROVE  shifts = 0 /\ clock <= clock'
<1>1. clock \in Int /\ shifts \in Nat  BY Typed
<1>2. UNCHANGED <<clock, shifts>> => shifts = 0 /\ clock <= clock'  BY <1>1
<1>3. CASE \E f \in Frames : Receive(f)  BY <1>2, <1>3 DEF Receive, others
<1>4. CASE Handle
  BY <1>2, <1>4 DEF Handle, FindCity, CheckOpen, Insert, FindOpen, Minutes, Price,
     UpdateClose, Reply, others
<1>5. CASE \E lines \in Tariffs, shm \in Loads : ApplyPriceChange(lines, shm)
  BY <1>2, <1>5 DEF ApplyPriceChange, others
<1>6. CASE Crash  BY <1>2, <1>6 DEF Crash, others
<1>7. CASE Boot \/ SeedFind \/ SeedInsert \/ \E shm \in Loads : LoadShm(shm)
  BY <1>2, <1>7 DEF Boot, SeedFind, SeedInsert, LoadShm, others
<1>8. CASE Environment
  <2>1. ~SetBack  BY <1>1 DEF SetBack
  <2>2. Tick => shifts = 0 /\ clock <= clock'  BY <1>1 DEF Tick
  <2> QED
    BY <1>2, <1>8, <2>1, <2>2 DEF Environment, OtherReads, UpdaterWrites,
       UpdaterCommits, UpdaterDone, OtherCloses
<1>9. CASE UNCHANGED vars  BY <1>2, <1>9 DEF vars, others
<1> QED BY <1>3, <1>4, <1>5, <1>6, <1>7, <1>8, <1>9 DEF Next

(* Minutes are counted once, and the row they are for is not touched       *)
(* before they are written to it.                                          *)
LEMMA MinutesSteps ==
  ASSUME IndInv, [Next]_vars, pc' \in {"price", "update_close"}
  PROVE  /\ rows' = rows /\ target' = target
         /\ \/ Minutes
            \/ pc \in {"price", "update_close"} /\ minutes' = minutes
<1>1. UNCHANGED vars \/ Minutes \/ Price \/ (UNCHANGED <<pc, locals, rows>>)
  <2>1. CASE \E f \in Frames : Receive(f)  BY <2>1 DEF Receive
  <2>2. CASE Handle
    BY <2>2 DEF Handle, FindCity, AfterCity, CheckOpen, Insert, FindOpen, UpdateClose,
       Reply, Leave, Fail
  <2>3. CASE \E lines \in Tariffs, shm \in Loads : ApplyPriceChange(lines, shm)
    BY <2>3 DEF ApplyPriceChange
  <2>4. CASE Crash  BY <2>4 DEF Crash, Leave
  <2>5. CASE Boot \/ SeedFind \/ SeedInsert \/ \E shm \in Loads : LoadShm(shm)
    BY <2>5 DEF Boot, SeedFind, SeedInsert, LoadShm, NextSeed, Leave, Fail
  <2>6. CASE Environment
    BY <2>6 DEF Environment, OtherReads, UpdaterWrites, UpdaterCommits, UpdaterDone,
       OtherCloses, Tick, SetBack, db
  <2> QED BY <2>1, <2>2, <2>3, <2>4, <2>5, <2>6 DEF Next
<1> QED BY <1>1 DEF vars, locals, db, Minutes, Price
-----------------------------------------------------------------------------
LEMMA ClockInvInit == Init => ClockInv
<1> SUFFICES ASSUME Init PROVE ClockInv  OBVIOUS
<1>1. rows = <<>> /\ disk.rows = <<>> /\ pc = "idle"  BY DEF Init
<1> QED BY <1>1 DEF ClockInv, Timed, MinutesPassed

(* A new row begins now; its bill is still to come.                        *)
LEMMA InsertTimed ==
  ASSUME IndInv, pc = "insert", rows' = Append(rows, NewRow), Timed(rows, clock)
  PROVE  Timed(rows', clock)
<1>1. rows \in Seq(Rows) /\ clock \in Int  BY Typed
<1>2. /\ DOMAIN rows' = DOMAIN rows \cup {Len(rows) + 1}
      /\ \A i \in DOMAIN rows : rows'[i] = rows[i]
      /\ rows'[Len(rows) + 1] = NewRow
  BY <1>1
<1>3. NewRow.created = clock /\ NewRow.status # CLOSE  BY DEF NewRow, OPEN, CLOSE
<1>4. ASSUME NEW i \in DOMAIN rows', i \notin DOMAIN rows
      PROVE  rows'[i].created <= clock /\ rows'[i].status # CLOSE
  BY <1>1, <1>2, <1>3, <1>4
<1>5. ASSUME NEW i \in DOMAIN rows
      PROVE  rows'[i].created <= clock /\ (rows'[i].status = CLOSE => Paid(rows'[i]))
  BY <1>2 DEF Timed
<1> QED BY <1>4, <1>5 DEF Timed

(* A bill is written for minutes that have passed.                         *)
LEMMA CloseTimed ==
  ASSUME IndInv, pc = "update_close", rows' = [rows EXCEPT ![target] = Billed(@)],
         Timed(rows, clock), MinutesPassed
  PROVE  Timed(rows', clock)
<1>1. /\ target \in DOMAIN rows /\ rows'[target] = Billed(rows[target])
      /\ DOMAIN rows' = DOMAIN rows
  BY CloseKeeps
<1>2. \A i \in DOMAIN rows : i # target => rows'[i] = rows[i]  OBVIOUS
<1>3. Fits(minutes, clock - rows[target].created)  BY DEF MinutesPassed
<1>4. rows'[target].minutes = minutes /\ rows'[target].ended = clock
      /\ rows'[target].created = rows[target].created
  BY <1>1 DEF Billed
<1>5. Paid(rows'[target]) /\ rows'[target].created = rows[target].created
  BY <1>3, <1>4 DEF Paid
<1> QED BY <1>1, <1>2, <1>5 DEF Timed

LEMMA RowsTimed ==
  ASSUME IndInv, [Next]_vars, shifts' = 0, ClockInv
  PROVE  Timed(rows', clock') /\ Timed(disk.rows', clock')
<1>1. shifts = 0 /\ clock <= clock'  BY ClockSteps
<1>2. Timed(rows, clock) /\ Timed(disk.rows, clock) /\ MinutesPassed  BY <1>1 DEF ClockInv
<1>3. IndInv'  BY StepInv
<1>4. clock \in Int /\ clock' \in Int  BY <1>3, Typed, TypedNext
<1>5. Timed(rows', clock)
  BY <1>2, RowSteps, InsertTimed, CloseTimed
<1>6. Timed(disk.rows', clock)
  <2>1. Save => disk.rows' = disk.rows \/ disk.rows' = rows'  BY DEF Save
  <2> QED BY <1>2, <1>5, <2>1, RowSteps
<1>7. /\ \A i \in DOMAIN rows' : rows'[i].created \in Int
      /\ \A i \in DOMAIN disk.rows' : disk.rows'[i].created \in Int
  BY <1>3, TypedNext
<1> QED BY <1>1, <1>4, <1>5, <1>6, <1>7, TimedLater

LEMMA MinutesTimed ==
  ASSUME IndInv, [Next]_vars, shifts' = 0, ClockInv
  PROVE  MinutesPassed'
<1> SUFFICES ASSUME pc' \in {"price", "update_close"}
             PROVE  Fits(minutes', clock' - rows'[target'].created)
  BY DEF MinutesPassed
<1>1. shifts = 0 /\ clock <= clock'  BY ClockSteps
<1>2. Timed(rows, clock) /\ MinutesPassed  BY <1>1 DEF ClockInv
<1>3. IndInv'  BY StepInv
<1>4. clock \in Int /\ clock' \in Int /\ minutes \in Int  BY <1>3, Typed, TypedNext
<1>5. rows' = rows /\ target' = target  BY MinutesSteps
<1>6. CASE Minutes
  <2>1. target \in DOMAIN rows
    BY <1>6 DEF Minutes, IndInv, HandlerInv, OpenRows
  <2>2. rows[target].created \in Int /\ rows[target].created <= clock
    BY <1>2, <2>1, Typed DEF Timed
  <2>3. /\ minutes' = DivTrunc(Sec(clock) - Sec(rows[target].created), SecondsPerMinute)
        /\ clock' = clock
    BY <1>6 DEF Minutes, others
  <2>4. Fits(minutes', clock - rows[target].created)
    BY <1>4, <2>2, <2>3, MinutesFit
  <2> QED BY <1>5, <2>3, <2>4
<1>7. CASE pc \in {"price", "update_close"} /\ minutes' = minutes
  <2>1. Fits(minutes, clock - rows[target].created)
    BY <1>2, <1>7 DEF MinutesPassed
  <2>2. target \in DOMAIN rows
    <3>1. pc \in {"minutes", "price", "update_close"}  BY <1>7
    <3> QED BY <3>1 DEF IndInv, HandlerInv, OpenRows
  <2>3. rows[target].created \in Int  BY <2>2, Typed
  <2> DEFINE t == clock - rows[target].created
             u == clock' - rows[target].created
  <2>4. t \in Int /\ u \in Int /\ t <= u  BY <1>1, <1>4, <2>3
  <2>5. Fits(minutes, u)
    <3>1. Fits(minutes, t)  BY <2>1
    <3> HIDE DEF t, u
    <3> QED BY <1>4, <2>4, <3>1, FitsLonger
  <2> QED BY <1>5, <1>7, <2>5
<1> QED BY <1>6, <1>7, MinutesSteps

(* While the wall clock was never set back, no bill has a negative number  *)
(* of minutes, and what is billed exceeds the time between created_at and  *)
(* ended_at by less than one second, whatever the resolution of the clock  *)
(* and however long the handler waits between its statements.  The second  *)
(* is what strftime('%s') may add by cutting both times to whole seconds.  *)
THEOREM NeverOvercharged == Spec => []NoOvercharge
<1>1. IndInv /\ ClockInv /\ [Next]_vars => ClockInv'
  <2> SUFFICES ASSUME IndInv, ClockInv, [Next]_vars, shifts' = 0
               PROVE  Timed(rows', clock') /\ Timed(disk.rows', clock') /\ MinutesPassed'
    BY DEF ClockInv
  <2> QED BY RowsTimed, MinutesTimed
<1>2. ClockInv => NoOvercharge
  BY DEF ClockInv, NoOvercharge, Timed, Paid, Fits, Ticks, ClosedIn
<1> QED BY <1>1, <1>2, ClockInvInit, Invariance, PTL DEF Spec
-----------------------------------------------------------------------------
(* No row ends later than now (an open one's end is its beginning).        *)
Ends(rs, now) == \A i \in DOMAIN rs : rs[i].ended <= now

(* NoTimeBilledTwice is not inductive: a new session begins after the one  *)
(* before it has ended because no session has ended in the future.         *)
ApartInv ==
  shifts = 0 => /\ Apart(rows) /\ Ends(rows, clock)
                /\ Apart(disk.rows) /\ Ends(disk.rows, clock)

LEMMA EndTypes ==
  /\ IndInv => /\ \A i \in DOMAIN rows : rows[i].ended \in Int
               /\ \A i \in DOMAIN disk.rows : disk.rows[i].ended \in Int
  /\ IndInv' => /\ \A i \in DOMAIN rows' : rows'[i].ended \in Int
                /\ \A i \in DOMAIN disk.rows' : disk.rows'[i].ended \in Int
<1>1. \A r \in Rows : r.ended \in Int
  BY BoundsAssumption DEF Clock, Rows
<1> QED BY <1>1 DEF IndInv, TypeOK

(* A session is inserted only when every earlier one has ended.            *)
LEMMA InsertApart ==
  ASSUME IndInv, pc = "insert", rows' = Append(rows, NewRow),
         Apart(rows), Ends(rows, clock)
  PROVE  Apart(rows') /\ Ends(rows', clock)
<1>1. rows \in Seq(Rows) /\ Len(rows) \in Nat /\ clock \in Int
  BY Typed
<1>2. /\ DOMAIN rows = 1 .. Len(rows) /\ DOMAIN rows' = 1 .. Len(rows) + 1
      /\ rows'[Len(rows) + 1] = NewRow
      /\ \A i \in DOMAIN rows : rows'[i] = rows[i]
  BY <1>1
<1>3. ASSUME NEW i \in DOMAIN rows, SameSession(rows[i], NewRow), rows[i].code # NoCity
      PROVE  rows[i].status = CLOSE
  <2>1. city # NoCity /\ OpenRows(frame.cust, city, frame.loc) = {}
    BY <1>3 DEF SameSession, NewRow, IndInv, HandlerInv
  <2>2. rows[i].status # OPEN
    BY <1>3, <2>1 DEF SameSession, NewRow, OpenRows
  <2>3. rows[i] \in Rows
    BY <1>1, <1>3
  <2> QED BY <2>2, <2>3 DEF Rows
<1>4. NewRow.created = clock /\ NewRow.ended = clock
  BY DEF NewRow
<1>5. Ends(rows', clock)
  BY <1>1, <1>2, <1>4 DEF Ends
<1>6. ASSUME NEW i \in DOMAIN rows', NEW j \in DOMAIN rows', i < j,
             SameSession(rows'[i], rows'[j]), rows'[i].code # NoCity
      PROVE  rows'[i].status = CLOSE /\ rows'[i].ended <= rows'[j].created
  <2>1. i \in DOMAIN rows /\ rows'[i] = rows[i]
    BY <1>1, <1>2, <1>6
  <2>2. CASE j \in DOMAIN rows
    BY <1>2, <1>6, <2>1, <2>2 DEF Apart
  <2>3. CASE j = Len(rows) + 1
    BY <1>2, <1>3, <1>4, <1>6, <2>1, <2>3 DEF Ends
  <2> QED BY <1>1, <1>2, <2>2, <2>3
<1> QED BY <1>5, <1>6 DEF Apart

(* The session that is closed is the last one.                             *)
LEMMA CloseApart ==
  ASSUME IndInv, pc = "update_close", rows' = [rows EXCEPT ![target] = Billed(@)],
         Apart(rows), Ends(rows, clock)
  PROVE  Apart(rows') /\ Ends(rows', clock)
<1>1. /\ target \in DOMAIN rows /\ rows[target].status = OPEN
      /\ rows'[target] = Billed(rows[target]) /\ DOMAIN rows' = DOMAIN rows
  BY CloseKeeps
<1>2. \A i \in DOMAIN rows : i # target => rows'[i] = rows[i]
  OBVIOUS
<1>3. /\ rows'[target].ended = clock /\ rows'[target].created = rows[target].created
      /\ rows'[target].cust = rows[target].cust /\ rows'[target].code = rows[target].code
      /\ rows'[target].loc = rows[target].loc
  BY <1>1 DEF Billed
<1>4. clock \in Int
  BY Typed
<1>5. Ends(rows', clock)
  BY <1>1, <1>2, <1>3, <1>4 DEF Ends
<1>6. ASSUME NEW i \in DOMAIN rows, NEW j \in DOMAIN rows, i < j,
             SameSession(rows'[i], rows'[j]), rows'[i].code # NoCity
      PROVE  rows'[i].status = CLOSE /\ rows'[i].ended <= rows'[j].created
  <2>1. /\ SameSession(rows[i], rows[j]) /\ rows[i].code # NoCity
        /\ rows'[j].created = rows[j].created
    BY <1>2, <1>3, <1>6 DEF SameSession
  <2>2. rows[i].status = CLOSE /\ rows[i].ended <= rows[j].created
    BY <1>6, <2>1 DEF Apart
  <2>3. i # target
    BY <1>1, <2>2 DEF OPEN, CLOSE
  <2> QED BY <1>2, <2>1, <2>2, <2>3
<1> QED BY <1>1, <1>5, <1>6 DEF Apart

LEMMA ApartKept == IndInv /\ ApartInv /\ [Next]_vars => ApartInv'
<1> SUFFICES ASSUME IndInv, ApartInv, [Next]_vars, shifts' = 0
             PROVE  /\ Apart(rows') /\ Ends(rows', clock')
                    /\ Apart(disk.rows') /\ Ends(disk.rows', clock')
  BY DEF ApartInv
<1>1. shifts = 0 /\ clock <= clock'
  BY ClockSteps
<1>2. /\ Apart(rows) /\ Ends(rows, clock)
      /\ Apart(disk.rows) /\ Ends(disk.rows, clock)
  BY <1>1 DEF ApartInv
<1>3. IndInv'
  BY StepInv
<1>4. clock \in Int /\ clock' \in Int
  BY <1>3, Typed, TypedNext
<1>5. Apart(rows') /\ Ends(rows', clock)
  BY <1>2, RowSteps, InsertApart, CloseApart
<1>6. Apart(disk.rows') /\ Ends(disk.rows', clock)
  <2>1. Save => disk.rows' = disk.rows \/ disk.rows' = rows'
    BY DEF Save
  <2> QED BY <1>2, <1>5, <2>1, RowSteps
<1>7. Ends(rows', clock') /\ Ends(disk.rows', clock')
  BY <1>1, <1>3, <1>4, <1>5, <1>6, EndTypes DEF Ends
<1> QED BY <1>5, <1>6, <1>7

(* While the wall clock was never set back, two sessions of a customer at  *)
(* a place in a known city never overlap, in the server's view and in the  *)
(* file: no repeated START and no lost STOP makes time be billed twice.    *)
THEOREM NeverTwice == Spec => []NoTimeBilledTwice
<1>1. Init => ApartInv
  BY DEF Init, ApartInv, Apart, Ends
<1>2. ApartInv => NoTimeBilledTwice
  BY DEF ApartInv, NoTimeBilledTwice
<1> QED BY <1>1, <1>2, ApartKept, Invariance, PTL DEF Spec
=============================================================================
