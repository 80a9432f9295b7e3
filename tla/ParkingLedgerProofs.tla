------------------------ MODULE ParkingLedgerProofs -------------------------
(***************************************************************************)
(* ParkingSessions implements SessionLedger, for every value of the        *)
(* constants: the initial book is empty, and every step of the server, of  *)
(* the other processes and of the clock is an entry of the ledger, loosens *)
(* it, settles it, strikes out what is loose, or leaves it alone.          *)
(***************************************************************************)
EXTENDS ParkingSessionsProofs

(* The status values.                                                      *)
USE DEF OPEN, CLOSE

(* One more open row: one more ticket if its city is known.                *)
LEMMA LedgerAdd ==
  ASSUME NEW rs, NEW rs2, NEW n, n \notin DOMAIN rs,
         DOMAIN rs2 = DOMAIN rs \cup {n},
         \A i \in DOMAIN rs : rs2[i] = rs[i],
         rs2[n].status = OPEN
  PROVE  LedgerOf(rs2) =
           IF rs2[n].code = NoCity THEN LedgerOf(rs)
           ELSE [open  |-> Ledger!Enter(n, LedgerOf(rs).open, SessionOf(rs2[n])),
                 bills |-> LedgerOf(rs).bills]
<1>1. Known(rs2, CLOSE) = Known(rs, CLOSE)  BY DEF Known
<1>2. Known(rs2, OPEN) = IF rs2[n].code = NoCity THEN Known(rs, OPEN)
                         ELSE Known(rs, OPEN) \cup {n}
  BY DEF Known
<1>3. \A i \in Known(rs, OPEN) \cup Known(rs, CLOSE) : i # n /\ rs2[i] = rs[i]
  BY DEF Known
<1>4. LedgerOf(rs2).bills = LedgerOf(rs).bills
  BY <1>1, <1>3 DEF LedgerOf
<1>5. LedgerOf(rs2).open = IF rs2[n].code = NoCity THEN LedgerOf(rs).open
                           ELSE Ledger!Enter(n, LedgerOf(rs).open, SessionOf(rs2[n]))
  BY <1>2, <1>3 DEF LedgerOf, Ledger!Enter
<1> QED BY <1>4, <1>5 DEF LedgerOf

(* One open row closed: its ticket, if any, becomes its bill.              *)
LEMMA LedgerClose ==
  ASSUME NEW rs, NEW rs2, NEW t \in DOMAIN rs, DOMAIN rs2 = DOMAIN rs,
         \A i \in DOMAIN rs : i # t => rs2[i] = rs[i],
         rs[t].status = OPEN, rs2[t].status = CLOSE, SameSession(rs[t], rs2[t])
  PROVE  LedgerOf(rs2) =
           IF rs[t].code = NoCity THEN LedgerOf(rs)
           ELSE [open  |-> Restrict(LedgerOf(rs).open, DOMAIN LedgerOf(rs).open \ {t}),
                 bills |-> Ledger!Enter(t, LedgerOf(rs).bills, BillOf(rs2[t]))]
<1>1. rs2[t].code = rs[t].code  BY DEF SameSession
<1>2. Known(rs2, OPEN) = Known(rs, OPEN) \ {t}  BY DEF Known
<1>3. Known(rs2, CLOSE) = IF rs[t].code = NoCity THEN Known(rs, CLOSE)
                          ELSE Known(rs, CLOSE) \cup {t}
  BY <1>1 DEF Known
<1>4. rs[t].code = NoCity => t \notin Known(rs, OPEN)  BY DEF Known
<1>5. t \notin Known(rs, CLOSE)  BY DEF Known
<1>6. \A i \in Known(rs, OPEN) \cup Known(rs, CLOSE) : i # t => rs2[i] = rs[i]
  BY DEF Known
<1>7. LedgerOf(rs2).open = IF rs[t].code = NoCity THEN LedgerOf(rs).open
        ELSE Restrict(LedgerOf(rs).open, DOMAIN LedgerOf(rs).open \ {t})
  BY <1>2, <1>4, <1>6 DEF LedgerOf, Restrict
<1>8. LedgerOf(rs2).bills = IF rs[t].code = NoCity THEN LedgerOf(rs).bills
        ELSE Ledger!Enter(t, LedgerOf(rs).bills, BillOf(rs2[t]))
  BY <1>3, <1>5, <1>6 DEF LedgerOf, Ledger!Enter
<1> QED BY <1>7, <1>8 DEF LedgerOf

LEMMA LedgerInitial == Init => Ledger!LedgerInit
<1> SUFFICES ASSUME Init PROVE Ledger!LedgerInit  OBVIOUS
<1>1. rows = <<>> /\ disk.rows = <<>> /\ tx = FALSE  BY DEF Init
<1>2. Known(<<>>, OPEN) = {} /\ Known(<<>>, CLOSE) = {}  BY DEF Known
<1>3. LedgerOf(<<>>) = [open |-> <<>>, bills |-> <<>>]  BY <1>2 DEF LedgerOf
<1> QED BY <1>1, <1>3 DEF Ledger!LedgerInit

(* insert is Start, unless the city is unknown.                            *)
LEMMA InsertIsEntry ==
  ASSUME IndInv, pc = "insert", rows' = Append(rows, NewRow), Save, tx' = tx
  PROVE  Ledger!Entry \/ UNCHANGED <<LedgerOf(rows), LedgerOf(disk.rows), tx>>
<1> DEFINE n == Len(rows) + 1
<1>1. rows \in Seq(Rows) /\ frame \in Frames /\ city \in Codes \cup {NoCity}
  BY DEF IndInv, TypeOK, HandlerInv, Steps
<1>2. /\ n \notin DOMAIN rows /\ DOMAIN rows' = DOMAIN rows \cup {n}
      /\ \A i \in DOMAIN rows : rows'[i] = rows[i]
      /\ rows'[n] = NewRow
  BY <1>1
<1>3. NewRow.status = OPEN /\ NewRow.code = city  BY DEF NewRow
<1> HIDE DEF n
<1>4. LedgerOf(rows)' = IF city = NoCity THEN LedgerOf(rows)
        ELSE [open  |-> Ledger!Enter(n, LedgerOf(rows).open, SessionOf(NewRow)),
              bills |-> LedgerOf(rows).bills]
  <2> DEFINE now == rows'
  <2>1. /\ DOMAIN now = DOMAIN rows \cup {n} /\ now[n] = NewRow
        /\ \A i \in DOMAIN rows : now[i] = rows[i]
    BY <1>2
  <2> HIDE DEF now
  <2>2. LedgerOf(now) = IF now[n].code = NoCity THEN LedgerOf(rows)
          ELSE [open  |-> Ledger!Enter(n, LedgerOf(rows).open, SessionOf(now[n])),
                bills |-> LedgerOf(rows).bills]
    BY <1>2, <1>3, <2>1, LedgerAdd
  <2> QED BY <1>3, <2>1, <2>2 DEF now
<1>5. ~tx => disk.rows = rows  BY DEF IndInv, Books, ViewAhead
<1>6. LedgerOf(disk.rows)' = IF tx THEN LedgerOf(disk.rows) ELSE LedgerOf(rows)'
  BY DEF Save
<1>7. CASE city = NoCity  BY <1>4, <1>5, <1>6, <1>7
<1>8. CASE city # NoCity
  <2>1. SessionOf(NewRow) \in Ledger!Sessions
    BY <1>1, <1>8 DEF SessionOf, NewRow, Frames, Ledger!Sessions
  <2>2. n \notin DOMAIN LedgerOf(rows).open \cup DOMAIN LedgerOf(rows).bills
    BY <1>2 DEF LedgerOf, Known
  <2>3. \A u \in DOMAIN LedgerOf(rows).open : LedgerOf(rows).open[u] # SessionOf(NewRow)
    <3> SUFFICES ASSUME NEW u \in Known(rows, OPEN),
                        SessionOf(rows[u]) = SessionOf(NewRow)
                 PROVE  FALSE
      BY DEF LedgerOf
    <3>1. u \in OpenRows(frame.cust, city, frame.loc)
      BY DEF Known, SessionOf, NewRow, OpenRows
    <3> QED BY <1>8, <3>1 DEF IndInv, HandlerInv
  <2>4. n \in DOMAIN LedgerOf(rows)'.open /\ LedgerOf(rows)'.open[n] = SessionOf(NewRow)
    BY <1>4, <1>8 DEF Ledger!Enter
  <2>5. Ledger!Start(n, LedgerOf(rows)'.open[n])
    BY <1>4, <1>8, <2>1, <2>2, <2>3, <2>4 DEF Ledger!Start
  <2> QED BY <1>6, <2>4, <2>5 DEF Ledger!Entry
<1> QED BY <1>7, <1>8

(* update_close is Stop, unless the city is unknown.                       *)
LEMMA CloseIsEntry ==
  ASSUME IndInv, pc = "update_close", rows' = [rows EXCEPT ![target] = Billed(@)],
         Save, tx' = tx
  PROVE  Ledger!Entry \/ UNCHANGED <<LedgerOf(rows), LedgerOf(disk.rows), tx>>
<1>1. /\ target \in DOMAIN rows /\ rows[target].status = OPEN
      /\ rows'[target] = Billed(rows[target]) /\ DOMAIN rows' = DOMAIN rows
  BY CloseKeeps
<1>2. rows \in Seq(Rows) /\ rows[target].code = city /\ minutes \in Int
  BY DEF IndInv, TypeOK, HandlerInv, OpenRows
<1>3. \A i \in DOMAIN rows : i # target => rows'[i] = rows[i]  BY <1>2
<1>4. /\ rows'[target].status = CLOSE /\ SameSession(rows[target], rows'[target])
      /\ BillOf(rows'[target]) = Ledger!Bill(SessionOf(rows[target]), minutes, rate)
  BY <1>1 DEF Billed, SameSession, BillOf, SessionOf, Ledger!Bill
<1>5. LedgerOf(rows)' = IF city = NoCity THEN LedgerOf(rows)
        ELSE [open  |-> Restrict(LedgerOf(rows).open, DOMAIN LedgerOf(rows).open \ {target}),
              bills |-> Ledger!Enter(target, LedgerOf(rows).bills, BillOf(rows'[target]))]
  <2> DEFINE now == rows'
  <2>1. /\ DOMAIN now = DOMAIN rows /\ \A i \in DOMAIN rows : i # target => now[i] = rows[i]
        /\ now[target].status = CLOSE /\ SameSession(rows[target], now[target])
    BY <1>1, <1>3, <1>4
  <2> HIDE DEF now
  <2>2. LedgerOf(now) = IF rows[target].code = NoCity THEN LedgerOf(rows)
          ELSE [open  |-> Restrict(LedgerOf(rows).open,
                                   DOMAIN LedgerOf(rows).open \ {target}),
                bills |-> Ledger!Enter(target, LedgerOf(rows).bills, BillOf(now[target]))]
    BY <1>1, <2>1, LedgerClose
  <2> QED BY <1>2, <2>2 DEF now
<1>6. ~tx => disk.rows = rows  BY DEF IndInv, Books, ViewAhead
<1>7. LedgerOf(disk.rows)' = IF tx THEN LedgerOf(disk.rows) ELSE LedgerOf(rows)'
  BY DEF Save
<1>8. CASE city = NoCity  BY <1>5, <1>6, <1>7, <1>8
<1>9. CASE city # NoCity
  <2>1. rate \in Rates \cup {0}  BY DEF IndInv, TypeOK
  <2>2. target \in Known(rows, OPEN)  BY <1>1, <1>2, <1>9 DEF Known
  <2>3. target \in DOMAIN LedgerOf(rows).open
        /\ LedgerOf(rows).open[target] = SessionOf(rows[target])
    BY <2>2 DEF LedgerOf
  <2>4. target \in DOMAIN LedgerOf(rows)'.bills
        /\ LedgerOf(rows)'.bills[target] = BillOf(rows'[target])
    BY <1>5, <1>9 DEF Ledger!Enter
  <2>5. LedgerOf(rows)'.bills[target].minutes = minutes
    BY <1>4, <2>4 DEF Ledger!Bill
  <2>6. Ledger!Stop(target, LedgerOf(rows)'.bills[target].minutes, rate)
    BY <1>2, <1>4, <1>5, <1>9, <2>3, <2>5
    DEF Ledger!Stop, Restrict, Ledger!Restrict
  <2> QED BY <1>7, <2>1, <2>4, <2>6 DEF Ledger!Entry
<1> QED BY <1>8, <1>9

LEMMA LedgerStep ==
  ASSUME IndInv, [Next]_vars
  PROVE  [Ledger!LedgerNext]_<<LedgerOf(rows), LedgerOf(disk.rows), tx>>
<1>1. tx \in BOOLEAN /\ tx' \in BOOLEAN  BY StepInv DEF IndInv, TypeOK
<1>2. ~tx => disk.rows = rows  BY DEF IndInv, Books, ViewAhead
<1>3. CASE rows' = rows /\ Save
  <2>1. CASE tx' = tx
    <3>1. disk'.rows = disk.rows  BY <1>2, <1>3, <2>1 DEF Save
    <3> QED BY <1>3, <2>1, <3>1
  <2>2. CASE ~tx /\ tx'
    BY <1>3, <2>2 DEF Save, Ledger!LedgerNext, Ledger!Loosen
  <2>3. CASE tx /\ ~tx'
    <3>1. tx' = FALSE /\ LedgerOf(disk.rows)' = LedgerOf(rows)
      BY <1>1, <1>3, <2>3 DEF Save
    <3> QED BY <1>3, <2>3, <3>1 DEF Ledger!LedgerNext, Ledger!Settle
  <2> QED BY <1>1, <2>1, <2>2, <2>3
<1>4. CASE rows' = disk.rows /\ disk' = disk /\ tx' = FALSE
  <2>1. CASE tx  BY <1>4, <2>1 DEF Ledger!LedgerNext, Ledger!StrikeOut
  <2>2. CASE ~tx  BY <1>1, <1>2, <1>4, <2>2
  <2> QED BY <2>1, <2>2
<1>5. CASE pc = "insert" /\ rows' = Append(rows, NewRow) /\ Save /\ tx' = tx
  BY <1>5, InsertIsEntry DEF Ledger!LedgerNext
<1>6. CASE /\ pc = "update_close" /\ rows' = [rows EXCEPT ![target] = Billed(@)]
           /\ Save /\ tx' = tx
  BY <1>6, CloseIsEntry DEF Ledger!LedgerNext
<1> QED BY <1>3, <1>4, <1>5, <1>6, RowSteps

(* The server, with every process that works beside it and every crash,    *)
(* keeps the promises of the ledger.                                       *)
THEOREM Refinement == Spec => ImplementsLedger
<1>1. IndInv /\ [Next]_vars
        => [Ledger!LedgerNext]_<<LedgerOf(rows), LedgerOf(disk.rows), tx>>
  BY LedgerStep
<1> QED BY <1>1, LedgerInitial, Invariance, PTL DEF Spec, ImplementsLedger, Ledger!LedgerSpec
=============================================================================
