--------------------------- MODULE SessionLedger ----------------------------
(***************************************************************************)
(* What the server promises about paid parking in known cities: a session  *)
(* is one customer in one city at one place; it is open at most once, it   *)
(* ends in exactly one bill, and the bill is a whole number of minutes at  *)
(* one of the prices in use, or at 0, which is what an entry of the shared *)
(* segment shows that is not written yet.  What is in the book is firm at  *)
(* once, except while the book is loose: entries then become firm          *)
(* together, later, or are struck out together.  Nothing else ever happens *)
(* to a session: no frame, signal, price change, lock or crash loses,      *)
(* splits or rewrites one.  ParkingSessions is shown to implement it.      *)
(***************************************************************************)
EXTENDS Integers, Functions

CONSTANTS Customers, Codes, Locs, Rates

VARIABLES
  book,         \* [open, bills]: the session of each ticket still open and
                \* the bill of each ticket closed
  firm,         \* the part of the book that cannot be struck out
  loose         \* new entries are not firm yet

Sessions == [cust: Customers, code: Codes, loc: Locs]

Bill(s, m, q) == [session |-> s, minutes |-> m, fee |-> q * m]

LedgerInit ==
  /\ book = [open |-> <<>>, bills |-> <<>>]
  /\ firm = book /\ loose = FALSE

Enter(t, f, x) == [u \in DOMAIN f \cup {t} |-> IF u = t THEN x ELSE f[u]]

(* A ticket for a session that is not open.                                *)
Start(t, s) ==
  /\ t \notin DOMAIN book.open \cup DOMAIN book.bills
  /\ s \in Sessions /\ \A u \in DOMAIN book.open : book.open[u] # s
  /\ book' = [open |-> Enter(t, book.open, s), bills |-> book.bills]

(* The ticket of an open session becomes its bill.                         *)
Stop(t, m, q) ==
  /\ t \in DOMAIN book.open /\ m \in Int
  /\ book' = [open  |-> Restrict(book.open, DOMAIN book.open \ {t}),
              bills |-> Enter(t, book.bills, Bill(book.open[t], m, q))]

Entry ==
  /\ \/ \E t \in DOMAIN book'.open : Start(t, book'.open[t])
     \/ \E t \in DOMAIN book'.bills, q \in Rates \cup {0} : Stop(t, book'.bills[t].minutes, q)
  /\ firm' = IF loose THEN firm ELSE book'
  /\ UNCHANGED loose

Loosen == ~loose /\ loose' = TRUE /\ UNCHANGED <<book, firm>>

(* All entries since then become firm, or none.                            *)
Settle    == loose /\ loose' = FALSE /\ firm' = book /\ UNCHANGED book
StrikeOut == loose /\ loose' = FALSE /\ book' = firm /\ UNCHANGED firm

LedgerNext == Entry \/ Loosen \/ Settle \/ StrikeOut

LedgerSpec == LedgerInit /\ [][LedgerNext]_<<book, firm, loose>>
=============================================================================
