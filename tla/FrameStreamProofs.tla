------------------------- MODULE FrameStreamProofs --------------------------
(***************************************************************************)
(* Theorems of FrameStream: for frames of any size, any number of frames,  *)
(* SIGHUPs and connections, and segments cut anywhere.                     *)
(***************************************************************************)
EXTENDS FrameStream, TLAPS

(* What the safety properties need beside themselves: clients write whole  *)
(* frames, and a connection begins on a frame boundary.                    *)
Boundaries ==
  /\ FrameBoundary(sent) /\ FrameBoundary(first)
  /\ spc = "accept" => FrameBoundary(taken) /\ got = 0

IndInv == TypeOK /\ InOrder /\ WholeUnlessTorn /\ NothingSkipped /\ Boundaries

(* Multiples of K: one more frame, several frames, and no multiple strictly *)
(* between two neighbours.                                                 *)
LEMMA BoundaryStep ==
  ASSUME NEW n \in Nat, FrameBoundary(n), NEW s \in Nat
  PROVE  FrameBoundary(n + K * s)
<1>1. PICK m \in 0 .. n : n = m * K  BY DEF FrameBoundary
<1>2. n + K * s = (m + s) * K  BY <1>1, FrameSizeAssumption
<1>3. K * s \in Nat /\ s <= K * s  BY FrameSizeAssumption
<1>4. m + s \in 0 .. n + K * s  BY <1>1, <1>3
<1> QED BY <1>2, <1>4 DEF FrameBoundary

LEMMA NoBoundaryInside ==
  ASSUME NEW n \in Nat, FrameBoundary(n), NEW r \in 1 .. K - 1
  PROVE  ~FrameBoundary(n + r)
<1> SUFFICES ASSUME FrameBoundary(n + r) PROVE FALSE  OBVIOUS
<1>1. PICK a \in 0 .. n : n = a * K  BY DEF FrameBoundary
<1>2. PICK b \in 0 .. n + r : n + r = b * K  BY DEF FrameBoundary
<1>3. CASE b <= a
  <2>1. b * K <= a * K  BY <1>3, FrameSizeAssumption
  <2> QED BY <1>1, <1>2, <2>1, FrameSizeAssumption
<1>4. CASE a + 1 <= b
  <2>1. (a + 1) * K <= b * K  BY <1>4, FrameSizeAssumption
  <2>2. (a + 1) * K = a * K + K  BY FrameSizeAssumption
  <2> QED BY <1>1, <1>2, <2>1, <2>2, FrameSizeAssumption
<1> QED BY <1>3, <1>4

LEMMA IndInvInit == Init => IndInv
<1> SUFFICES ASSUME Init PROVE IndInv  OBVIOUS
<1>1. FrameBoundary(0)  BY FrameSizeAssumption DEF FrameBoundary
<1>2. TypeOK
  <2>1. handled \in Seq(Reads)  BY DEF Init
  <2>2. got \in 0 .. K - 1  BY FrameSizeAssumption DEF Init
  <2>3. flag \in BOOLEAN /\ torn \in BOOLEAN  BY DEF Init
  <2>4. arrived <= sent /\ taken <= arrived /\ got <= taken  BY DEF Init
  <2> QED BY <2>1, <2>2, <2>3, <2>4 DEF Init, TypeOK
<1>3. InOrder /\ WholeUnlessTorn /\ NothingSkipped
  BY DEF Init, InOrder, WholeUnlessTorn, NothingSkipped
<1>4. Boundaries  BY <1>1 DEF Init, Boundaries
<1> QED BY <1>2, <1>3, <1>4 DEF IndInv

(* What is known of a frame already handled.                               *)
LEMMA HandledTypes ==
  ASSUME TypeOK, NEW i \in DOMAIN handled
  PROVE  /\ handled[i] \in Reads
         /\ handled[i].start \in Nat /\ handled[i].len \in Nat
<1>1. handled[i] \in Reads  BY DEF TypeOK
<1> QED BY <1>1, FrameSizeAssumption DEF Reads

(* A step that handles no frame keeps what was said of those handled.      *)
LEMMA NoFrameStep ==
  ASSUME IndInv, TypeOK', UNCHANGED handled, taken - got <= taken' - got'
  PROVE  InOrder' /\ WholeUnlessTorn'
<1>1. taken - got \in Int /\ taken' - got' \in Int
  BY FrameSizeAssumption DEF IndInv, TypeOK
<1>2. InOrder'
  <2>1. ASSUME NEW i \in DOMAIN handled
        PROVE  handled[i].start + handled[i].len <= taken' - got'
    BY <1>1, HandledTypes DEF IndInv, InOrder
  <2> QED BY <2>1 DEF IndInv, InOrder
<1>3. WholeUnlessTorn'  BY DEF IndInv, WholeUnlessTorn, Whole, FrameBoundary
<1> QED BY <1>2, <1>3

(* A step that handles one: it starts where the last one ended or later.   *)
LEMMA FrameStep ==
  ASSUME IndInv, NEW len \in 1 .. K, Handled(taken - got, len),
         taken' = taken - got + len,
         ~torn => len = K /\ FrameBoundary(taken - got),
         taken - got \in Nat
  PROVE  handled' \in Seq(Reads) /\ InOrder' /\ WholeUnlessTorn'
<1> DEFINE h == [start |-> taken - got, len |-> len, clean |-> ~torn]
<1>1. handled \in Seq(Reads) /\ h \in Reads  BY DEF IndInv, TypeOK, Reads
<1>2. handled' = Append(handled, h) /\ got' = 0  BY DEF Handled
<1> HIDE DEF h
<1>3. /\ handled' \in Seq(Reads) /\ handled'[Len(handled) + 1] = h
      /\ DOMAIN handled' = 1 .. Len(handled) + 1 /\ DOMAIN handled = 1 .. Len(handled)
      /\ \A i \in DOMAIN handled : handled'[i] = handled[i]
      /\ Len(handled) \in Nat
  BY <1>1, <1>2
<1>4. ASSUME NEW i \in DOMAIN handled
      PROVE  /\ handled[i].start \in Nat /\ handled[i].len \in Nat
             /\ handled[i].start + handled[i].len <= taken - got
  BY HandledTypes DEF IndInv, InOrder
<1>5. h.start = taken - got /\ h.len = len /\ h.clean = ~torn  BY DEF h
<1>6. InOrder'
  <2>1. ASSUME NEW i \in DOMAIN handled', NEW j \in DOMAIN handled', i < j
        PROVE  handled'[i].start + handled'[i].len <= handled'[j].start
    <3>1. i \in DOMAIN handled  BY <2>1, <1>3
    <3>2. CASE j \in DOMAIN handled  BY <2>1, <3>1, <3>2, <1>3 DEF IndInv, InOrder
    <3>3. CASE j = Len(handled) + 1  BY <3>1, <3>3, <1>3, <1>4, <1>5
    <3> QED BY <1>3, <3>2, <3>3
  <2>2. ASSUME NEW i \in DOMAIN handled'
        PROVE  handled'[i].start + handled'[i].len <= taken' - got'
    <3>1. CASE i \in DOMAIN handled  BY <3>1, <1>2, <1>3, <1>4
    <3>2. CASE i = Len(handled) + 1  BY <3>2, <1>2, <1>3, <1>5
    <3> QED BY <1>3, <3>1, <3>2
  <2> QED BY <2>1, <2>2 DEF InOrder
<1>7. WholeUnlessTorn'
  <2> SUFFICES ASSUME NEW i \in DOMAIN handled', handled'[i].clean
               PROVE  Whole(handled'[i])
    BY DEF WholeUnlessTorn, Whole, FrameBoundary
  <2>1. CASE i \in DOMAIN handled
    BY <2>1, <1>3 DEF IndInv, WholeUnlessTorn
  <2>2. CASE i = Len(handled) + 1
    BY <2>2, <1>3, <1>5 DEF Whole
  <2> QED BY <1>3, <2>1, <2>2
<1> QED BY <1>3, <1>6, <1>7

(* Where the frame being read begins, while the connection is not torn.    *)
LEMMA OnBoundary ==
  ASSUME IndInv, spc = "read", ~torn
  PROVE  FrameBoundary(taken - got) /\ taken - got \in Nat
<1>1. taken - got = first + K * served  BY DEF IndInv, NothingSkipped
<1>2. first \in Nat /\ served \in Nat /\ FrameBoundary(first)
  BY DEF IndInv, TypeOK, Boundaries
<1>3. K * served \in Nat  BY <1>2, FrameSizeAssumption
<1> QED BY <1>1, <1>2, <1>3, BoundaryStep
-----------------------------------------------------------------------------
LEMMA ClientInv ==
  ASSUME IndInv, Client
  PROVE  IndInv'
<1> USE DEF network, history
<1>1. /\ UNCHANGED <<taken, got, spc, flag, handled, first, served, torn, hups>>
      /\ conn' \in {"none", "up", "closed", "reset"} /\ conns' \in Nat
      /\ sent' \in Nat /\ arrived' \in Nat
      /\ arrived' <= sent' /\ taken' <= arrived' /\ FrameBoundary(sent')
  <2> USE DEF IndInv, TypeOK, Boundaries
  <2>1. CASE Connect  BY <2>1 DEF Connect
  <2>2. CASE Send
    <3>1. FrameBoundary(sent + K * 1)  BY BoundaryStep
    <3>2. K * 1 = K /\ K \in Nat  BY FrameSizeAssumption
    <3> QED BY <2>2, <3>1, <3>2 DEF Send
  <2>3. CASE \E n \in 1 .. K * MaxFrames : Arrive(n)
    <3>1. K * MaxFrames \in Nat  BY FrameSizeAssumption, StreamBoundsAssumption
    <3> QED BY <2>3, <3>1 DEF Arrive
  <2>4. CASE ClientCloses  BY <2>4 DEF ClientCloses
  <2>5. CASE PeerLost  BY <2>5 DEF PeerLost
  <2> QED BY <2>1, <2>2, <2>3, <2>4, <2>5 DEF Client
<1>2. TypeOK'  BY <1>1 DEF IndInv, TypeOK
<1>3. taken - got <= taken' - got'  BY <1>1, FrameSizeAssumption DEF IndInv, TypeOK
<1>4. InOrder' /\ WholeUnlessTorn'  BY <1>1, <1>2, <1>3, NoFrameStep
<1>5. NothingSkipped'  BY <1>1 DEF IndInv, NothingSkipped
<1>6. Boundaries'  BY <1>1 DEF IndInv, Boundaries, FrameBoundary
<1> QED BY <1>2, <1>4, <1>5, <1>6 DEF IndInv

(* SIGHUP only sets the flag; SIGTERM ends the loop; accept begins a       *)
(* connection where the last one ended.                                    *)
LEMMA HupInv ==
  ASSUME IndInv, Hup
  PROVE  IndInv'
<1> USE DEF network, history, Hup
<1>1. TypeOK'  BY DEF IndInv, TypeOK
<1>2. taken - got <= taken' - got'  BY FrameSizeAssumption DEF IndInv, TypeOK
<1>3. NothingSkipped' /\ Boundaries'
  BY DEF IndInv, NothingSkipped, Boundaries, FrameBoundary
<1> QED BY <1>1, <1>2, <1>3, NoFrameStep DEF IndInv

LEMMA StopInv ==
  ASSUME IndInv, Stop
  PROVE  IndInv'
<1> USE DEF network, history, Stop
<1>1. TypeOK'  BY DEF IndInv, TypeOK
<1>2. taken - got <= taken' - got'  BY FrameSizeAssumption DEF IndInv, TypeOK
<1>3. NothingSkipped' /\ Boundaries'
  BY DEF IndInv, NothingSkipped, Boundaries, FrameBoundary
<1> QED BY <1>1, <1>2, <1>3, NoFrameStep DEF IndInv

LEMMA AcceptInv ==
  ASSUME IndInv, Accept
  PROVE  IndInv'
<1> USE DEF network, Accept
<1>1. got = 0 /\ FrameBoundary(taken)  BY DEF IndInv, Boundaries
<1>2. TypeOK'
  <2>1. torn' \in BOOLEAN  OBVIOUS
  <2> QED BY <2>1 DEF IndInv, TypeOK
<1>3. taken - got <= taken' - got'  BY FrameSizeAssumption DEF IndInv, TypeOK
<1>4. NothingSkipped'
  <2>1. K * 0 = 0 /\ taken \in Nat  BY FrameSizeAssumption DEF IndInv, TypeOK
  <2> QED BY <1>1, <2>1 DEF NothingSkipped
<1>5. Boundaries'  BY <1>1 DEF IndInv, Boundaries, FrameBoundary
<1> QED BY <1>2, <1>3, <1>4, <1>5, NoFrameStep DEF IndInv

(* recv moves `taken' and `got' together.                                  *)
LEMMA RecvInv ==
  ASSUME IndInv, NEW n \in 1 .. K, Recv(n)
  PROVE  IndInv'
<1> USE DEF network, history, Recv
<1>1. n \in Nat /\ got' \in 0 .. K - 1  BY FrameSizeAssumption DEF IndInv, TypeOK
<1>2. TypeOK'  BY <1>1, FrameSizeAssumption DEF IndInv, TypeOK
<1>3. taken - got = taken' - got'  BY <1>1, FrameSizeAssumption DEF IndInv, TypeOK
<1>4. taken - got <= taken' - got'
  BY <1>3, FrameSizeAssumption DEF IndInv, TypeOK
<1>5. NothingSkipped' /\ Boundaries'
  BY <1>3 DEF IndInv, NothingSkipped, Boundaries, FrameBoundary
<1> QED BY <1>2, <1>4, <1>5, NoFrameStep DEF IndInv

LEMMA RecvLastInv ==
  ASSUME IndInv, RecvLast
  PROVE  IndInv'
<1> USE DEF network, RecvLast
<1>1. /\ taken \in Nat /\ got \in Nat /\ got <= taken /\ got < K
      /\ K \in Nat /\ served \in Nat /\ first \in Nat
  BY FrameSizeAssumption DEF IndInv, TypeOK
<1>2. taken' = taken - got + K /\ taken - got \in Nat /\ K \in 1 .. K
  BY <1>1, FrameSizeAssumption
<1>3. ~torn => FrameBoundary(taken - got)  BY OnBoundary
<1>4. handled' \in Seq(Reads) /\ InOrder' /\ WholeUnlessTorn'
  BY <1>2, <1>3, FrameStep
<1>5. got' = 0 /\ served' = served + 1  BY DEF Handled
<1>6. TypeOK'
  <2>1. taken' \in Nat /\ taken' <= arrived /\ got' \in 0 .. K - 1 /\ got' <= taken'
    BY <1>1, <1>2, <1>5, FrameSizeAssumption
  <2> QED BY <1>4, <1>5, <2>1 DEF IndInv, TypeOK
<1>7. NothingSkipped'
  <2>1. K * (served + 1) = K * served + K  BY <1>1
  <2>2. K * served \in Nat  BY <1>1
  <2> QED BY <1>1, <1>2, <1>5, <2>1, <2>2 DEF IndInv, NothingSkipped
<1>8. Boundaries'  BY DEF IndInv, Boundaries, FrameBoundary
<1> QED BY <1>4, <1>6, <1>7, <1>8 DEF IndInv

(* Forgetting what was read of a frame moves its beginning, unless nothing *)
(* had been read; `torn' records the difference.                           *)
LEMMA PricesReloadedInv ==
  ASSUME IndInv, PricesReloaded
  PROVE  IndInv'
<1> USE DEF network, PricesReloaded
<1>1. got \in Nat /\ taken \in Nat /\ got' = 0 /\ taken' = taken
  BY FrameSizeAssumption DEF IndInv, TypeOK
<1>2. TypeOK'
  <2>1. torn' \in BOOLEAN /\ flag' \in BOOLEAN  OBVIOUS
  <2>2. got' \in 0 .. K - 1 /\ got' <= taken'  BY <1>1, FrameSizeAssumption
  <2> QED BY <2>1, <2>2 DEF IndInv, TypeOK
<1>3. taken - got <= taken' - got'  BY <1>1
<1>4. NothingSkipped'
  <2>1. ASSUME ~torn' PROVE ~torn /\ ~(got > 0)
    BY <2>1
  <2>2. ASSUME ~torn' PROVE got = 0 /\ taken' - got' = taken - got
    BY <2>1, <2>2, <1>1
  <2> QED BY <2>1, <2>2 DEF IndInv, NothingSkipped
<1>5. Boundaries'  BY DEF IndInv, Boundaries, FrameBoundary
<1> QED BY <1>2, <1>3, <1>4, <1>5, NoFrameStep DEF IndInv

(* A stream that was not torn cannot end inside a frame: clients write     *)
(* whole frames.                                                           *)
LEMMA EofInFrameInv ==
  ASSUME IndInv, EofInFrame
  PROVE  IndInv'
<1> USE DEF network, EofInFrame
<1>1. /\ taken \in Nat /\ got \in 1 .. K - 1 /\ got <= taken /\ K \in Nat
      /\ served \in Nat
  BY FrameSizeAssumption DEF IndInv, TypeOK
<1>2. taken' = taken - got + got /\ taken - got \in Nat /\ got \in 1 .. K
  BY <1>1
<1>3. torn
  <2> SUFFICES ASSUME ~torn PROVE FALSE  BY DEF IndInv, TypeOK
  <2>1. FrameBoundary(taken - got)  BY OnBoundary
  <2>2. ~FrameBoundary(taken - got + got)  BY <1>1, <1>2, <2>1, NoBoundaryInside
  <2>3. taken - got + got = sent  BY <1>1
  <2> QED BY <2>2, <2>3 DEF IndInv, Boundaries
<1>4. handled' \in Seq(Reads) /\ InOrder' /\ WholeUnlessTorn'
  BY <1>2, <1>3, FrameStep
<1>5. got' = 0 /\ served' = served + 1  BY DEF Handled
<1>6. TypeOK'
  <2>1. got' \in 0 .. K - 1 /\ got' <= taken'  BY <1>1, <1>5, FrameSizeAssumption
  <2> QED BY <1>1, <1>4, <1>5, <2>1 DEF IndInv, TypeOK
<1>7. NothingSkipped'  BY <1>3 DEF NothingSkipped
<1>8. Boundaries'  BY DEF IndInv, Boundaries, FrameBoundary
<1> QED BY <1>4, <1>6, <1>7, <1>8 DEF IndInv

LEMMA HangupInv ==
  ASSUME IndInv, Hangup
  PROVE  IndInv'
<1> USE DEF history, Hangup
<1>1. /\ sent \in Nat /\ taken \in Nat /\ got \in Nat /\ taken <= sent
      /\ FrameBoundary(sent)
  BY FrameSizeAssumption DEF IndInv, TypeOK, Boundaries
<1>2. TypeOK'
  <2>1. got' \in 0 .. K - 1 /\ got' <= taken'  BY <1>1, FrameSizeAssumption
  <2> QED BY <1>1, <2>1 DEF IndInv, TypeOK
<1>3. taken - got <= taken' - got'  BY <1>1
<1>4. NothingSkipped'  BY DEF NothingSkipped
<1>5. Boundaries'  BY <1>1 DEF IndInv, Boundaries, FrameBoundary
<1> QED BY <1>2, <1>3, <1>4, <1>5, NoFrameStep DEF IndInv

LEMMA StutterInv ==
  ASSUME IndInv, UNCHANGED vars
  PROVE  IndInv'
BY DEF IndInv, vars, network, history, TypeOK, InOrder, WholeUnlessTorn, Whole,
       NothingSkipped, Boundaries, FrameBoundary

THEOREM Invariance == Spec => []IndInv
<1>1. IndInv /\ [Next]_vars => IndInv'
  <2> SUFFICES ASSUME IndInv, [Next]_vars PROVE IndInv'  OBVIOUS
  <2>1. CASE Client  BY <2>1, ClientInv
  <2>2. CASE Hup  BY <2>2, HupInv
  <2>3. CASE Server
    BY <2>3, AcceptInv, RecvInv, RecvLastInv, PricesReloadedInv, EofInFrameInv,
       HangupInv DEF Server
  <2>4. CASE Stop  BY <2>4, StopInv
  <2>5. CASE UNCHANGED vars  BY <2>5, StutterInv
  <2> QED BY <2>1, <2>2, <2>3, <2>4, <2>5 DEF Next
<1> QED BY IndInvInit, <1>1, PTL DEF Spec

(* The counters of the stream keep their types and their order.            *)
THEOREM StreamTypes == Spec => []TypeOK
<1>1. IndInv => TypeOK  BY DEF IndInv
<1> QED BY <1>1, Invariance, PTL

(* No byte reaches the frame handler twice or out of order.                *)
THEOREM StreamInOrder == Spec => []InOrder
<1>1. IndInv => InOrder  BY DEF IndInv
<1> QED BY <1>1, Invariance, PTL

(* A frame reaches the handler broken only after a SIGHUP discarded part   *)
(* of a frame on the same connection; resets and ends of file never do it. *)
THEOREM OnlyHupTears == Spec => []WholeUnlessTorn
<1>1. IndInv => WholeUnlessTorn  BY DEF IndInv
<1> QED BY <1>1, Invariance, PTL

(* Until that happens, no frame of a connection is skipped.                *)
THEOREM NoSkips == Spec => []NothingSkipped
<1>1. IndInv => NothingSkipped  BY DEF IndInv
<1> QED BY <1>1, Invariance, PTL
=============================================================================
