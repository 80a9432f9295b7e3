---------------------------- MODULE FrameStream -----------------------------
(***************************************************************************)
(* The TCP stream of frames from CLIENT_DAEMON to the server, and the      *)
(* server's read_n_nonblocking, which cuts it into frames again.           *)
(*                                                                         *)
(* TCP keeps the order of bytes, so a byte is its position in everything   *)
(* the clients ever wrote, and the stream is four counters: written by the *)
(* client, arrived in the server's socket buffer, taken by recv, and the   *)
(* bytes of the frame being put together.  A frame handed to the handler   *)
(* is where it started and how many of its bytes were really read.         *)
(***************************************************************************)
EXTENDS Integers, Sequences

CONSTANTS
  K,           \* sizeof(gps_frame)
  MaxFrames,   \* bound: frames written
  MaxHups,     \* bound: SIGHUPs
  MaxConns     \* bound: connections

ASSUME FrameSizeAssumption == K \in Nat \ {0}
ASSUME StreamBoundsAssumption ==
  MaxFrames \in Nat /\ MaxHups \in Nat /\ MaxConns \in Nat

VARIABLES
  sent,      \* bytes written by the clients
  arrived,   \* bytes that reached the server
  taken,     \* bytes recv has returned (or that a dead connection lost)
  got,       \* bytes of the current frame
  conn,      \* the client's end: "none", "up", "closed", "reset"
  spc,       \* the server: "accept", "read", "stopped"
  flag,      \* SigGuard::update_prices
  handled,   \* frames given to the handler: [start, len, clean] (history)
  first,     \* where this connection's bytes begin (history)
  served,    \* frames handled on this connection (history)
  torn,      \* a SIGHUP discarded part of a frame of this connection (history)
  hups, conns         \* bounded counters

network == <<sent, arrived, conn>>
history == <<handled, first, served, torn>>
vars == <<network, taken, got, spc, flag, history, hups, conns>>

Init ==
  /\ sent = 0 /\ arrived = 0 /\ taken = 0 /\ got = 0
  /\ conn = "none" /\ spc = "accept" /\ flag = FALSE
  /\ handled = <<>> /\ first = 0 /\ served = 0 /\ torn = FALSE
  /\ hups = 0 /\ conns = 0
-----------------------------------------------------------------------------
(* CLIENT_DAEMON connects: the server's backlog takes it.                  *)
Connect ==
  /\ conn = "none" /\ conns < MaxConns
  /\ conns' = conns + 1 /\ conn' = "up"
  /\ UNCHANGED <<sent, arrived, taken, got, spc, flag, history, hups>>

(* send_data writes a whole frame to its socket.                           *)
Send ==
  /\ conn = "up" /\ sent + K <= MaxFrames * K
  /\ sent' = sent + K
  /\ UNCHANGED <<arrived, conn, taken, got, spc, flag, history, hups, conns>>

(* The network brings the bytes in segments of any size.                   *)
Arrive(n) ==
  /\ conn \in {"up", "closed"} /\ arrived + n <= sent
  /\ arrived' = arrived + n
  /\ UNCHANGED <<sent, conn, taken, got, spc, flag, history, hups, conns>>

(* The client ends: what it wrote still arrives, then the end of file.     *)
ClientCloses ==
  /\ conn = "up" /\ conn' = "closed"
  /\ UNCHANGED <<sent, arrived, taken, got, spc, flag, history, hups, conns>>

(* The peer dies without a word (keep-alive gives up) or resets: what has  *)
(* not arrived is lost.                                                    *)
PeerLost ==
  /\ conn \in {"up", "closed"} /\ conn' = "reset"
  /\ UNCHANGED <<sent, arrived, taken, got, spc, flag, history, hups, conns>>

(* SIGHUP: the handler sets the flag.                                      *)
Hup ==
  /\ hups < MaxHups /\ hups' = hups + 1 /\ flag' = TRUE
  /\ UNCHANGED <<network, taken, got, spc, history, conns>>
-----------------------------------------------------------------------------
(* accept, and a new `raw' for the first frame.                            *)
Accept ==
  /\ spc = "accept" /\ ~flag /\ conn # "none"
  /\ spc' = "read" /\ first' = taken /\ served' = 0 /\ torn' = FALSE
  /\ UNCHANGED <<network, taken, got, flag, handled, hups, conns>>

(* Mutant: got is not reset with the next frame (InOrder).                 *)
HandledNoReset(start, len) ==
  /\ handled' = Append(handled, [start |-> start, len |-> len, clean |-> ~torn])
  /\ served' = served + 1 /\ got' = got

(* A frame of which len bytes were read goes to the handler.               *)
Handled(start, len) ==
  /\ handled' = Append(handled, [start |-> start, len |-> len, clean |-> ~torn])
  /\ served' = served + 1 /\ got' = 0

(* Mutant: the loop ends one byte too late (TypeOK).                       *)
RecvTooMuch(n) ==
  /\ spc = "read" /\ ~flag /\ got + n <= K /\ taken + n <= arrived
  /\ taken' = taken + n /\ got' = got + n
  /\ UNCHANGED <<network, spc, flag, history, hups, conns>>

(* Mutant: whatever one recv returned is taken for a frame                 *)
(* (WholeUnlessTorn).                                                      *)
RecvOnce(n) ==
  /\ spc = "read" /\ ~flag /\ n < K /\ taken + n <= arrived
  /\ taken' = taken + n /\ Handled(taken, n)
  /\ UNCHANGED <<network, spc, flag, first, torn, hups, conns>>

(* recv returns any part of what has arrived and is still missing.         *)
Recv(n) ==
  /\ spc = "read" /\ ~flag /\ got + n < K /\ taken + n <= arrived
  /\ taken' = taken + n /\ got' = got + n
  /\ UNCHANGED <<network, spc, flag, history, hups, conns>>

Reads == [start: Nat, len: 1 .. K, clean: BOOLEAN]

(* Mutant: the frame is complete when a byte of the next is there (Prompt). *)
RecvLastLate ==
  /\ spc = "read" /\ ~flag /\ taken + (K - got) < arrived
  /\ taken' = taken + (K - got)
  /\ Handled(taken - got, K)
  /\ UNCHANGED <<network, spc, flag, first, torn, hups, conns>>

(* The recv that completes the frame: it is decoded and handled.           *)
RecvLast ==
  /\ spc = "read" /\ ~flag /\ taken + (K - got) <= arrived
  /\ taken' = taken + (K - got)
  /\ Handled(taken - got, K)
  /\ UNCHANGED <<network, spc, flag, first, torn, hups, conns>>

(* The flag is seen at the top of either loop, before a recv or while      *)
(* waiting: -2, prices are reloaded and the flag is reset.  What had been  *)
(* read of a frame is forgotten: `raw' and `got' start anew.               *)
PricesReloaded ==
  /\ spc \in {"accept", "read"} /\ flag
  /\ flag' = FALSE /\ got' = 0
  /\ torn' = (torn \/ got > 0)
  /\ UNCHANGED <<network, taken, spc, handled, first, served, hups, conns>>

(* End of file in the middle of a frame: read_n_nonblocking returns what   *)
(* it has, which is more than 0, and the handler decodes a `raw' whose     *)
(* other bytes were never written.                                         *)
EofInFrame ==
  /\ spc = "read" /\ ~flag /\ conn = "closed" /\ taken = sent /\ got > 0
  /\ Handled(taken - got, got)
  /\ UNCHANGED <<network, taken, spc, flag, first, torn, hups, conns>>

(* Mutant: the next connection's first frame begins with what was left     *)
(* (NothingSkipped).                                                       *)
HangupKeepsGot ==
  /\ spc = "read" /\ ~flag
  /\ \/ conn = "closed" /\ taken = sent /\ got = 0
     \/ conn = "reset" /\ taken = arrived
  /\ spc' = "accept" /\ conn' = "none" /\ got' = got
  /\ taken' = sent /\ arrived' = sent
  /\ UNCHANGED <<sent, flag, history, hups, conns>>

(* End of file between frames, or an error: the socket is closed and the   *)
(* server waits for the next client.                                       *)
Hangup ==
  /\ spc = "read" /\ ~flag
  /\ \/ conn = "closed" /\ taken = sent /\ got = 0
     \/ conn = "reset" /\ taken = arrived
  /\ spc' = "accept" /\ conn' = "none" /\ got' = 0
  /\ taken' = sent /\ arrived' = sent
  /\ UNCHANGED <<sent, flag, history, hups, conns>>

(* SIGINT, SIGTERM or SIGQUIT.                                             *)
Stop ==
  /\ spc \in {"accept", "read"} /\ spc' = "stopped"
  /\ UNCHANGED <<network, taken, got, flag, history, hups, conns>>

Client == Connect \/ Send \/ (\E n \in 1 .. K * MaxFrames : Arrive(n))
          \/ ClientCloses \/ PeerLost

Server == Accept \/ (\E n \in 1 .. K : Recv(n)) \/ RecvLast
          \/ PricesReloaded \/ EofInFrame \/ Hangup

Next == Client \/ Hup \/ Server \/ Stop

Spec == Init /\ [][Next]_vars

(* The server is never idle on its own account, and TCP delivers what was  *)
(* written on a connection that stays up.                                  *)
FairSpec == /\ Spec /\ WF_vars(Server)
            /\ WF_vars(\E n \in 1 .. K * MaxFrames : Arrive(n))
-----------------------------------------------------------------------------
(* Every variable keeps its type; the counters stay in order.              *)
TypeOK ==
  /\ sent \in Nat /\ arrived \in Nat /\ taken \in Nat /\ got \in 0 .. K - 1
  /\ arrived <= sent /\ taken <= arrived /\ got <= taken
  /\ conn \in {"none", "up", "closed", "reset"}
  /\ spc \in {"accept", "read", "stopped"} /\ flag \in BOOLEAN
  /\ handled \in Seq(Reads)
  /\ first \in Nat /\ served \in Nat /\ torn \in BOOLEAN
  /\ hups \in Nat /\ conns \in Nat

(* The handler never sees a byte twice or out of order, on one connection  *)
(* or over several, whatever SIGHUPs, ends of file and resets do.          *)
InOrder ==
  /\ \A i, j \in DOMAIN handled :
       i < j => handled[i].start + handled[i].len <= handled[j].start
  /\ \A i \in DOMAIN handled : handled[i].start + handled[i].len <= taken - got

(* A number of bytes that is a number of frames.                           *)
FrameBoundary(n) == \E m \in 0 .. n : n = m * K

Whole(h) == h.len = K /\ FrameBoundary(h.start)

(* The only thing that breaks a frame is a SIGHUP in the middle of it:     *)
(* until one hits, every frame handled on a connection is a frame sent.    *)
WholeUnlessTorn ==
  \A i \in DOMAIN handled :
    handled[i].clean => Whole(handled[i])

(* Until then nothing is skipped either: the frames handled are the first  *)
(* ones of the connection, and what is being read is the next.             *)
NothingSkipped ==
  spc = "read" /\ ~torn => taken - got = first + K * served

(* Each frame handled is a whole frame: "Read exactly n bytes from         *)
(* non-blocking socket with signal handling".  Refuted by SIGHUP.          *)
WholeFrames == \A i \in DOMAIN handled : Whole(handled[i])

(* The last frame of a connection that stays up and was not torn is        *)
(* handled without waiting for another one to come.                        *)
HandledUpTo(p) ==
  handled # <<>> /\ handled[Len(handled)].start + handled[Len(handled)].len = p

Prompt ==
  \A f \in 1 .. MaxFrames :
    sent = f * K /\ first < sent /\ conn = "up" /\ spc = "read"
      ~> HandledUpTo(f * K) \/ conn # "up" \/ torn \/ spc = "stopped" \/ sent > f * K
=============================================================================
