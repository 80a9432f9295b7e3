---------------------------- MODULE DeviceChain -----------------------------
(***************************************************************************)
(* The way of a frame from the STM32 to the server: my_main raises the     *)
(* data-ready pin and waits in HAL_I2C_Slave_Transmit until I2C_DAEMON has *)
(* seen the edge and read 12 bytes; I2C_DAEMON writes them to the FIFO     *)
(* /tmp/i2c_pipe; CLIENT_DAEMON takes them out and writes them to its TCP  *)
(* connection.  Either daemon may end, and be started again by the service *)
(* or by hand; the device may be reset, also while it is read; the server  *)
(* may end, wait for Enter with its connection open, or lose the boundary  *)
(* between two frames.                                                     *)
(*                                                                         *)
(* A frame carries its bytes, and a number the program does not have, by   *)
(* which the properties tell frames apart.                                 *)
(***************************************************************************)
EXTENDS WireFormat, Sequences, SequencesExt

CONSTANTS
  Coordinates,  \* the device's table: a sequence of [x, y] (floats)
  FifoCap,      \* frames the FIFO holds
  SockCap,      \* frames the socket buffers hold
  Cuts,         \* after how many bytes a reset may cut a frame off
  MaxFrames,    \* bound: frames sent by the device
  MaxFaults,    \* bound: things that fail, are killed, held up or disturbed
  MaxStarts     \* bound: starts by the service or by hand

ASSUME CoordinatesAssumption ==
  Coordinates \in Seq([x : Float, y : Float]) /\ Coordinates # <<>>
ASSUME ChainBoundsAssumption ==
  /\ FifoCap \in Nat \ {0} /\ SockCap \in Nat \ {0} /\ Cuts \subseteq 0 .. 11
  /\ MaxFrames \in Nat /\ MaxFaults \in Nat /\ MaxStarts \in Nat

DEVICE_ID == 1610
START == 1
AND == 0

VARIABLES
  spc,       \* the STM32: "fill", "send", "transmit", "done", "delay"
  index,     \* coordinate_index
  data,      \* my_main's gps_frame
  tx,        \* txBuffer
  pin,       \* DATA_READY_PIN, GPIO 49 of the BeagleBone
  event,     \* poll has an edge of the pin to report
  ipc,       \* I2C_DAEMON: where it is
  pipe,      \* I2C_DAEMON has the FIFO open for writing: pipe_fd >= 0
  iframe,    \* I2C_DAEMON's frame
  fifo,      \* frames in the FIFO
  cpc,       \* CLIENT_DAEMON: where it is
  cframe,    \* CLIENT_DAEMON's frame
  sock,      \* CLIENT_DAEMON's end: "none", "up", "eof", "reset"
  net,       \* frames in the socket buffers, each with its connection
  server,    \* "up", "stuck" (CHECK_SQL waits for Enter) or "down"
  torn,      \* the connection whose frames the server cuts at wrong places
  script,    \* start_daemons.sh has started the client, not yet I2C_DAEMON
  received,  \* what the server has got: [num, frame] (history)
  produced,  \* what the device has sent (history)
  cut,       \* frames that a reset cut off while they were read (history)
  missed,    \* the device waits, and the edge that says so is gone (history)
  conn,      \* CLIENT_DAEMON's connections so far; the last one's number
  faults, starts          \* bounded counters

device == <<spc, index, data, tx, pin, produced, cut>>
daemon == <<ipc, pipe, iframe, event, missed>>
client == <<cpc, cframe, sock>>
tcp    == <<net, server, torn, received>>
counts == <<script, conn, faults, starts>>
vars == <<device, daemon, fifo, client, tcp, counts>>

Blank == [num |-> 0, bytes |-> [i \in 1 .. 12 |-> 0]]

Init ==
  /\ spc = "fill" /\ index = 0 /\ tx = Blank /\ pin = FALSE
  /\ data = FromMemory(Blank.bytes)
  /\ ipc = "down" /\ pipe = FALSE /\ iframe = Blank /\ event = FALSE
  /\ fifo = <<>>
  /\ cpc = "down" /\ cframe = Blank /\ sock = "none"
  /\ net = <<>> /\ server = "up" /\ torn = 0 /\ received = <<>>
  /\ produced = <<>> /\ cut = {} /\ script = FALSE /\ missed = FALSE
  /\ conn = 0 /\ faults = 0 /\ starts = 0

Fault == faults < MaxFaults /\ faults' = faults + 1 /\ UNCHANGED <<script, conn, starts>>
-----------------------------------------------------------------------------
(* The STM32.  FillDataStruct: the next place of the table, cyclically.    *)
FillDataStruct ==
  LET at == IF index >= Len(Coordinates) THEN 0 ELSE index
  IN /\ spc = "fill" /\ spc' = "send"
     /\ index' = at + 1
     /\ data' = [device_id |-> DEVICE_ID, cord_x |-> Coordinates[at + 1].x,
                 cord_y |-> Coordinates[at + 1].y, status |-> START]
     /\ UNCHANGED <<tx, pin, produced, cut, daemon, fifo, client, tcp, counts>>

(* I2C_DAEMON has asked for edges and passed its first read of the pin.    *)
Listening == ipc \in {"poll", "value", "i2c", "write"}

(* I2C2_Send_Data up to the wait for the master in HAL_I2C_Slave_Transmit, *)
(* which has no time limit.  data_ready is set from here to EndSend; my_main *)
(* does not call it in between.                                            *)
I2C2_Send_Data ==
  /\ spc = "send" /\ Len(produced) < MaxFrames
  /\ produced' = Append(produced, data)
  /\ tx' = [num |-> Len(produced) + 1, bytes |-> SwapEndian(InMemory(data))]
  /\ pin' = TRUE /\ spc' = "transmit"
  /\ event' = (event \/ Listening)
  /\ UNCHANGED <<index, data, cut, ipc, pipe, iframe, missed, fifo, client, tcp, counts>>

(* HAL_I2C_Slave_Transmit waits for its address, hands out its bytes, sees *)
(* NACK and STOP and returns HAL_OK.                                       *)
HAL_I2C_Slave_Transmit ==
  spc = "transmit" /\ spc' = "done" /\ missed' = FALSE

(* A bus error, lost arbitration or overrun, or a NACK too early: the HAL  *)
(* leaves its waiting loop with HAL_ERROR, ready for the next call.        *)
I2C_IsErrorOccurred ==
  spc = "transmit" /\ spc' = "done" /\ missed' = FALSE

(* Back in I2C2_Send_Data the pin falls, whatever was returned, and the    *)
(* frame is not sent again.                                                *)
EndSend ==
  /\ spc = "done" /\ spc' = "delay" /\ pin' = FALSE
  /\ UNCHANGED <<index, data, tx, produced, cut, daemon, fifo, client, tcp, counts>>

(* HAL_Delay ends: the other half of my_main's loop.                       *)
HAL_Delay ==
  /\ spc = "delay"
  /\ \/ data.status = START /\ spc' = "send" /\ data' = [data EXCEPT !.status = AND]
     \/ data.status = AND /\ spc' = "fill" /\ data' = data
  /\ UNCHANGED <<index, tx, pin, produced, cut, daemon, fifo, client, tcp, counts>>

(* The device is reset, or loses power: it starts anew with its pin low.   *)
StartAnew == spc' = "fill" /\ index' = 0 /\ pin' = FALSE /\ missed' = FALSE

Reset ==
  /\ Fault /\ StartAnew
  /\ UNCHANGED <<data, tx, produced, cut, ipc, pipe, iframe, event, fifo, client, tcp>>
-----------------------------------------------------------------------------
(* The FIFO.  A client blocked in open is a reader already.                *)
Reader == cpc \in {"opening", "poll", "send"}

(* What is left in the FIFO once an end is closed: nothing if it was the   *)
(* last one.                                                               *)
Leftover(otherEndOpen) == IF otherEndOpen THEN fifo ELSE <<>>

I2cExits == ipc' = "down" /\ pipe' = FALSE /\ fifo' = Leftover(Reader)

(* I2C_DAEMON.  main makes the FIFO if it must and opens it with           *)
(* O_NONBLOCK: ENXIO without a reader, which is only logged.  A client     *)
(* waiting in its own open is woken.                                       *)
OpenPipe ==
  /\ ipc = "fifo" /\ ipc' = "init"
  /\ pipe' = Reader
  /\ cpc' = IF cpc = "opening" THEN "poll" ELSE cpc
  /\ UNCHANGED <<device, iframe, event, missed, fifo, cframe, sock, tcp, counts>>

(* The I2C bus and the GPIO are opened.  gpio_init reads the value once    *)
(* after it has asked for edges: a pin that is already high, or rises      *)
(* before that read, has no edge left to report.                           *)
InitDevices ==
  /\ ipc = "init" /\ ipc' = "poll"
  /\ event' = FALSE /\ missed' = (missed \/ spc = "transmit")
  /\ UNCHANGED <<device, pipe, iframe, fifo, client, tcp, counts>>

(* No bus, no slave, no GPIO: return 1.                                    *)
InitFails ==
  /\ ipc = "init" /\ Fault /\ I2cExits
  /\ UNCHANGED <<device, iframe, event, missed, client, tcp>>

PollGpio ==
  /\ ipc = "poll" /\ event /\ ipc' = "value"
  /\ UNCHANGED <<device, pipe, iframe, event, missed, fifo, client, tcp, counts>>

(* Mutant: the value is not read again, and poll keeps its event           *)
(* (ReadOnlyWhenReady).                                                    *)
ReadValueKeepsEvent ==
  /\ ipc = "value" /\ event' = event
  /\ ipc' = IF pin THEN "i2c" ELSE "poll"
  /\ UNCHANGED <<device, pipe, iframe, missed, fifo, client, tcp, counts>>

(* Mutant: the level is taken the wrong way round (OfferedIsReceived).     *)
ReadValueInverted ==
  /\ ipc = "value" /\ event' = FALSE
  /\ ipc' = IF pin THEN "poll" ELSE "i2c"
  /\ UNCHANGED <<device, pipe, iframe, missed, fifo, client, tcp, counts>>

(* lseek and read of the pin's value, which also clears the event.         *)
ReadValue ==
  /\ ipc = "value" /\ event' = FALSE
  /\ ipc' = IF pin THEN "i2c" ELSE "poll"
  /\ UNCHANGED <<device, pipe, iframe, missed, fifo, client, tcp, counts>>

(* i2c_read_frame reads the 12 bytes the slave clocks out; main converts   *)
(* them for the pipe.                                                      *)
ReadFrame ==
  /\ ipc = "i2c" /\ HAL_I2C_Slave_Transmit /\ ipc' = "write"
  /\ iframe' = [num |-> tx.num, bytes |-> ToPipe(i2c_read_frame(tx.bytes))]
  /\ UNCHANGED <<index, data, tx, pin, produced, cut, pipe, event, fifo, client, tcp,
                 counts>>

(* The device is reset while it is read.  The master goes on clocking, and *)
(* read returns all of its 12 bytes: for main it is a frame like any other. *)
ReadThroughReset ==
  /\ ipc = "i2c" /\ spc = "transmit" /\ Fault /\ StartAnew /\ ipc' = "write"
  /\ \E k \in Cuts :
       iframe' = [num |-> tx.num,
                  bytes |-> ToPipe(i2c_read_frame(CutOff(tx.bytes, k)))]
  /\ cut' = cut \cup {tx.num}
  /\ UNCHANGED <<data, tx, produced, pipe, event, fifo, client, tcp>>

(* The read fails (-1): back to poll, and no second attempt.  The slave    *)
(* saw the bus error too and gives up its frame, or it saw nothing and     *)
(* waits on.                                                               *)
ReadFails ==
  /\ ipc = "i2c" /\ spc = "transmit" /\ Fault /\ ipc' = "poll"
  /\ I2C_IsErrorOccurred \/ (spc' = spc /\ missed' = TRUE)
  /\ UNCHANGED <<index, data, tx, pin, produced, cut, pipe, iframe, event, fifo, client,
                 tcp>>

(* Nobody answers at the slave's address.                                  *)
ReadNobody ==
  /\ ipc = "i2c" /\ spc # "transmit" /\ ipc' = "poll"
  /\ UNCHANGED <<device, pipe, iframe, event, missed, fifo, client, tcp, counts>>

(* The frame is dropped without the FIFO, or when it is full (EAGAIN).     *)
WriteDrops ==
  /\ ipc = "write" /\ ipc' = "poll"
  /\ ~pipe \/ (Reader /\ Len(fifo) >= FifoCap)
  /\ UNCHANGED <<device, pipe, iframe, event, missed, fifo, client, tcp, counts>>

(* Mutant: the pipe is taken to have room always (TypeOK).                 *)
WritePipeUnbounded ==
  /\ ipc = "write" /\ pipe /\ Reader
  /\ fifo' = Append(fifo, iframe) /\ ipc' = "poll"
  /\ UNCHANGED <<device, pipe, iframe, event, missed, client, tcp, counts>>

(* Mutant: what came in meanwhile is taken for the edge just handled       *)
(* (StandstillExplained).                                                  *)
WritePipeFlushes ==
  /\ ipc = "write" /\ pipe /\ Reader /\ Len(fifo) < FifoCap
  /\ fifo' = Append(fifo, iframe) /\ ipc' = "poll" /\ event' = FALSE
  /\ UNCHANGED <<device, pipe, iframe, missed, client, tcp, counts>>

(* write to the FIFO: 12 bytes are fewer than PIPE_BUF, so all or none.    *)
WritePipe ==
  /\ ipc = "write" /\ pipe /\ Reader /\ Len(fifo) < FifoCap
  /\ fifo' = Append(fifo, iframe) /\ ipc' = "poll"
  /\ UNCHANGED <<device, pipe, iframe, event, missed, client, tcp, counts>>

(* EPIPE: the reader is gone; handle_signal closes everything and exits.   *)
WriteNoReader ==
  /\ ipc = "write" /\ pipe /\ ~Reader /\ I2cExits
  /\ UNCHANGED <<device, iframe, event, missed, client, tcp, counts>>

(* SIGINT, SIGTERM, SIGHUP or SIGQUIT (or SIGKILL) anywhere.               *)
I2cKilled ==
  /\ ipc # "down" /\ Fault /\ I2cExits
  /\ UNCHANGED <<device, iframe, event, missed, client, tcp>>
-----------------------------------------------------------------------------
(* CLIENT_DAEMON.  Socket and connect.                                     *)
ClientExits ==
  /\ cpc' = "down" /\ sock' = "none" /\ fifo' = Leftover(pipe)

Connect ==
  /\ cpc = "connect" /\ server # "down"
  /\ cpc' = "open" /\ sock' = "up" /\ conn' = conn + 1
  /\ UNCHANGED <<device, daemon, fifo, cframe, tcp, script, faults, starts>>

(* No server, or no way to it: exit, and no second attempt.                *)
ConnectRefused ==
  /\ cpc = "connect" /\ server = "down" /\ ClientExits
  /\ UNCHANGED <<device, daemon, cframe, tcp, counts>>

ConnectFails ==
  /\ cpc = "connect" /\ Fault /\ ClientExits
  /\ UNCHANGED <<device, daemon, cframe, tcp>>

(* Mutant: old frames are flushed when the FIFO is opened (LossExplained). *)
OpenForReadingFlushes ==
  /\ cpc = "open" /\ cpc' = IF pipe THEN "poll" ELSE "opening"
  /\ fifo' = <<>>
  /\ UNCHANGED <<device, daemon, cframe, sock, tcp, counts>>

(* open(O_RDONLY) waits until the FIFO has a writer.                       *)
OpenForReading ==
  /\ cpc = "open" /\ cpc' = IF pipe THEN "poll" ELSE "opening"
  /\ UNCHANGED <<device, daemon, fifo, cframe, sock, tcp, counts>>

(* Mutant: POLLHUP of the FIFO is treated like POLLIN: the read returns 0  *)
(* and the previous frame is sent again (ImplementsChannel).               *)
GetFrameOnHangup ==
  /\ cpc = "poll" /\ (fifo # <<>> \/ (~pipe /\ cframe # Blank)) /\ cpc' = "send"
  /\ cframe' = IF fifo = <<>> THEN cframe ELSE Head(fifo)
  /\ fifo' = IF fifo = <<>> THEN fifo ELSE Tail(fifo)
  /\ UNCHANGED <<device, daemon, sock, tcp, counts>>

(* poll reports POLLIN and get_frame reads.  The FIFO only ever holds      *)
(* whole frames and has one reader, so the read is never short; a FIFO     *)
(* without a writer shows as POLLHUP, which nobody looks at.               *)
GetFrame ==
  /\ cpc = "poll" /\ fifo # <<>> /\ cpc' = "send"
  /\ cframe' = Head(fifo) /\ fifo' = Tail(fifo)
  /\ UNCHANGED <<device, daemon, sock, tcp, counts>>

(* send_data on a living connection waits for room in the socket buffer.   *)
SendFrame ==
  /\ cpc = "send" /\ sock = "up" /\ Len(net) < SockCap
  /\ net' = Append(net, [num |-> cframe.num, bytes |-> cframe.bytes, conn |-> conn])
  /\ cpc' = "poll"
  /\ UNCHANGED <<device, daemon, fifo, cframe, sock, server, torn, received, counts>>

(* The server has closed its end, which nobody has noticed: the write      *)
(* succeeds, the frame is lost, and the answer is a reset.                 *)
SendToClosed ==
  /\ cpc = "send" /\ sock = "eof"
  /\ sock' = "reset" /\ cpc' = "poll"
  /\ UNCHANGED <<device, daemon, fifo, cframe, tcp, counts>>

(* On a reset connection write fails, or raises SIGPIPE: the end.          *)
SendToReset ==
  /\ cpc = "send" /\ sock = "reset" /\ ClientExits
  /\ UNCHANGED <<device, daemon, cframe, tcp, counts>>

(* Mutant: only POLLIN is looked at (HangupNoticed).                       *)
SeeHangupNever ==
  /\ cpc = "poll" /\ sock = "reset" /\ fifo # <<>> /\ ClientExits
  /\ UNCHANGED <<device, daemon, cframe, tcp, counts>>

(* POLLHUP or POLLERR on the socket, looked at after the FIFO.             *)
SeeHangup ==
  /\ cpc = "poll" /\ sock = "reset" /\ fifo = <<>> /\ ClientExits
  /\ UNCHANGED <<device, daemon, cframe, tcp, counts>>

(* A signal.  When a reply of the server is unread, and the client never   *)
(* reads one, the socket closes with RST, and frames on their way are lost. *)
ClientKilled ==
  /\ cpc # "down" /\ Fault /\ ClientExits
  /\ net' \in {net, <<>>}
  /\ UNCHANGED <<device, daemon, cframe, server, torn, received>>
-----------------------------------------------------------------------------
(* The server, which serves one connection after the other.  Frames of a   *)
(* connection that is torn are cut at the wrong places until its end.      *)
Misread == net # <<>> /\ Head(net).conn = torn

(* read_n_nonblocking has a whole frame, and the handler decodes it.       *)
Receive ==
  /\ server = "up" /\ net # <<>> /\ ~Misread /\ net' = Tail(net)
  /\ received' = Append(received, [num |-> Head(net).num,
                                   frame |-> AtServer(Head(net).bytes)])
  /\ UNCHANGED <<device, daemon, fifo, client, server, torn, counts>>

(* The same on a torn connection: what the handler gets is the end of one  *)
(* frame and the beginning of the next (FrameStream), or, at the end of    *)
(* the connection, fewer bytes.                                            *)
ReceiveTorn ==
  /\ server = "up" /\ Misread /\ net' = Tail(net)
  /\ UNCHANGED <<device, daemon, fifo, client, server, torn, received, counts>>

(* SIGHUP while a part of a frame is read: read_n_nonblocking returns -2,  *)
(* and this part is gone.  A second time may bring the server back in step. *)
HupTearsFrame ==
  /\ server = "up" /\ net # <<>> /\ Fault /\ net' = Tail(net)
  /\ torn' = IF Misread THEN 0 ELSE Head(net).conn
  /\ UNCHANGED <<device, daemon, fifo, client, server, received>>

(* A statement of the handler is refused (another process holds data.db):  *)
(* CHECK_SQL waits for Enter, and nobody reads the connection, which stays *)
(* open.                                                                   *)
ServerWaits ==
  /\ server = "up" /\ Fault /\ server' = "stuck"
  /\ UNCHANGED <<device, daemon, fifo, client, net, torn, received>>

(* The server ends: a signal, Enter after CHECK_SQL, or SIGPIPE when it    *)
(* replies to a client that is gone.  Its kernel says FIN, or RST when     *)
(* frames were unread or the connection was not accepted yet.              *)
ServerStops ==
  /\ server # "down" /\ Fault /\ server' = "down" /\ net' = <<>> /\ torn' = 0
  /\ \/ sock # "up" /\ sock' = sock
     \/ sock = "up" /\ net = <<>> /\ sock' = "eof"
     \/ sock = "up" /\ sock' = "reset"
  /\ UNCHANGED <<device, daemon, fifo, cpc, cframe, received>>

ServerStarts ==
  /\ server = "down" /\ server' = "up"
  /\ UNCHANGED <<device, daemon, fifo, client, net, torn, received, counts>>
-----------------------------------------------------------------------------
Started == starts < MaxStarts /\ starts' = starts + 1 /\ UNCHANGED <<conn, faults>>

(* start_daemons.sh: the client first ...                                  *)
RunScript ==
  /\ ~script /\ cpc = "down" /\ ipc = "down" /\ Started
  /\ cpc' = "connect" /\ script' = TRUE
  /\ UNCHANGED <<device, daemon, fifo, cframe, sock, tcp>>

(* ... and I2C_DAEMON once pgrep has seen a process of the client's name,  *)
(* or has not seen it three times.                                         *)
ScriptStartsI2c ==
  /\ script /\ script' = FALSE
  /\ ipc' = IF ipc = "down" THEN "fifo" ELSE ipc
  /\ UNCHANGED <<device, pipe, iframe, event, missed, fifo, client, tcp, conn, faults,
                 starts>>

(* One daemon started by hand.                                             *)
StartClient ==
  /\ ~script /\ cpc = "down" /\ Started /\ cpc' = "connect"
  /\ UNCHANGED <<device, daemon, fifo, cframe, sock, tcp, script>>

StartI2c ==
  /\ ~script /\ ipc = "down" /\ Started /\ ipc' = "fifo"
  /\ UNCHANGED <<device, pipe, iframe, event, missed, fifo, client, tcp, script>>
-----------------------------------------------------------------------------
Device == FillDataStruct \/ I2C2_Send_Data \/ EndSend \/ HAL_Delay
I2cDaemon == \/ OpenPipe \/ InitDevices \/ PollGpio \/ ReadValue \/ ReadFrame
             \/ ReadNobody \/ WriteDrops \/ WritePipe \/ WriteNoReader
ClientDaemon == \/ Connect \/ ConnectRefused \/ OpenForReading \/ GetFrame \/ SendFrame
                \/ SendToClosed \/ SendToReset \/ SeeHangup
Server == Receive \/ ReceiveTorn
Faults == \/ Reset \/ InitFails \/ ReadThroughReset \/ ReadFails \/ I2cKilled
          \/ ConnectFails \/ ClientKilled
          \/ HupTearsFrame \/ ServerWaits \/ ServerStops
Starts == RunScript \/ StartClient \/ StartI2c

Next == \/ Device \/ I2cDaemon \/ ClientDaemon \/ Server \/ ScriptStartsI2c
        \/ ServerStarts \/ Faults \/ Starts

Spec == Init /\ [][Next]_vars

(* Every program runs on while it can and HAL_Delay ends.  The server      *)
(* reads its connection only while it is "up": nothing makes a server that *)
(* waits for Enter go on, and nothing starts one that is down.             *)
FairSpec ==
  /\ Spec /\ WF_vars(Device) /\ WF_vars(I2cDaemon) /\ WF_vars(ClientDaemon)
  /\ WF_vars(Server) /\ WF_vars(ScriptStartsI2c)
-----------------------------------------------------------------------------
Message == [num : Nat, bytes : Bytes]
Segment == [num : Nat, bytes : Bytes, conn : Nat]
Got == [num : Nat, frame : GpsFrame]

DeviceOK ==
  /\ spc \in {"fill", "send", "transmit", "done", "delay"}
  /\ index \in 0 .. Len(Coordinates) /\ data \in GpsFrame
  /\ tx \in Message /\ pin \in BOOLEAN /\ produced \in Seq(GpsFrame)
  /\ cut \subseteq Nat
DaemonOK ==
  /\ ipc \in {"down", "fifo", "init", "poll", "value", "i2c", "write"}
  /\ pipe \in BOOLEAN /\ iframe \in Message
  /\ event \in BOOLEAN /\ missed \in BOOLEAN
FifoOK == fifo \in Seq(Message) /\ Len(fifo) <= FifoCap
ClientOK ==
  /\ cpc \in {"down", "connect", "open", "opening", "poll", "send"}
  /\ cframe \in Message /\ sock \in {"none", "up", "eof", "reset"}
TcpOK ==
  /\ net \in Seq(Segment) /\ Len(net) <= SockCap
  /\ server \in {"up", "stuck", "down"} /\ torn \in Nat /\ received \in Seq(Got)
CountsOK == script \in BOOLEAN /\ conn \in Nat /\ faults \in Nat /\ starts \in Nat

(* Every variable keeps its type; no queue is longer than its buffer.      *)
TypeOK == DeviceOK /\ DaemonOK /\ FifoOK /\ ClientOK /\ TcpOK /\ CountsOK

Nums(s) == [i \in DOMAIN s |-> s[i].num]

(* Whatever ends, is restarted, fails or overflows, the frames the server  *)
(* reads whole are frames the device sent, in their order and none of them *)
(* twice: no START or STOP is ever repeated or overtaken on the way.  What *)
(* it reads across a lost boundary is FrameStream's subject.               *)
Channel == INSTANCE LossyChannel WITH sent <- Len(produced), got <- Nums(received)
ImplementsChannel == Channel!Spec

(* Through every reversal and swap on the way, the server reads the id and *)
(* the status that the device sent; and a frame that a reset cut off never *)
(* comes in under the id of its device, whatever status it has kept.       *)
DecodedRight ==
  \A i \in DOMAIN received :
    LET f == produced[received[i].num]
        r == received[i].frame
    IN IF received[i].num \in cut
       THEN r.device_id # f.device_id
       ELSE r.device_id = f.device_id /\ r.status = f.status

(* "GPIO is used as interrupt signal to trigger I2C read only when new     *)
(* data is available": unless something failed, I2C_DAEMON reads only      *)
(* while the device waits to be read, and only a frame it has not read.    *)
ReadOnlyWhenReady ==
  ipc = "i2c" =>
    /\ spc = "transmit" => tx.num > iframe.num
    /\ faults = 0 => spc = "transmit"

(* The device waits for I2C_DAEMON, which waits for an edge, for good.     *)
Standstill == spc = "transmit" /\ ipc = "poll" /\ ~event

(* The two wait for each other only when I2C_DAEMON started with the pin   *)
(* high already, or failed to read the frame: once it is in its loop, no   *)
(* edge is lost, however long it is busy with the previous frame.          *)
StandstillExplained == Standstill => missed

InChain ==
  (IF spc = "transmit" THEN {tx.num} ELSE {})
  \cup (IF ipc = "write" THEN {iframe.num} ELSE {})
  \cup (IF cpc = "send" THEN {cframe.num} ELSE {})
  \cup ToSet(Nums(fifo)) \cup ToSet(Nums(net)) \cup ToSet(Nums(received))

(* A frame the device has sent is lost only by a fault, at a FIFO that is  *)
(* not open, full or without a reader, on a connection that the server has *)
(* closed, or on one that a SIGHUP has torn; never by the daemons          *)
(* themselves or by starting one anew.                                     *)
LossStep ==
  \/ InChain \subseteq InChain'
  \/ faults' > faults
  \/ ipc = "write" /\ (~pipe \/ ~Reader \/ Len(fifo) = FifoCap)
  \/ cpc = "send" /\ sock \in {"eof", "reset"}
  \/ server = "up" /\ Misread
LossExplained == [][LossStep]_vars

(* Both daemons are in their loops, the FIFO and the socket are between    *)
(* them, and the server reads and knows where a frame begins.              *)
Up == /\ Listening /\ pipe /\ cpc \in {"poll", "send"} /\ sock = "up"
      /\ server = "up" /\ torn # conn

(* While the chain is up, a frame the device offers, and whose edge was not *)
(* missed, reaches the server, unless the FIFO fills or something fails    *)
(* before: a daemon, the bus, the device, or the server, which may wait    *)
(* for Enter in CHECK_SQL, tear the frame at a SIGHUP or end by SIGPIPE.   *)
OfferedIsReceived ==
  \A n \in 1 .. MaxFrames, f \in 0 .. MaxFaults :
    spc = "transmit" /\ tx.num = n /\ Up /\ ~missed /\ faults = f
      ~> \/ n \in ToSet(Nums(received))
         \/ ipc = "write" /\ Len(fifo) = FifoCap
         \/ faults > f

(* A client in its loop whose connection was reset does not stay: its next *)
(* look at the socket, or its next frame, ends it.                         *)
HangupNoticed ==
  sock = "reset" /\ cpc \in {"poll", "send"} ~> sock = "none"

(* "Start I2C_DAEMON only after client is alive": once both are past their *)
(* start the FIFO connects them.  Refuted: alive is not yet at the FIFO.   *)
ChainConnects ==
  Listening /\ cpc \in {"opening", "poll", "send"} ~> pipe /\ cpc # "opening"

(* "frame already in network endian from i2c_daemon": the coordinates at   *)
(* the server are the device's.  Refuted: I2C_DAEMON writes host order.    *)
CoordinatesKept ==
  \A i \in DOMAIN received :
    LET f == produced[received[i].num]
    IN received[i].frame.cord_x = f.cord_x /\ received[i].frame.cord_y = f.cord_y
=============================================================================
