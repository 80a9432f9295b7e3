-------------------------- MODULE DeviceChainProofs -------------------------
(***************************************************************************)
(* Theorems of DeviceChain, for every table of coordinates, every buffer   *)
(* size and every number of frames, faults and starts.                     *)
(***************************************************************************)
EXTENDS DeviceChain, WireFormatProofs, SequenceTheorems

(* The pin says that the device waits or has just been served; a waiting   *)
(* device whose edge was not missed has its edge before I2C_DAEMON, unless *)
(* the daemon is on its way to it; and while nothing failed, it comes to   *)
(* the bus only for a waiting device.                                      *)
Signals ==
  /\ pin <=> spc \in {"transmit", "done"}
  /\ spc = "transmit" /\ ipc \in {"poll", "write"} /\ ~missed => event
  /\ faults = 0 =>
       /\ spc = "done" => ~event /\ ipc \notin {"value", "i2c"}
       /\ ipc = "i2c" => spc = "transmit" /\ ~event

(* The frame at hand, once filled in, and those sent carry the device's id. *)
Own ==
  /\ spc # "fill" => data.device_id = DEVICE_ID
  /\ \A i \in 1 .. Len(produced) : produced[i].device_id = DEVICE_ID

Increasing(s) == \A i, j \in 1 .. Len(s) : i < j => s[i].num < s[j].num

(* From the device to the server no frame is older than those behind it:   *)
(* a variable that keeps its frame after passing it on is a bound for what *)
(* is before it, and a strict one while it still has to pass it on.        *)
Order ==
  /\ tx.num = Len(produced)
  /\ iframe.num <= tx.num /\ (spc = "transmit" => iframe.num < tx.num)
  /\ cframe.num <= iframe.num /\ (ipc = "write" => cframe.num < iframe.num)
  /\ cpc = "send" => 0 < cframe.num
  /\ Increasing(fifo) /\ Increasing(net)
  /\ \A i \in 1 .. Len(fifo) :
       /\ cframe.num < fifo[i].num /\ fifo[i].num <= iframe.num
       /\ ipc = "write" => fifo[i].num < iframe.num
  /\ \A i \in 1 .. Len(net) :
       /\ 0 < net[i].num /\ net[i].num <= cframe.num
       /\ cpc = "send" => net[i].num < cframe.num
  /\ \A i \in 1 .. Len(received) :
       /\ received[i].num <= cframe.num
       /\ cpc = "send" => received[i].num < cframe.num
       /\ \A j \in 1 .. Len(net) : received[i].num < net[j].num

(* What I2C_DAEMON may have read as frame n of those sent, p: the frame     *)
(* itself, or, of a frame in c, the set of those cut off, anything whose   *)
(* id ends in ones.                                                        *)
Origin(p, c, n, g) ==
  /\ n \in 1 .. Len(p) /\ g \in GpsFrame
  /\ n \in c => Low(g.device_id) = 255
  /\ n \notin c => g = p[n]

(* Such a frame as I2C_DAEMON writes it, and as the server decodes it.     *)
Written(p, c, m) == \E g \in GpsFrame : Origin(p, c, m.num, g) /\ m.bytes = ToPipe(g)
Decoded(p, c, r) ==
  \E g \in GpsFrame : Origin(p, c, r.num, g) /\ r.frame = AtServer(ToPipe(g))

(* Wherever a frame is, its bytes are the device's at that stage.          *)
Content ==
  /\ \A n \in cut : n <= iframe.num
  /\ tx.num > 0 => tx.bytes = SwapEndian(InMemory(produced[tx.num]))
  /\ iframe.num > 0 => Written(produced, cut, iframe)
  /\ cframe.num > 0 => Written(produced, cut, cframe)
  /\ \A i \in 1 .. Len(fifo) : Written(produced, cut, fifo[i])
  /\ \A i \in 1 .. Len(net) : Written(produced, cut, net[i])
  /\ \A i \in 1 .. Len(received) : Decoded(produced, cut, received[i])

(* The FIFO keeps frames only while an end is open.                        *)
Held ==
  /\ pipe => ipc \notin {"down", "fifo"}
  /\ fifo # <<>> => pipe \/ Reader

IndInv == TypeOK /\ Signals /\ Order /\ Own /\ Content /\ Held
-----------------------------------------------------------------------------
(* The types: each program disturbs its own variables and few others.      *)
LEMMA Unchanged ==
  /\ DeviceOK /\ UNCHANGED device => DeviceOK'
  /\ DaemonOK /\ UNCHANGED daemon => DaemonOK'
  /\ FifoOK /\ UNCHANGED fifo => FifoOK'
  /\ ClientOK /\ UNCHANGED client => ClientOK'
  /\ TcpOK /\ UNCHANGED tcp => TcpOK'
  /\ CountsOK /\ UNCHANGED counts => CountsOK'
<1>1. DeviceOK /\ UNCHANGED device => DeviceOK'
  BY DEF DeviceOK, device
<1>2. DaemonOK /\ UNCHANGED daemon => DaemonOK'
  BY DEF DaemonOK, daemon
<1>3. FifoOK /\ UNCHANGED fifo => FifoOK'
  BY DEF FifoOK
<1>4. ClientOK /\ UNCHANGED client => ClientOK'
  BY DEF ClientOK, client
<1>5. TcpOK /\ UNCHANGED tcp => TcpOK'
  BY DEF TcpOK, tcp
<1>6. CountsOK /\ UNCHANGED counts => CountsOK'
  BY DEF CountsOK, counts
<1> QED BY <1>1, <1>2, <1>3, <1>4, <1>5, <1>6

(* A fault and a start change their counters only.                         *)
LEMMA CountTypes ==
  ASSUME CountsOK
  PROVE  /\ Fault => CountsOK'
         /\ Started /\ script' \in BOOLEAN => CountsOK'
<1>1. faults \in Nat /\ starts \in Nat /\ conn \in Nat /\ script \in BOOLEAN
  BY DEF CountsOK
<1>2. ASSUME Fault PROVE CountsOK'
  <2>1. faults' = faults + 1 /\ script' = script /\ conn' = conn /\ starts' = starts
    BY <1>2 DEF Fault
  <2> QED BY <1>1, <2>1 DEF CountsOK
<1>3. ASSUME Started, script' \in BOOLEAN PROVE CountsOK'
  <2>1. starts' = starts + 1 /\ faults' = faults /\ conn' = conn
    BY <1>3 DEF Started
  <2> QED BY <1>1, <1>3, <2>1 DEF CountsOK
<1> QED BY <1>2, <1>3

(* A buffer that is emptied fits.                                          *)
LEMMA EmptyTypes ==
  /\ \A S : <<>> \in Seq(S)
  /\ Len(<<>>) <= FifoCap /\ Len(<<>>) <= SockCap
BY ChainBoundsAssumption

LEMMA BlankTypes == Blank \in Message /\ FromMemory(Blank.bytes) \in GpsFrame
<1>1. Blank.bytes \in Bytes /\ Blank.num = 0
  BY DEF Blank, Bytes, Byte
<1>2. Blank \in Message
  BY <1>1 DEF Blank, Message
<1> QED BY <1>1, <1>2, FrameTypes

LEMMA InitTypes == Init => TypeOK
<1> SUFFICES ASSUME Init PROVE TypeOK
  OBVIOUS
<1>1. 0 \in 0 .. Len(Coordinates)
  BY CoordinatesAssumption
<1>2. DeviceOK
  <2>1. index \in 0 .. Len(Coordinates)
    BY <1>1 DEF Init
  <2>2. produced \in Seq(GpsFrame)
    BY EmptyTypes DEF Init
  <2> QED BY <2>1, <2>2, BlankTypes DEF Init, DeviceOK
<1>3. DaemonOK /\ ClientOK /\ CountsOK
  BY BlankTypes DEF Init, DaemonOK, ClientOK, CountsOK
<1>4. FifoOK /\ TcpOK
  BY ChainBoundsAssumption DEF Init, FifoOK, TcpOK
<1> QED BY <1>2, <1>3, <1>4 DEF TypeOK

(* What the device sends is a frame, and so is what others make of it.     *)
LEMMA SentType ==
  ASSUME DeviceOK
  PROVE  /\ [num |-> Len(produced) + 1, bytes |-> SwapEndian(InMemory(data))] \in Message
         /\ [num |-> tx.num, bytes |-> ToPipe(i2c_read_frame(tx.bytes))] \in Message
         /\ \A k \in Cuts :
              [num |-> tx.num,
               bytes |-> ToPipe(i2c_read_frame(CutOff(tx.bytes, k)))] \in Message
<1>1. data \in GpsFrame /\ tx \in Message /\ produced \in Seq(GpsFrame)
  BY DEF DeviceOK
<1>2. SwapEndian(InMemory(data)) \in Bytes
  BY <1>1, MemoryBytes, FrameTypes
<1>3. ToPipe(i2c_read_frame(tx.bytes)) \in Bytes
  BY <1>1, FrameTypes DEF Message
<1>4. \A k \in Cuts : ToPipe(i2c_read_frame(CutOff(tx.bytes, k))) \in Bytes
  BY <1>1, CutFrame, FrameTypes, ChainBoundsAssumption DEF Message
<1> QED BY <1>1, <1>2, <1>3, <1>4 DEF Message

LEMMA DeviceTypes ==
  ASSUME TypeOK, Device \/ Reset
  PROVE  TypeOK'
<1> USE DEF TypeOK
<1>1. CASE FillDataStruct
  <2> DEFINE at == IF index >= Len(Coordinates) THEN 0 ELSE index
  <2>1. /\ Coordinates \in Seq([x : Float, y : Float]) /\ Len(Coordinates) \in Nat
        /\ Len(Coordinates) > 0
    BY CoordinatesAssumption
  <2>2. at \in 0 .. Len(Coordinates) - 1
    BY <2>1 DEF DeviceOK
  <2>3. at + 1 \in 1 .. Len(Coordinates)
    BY <2>1, <2>2
  <2>4. Coordinates[at + 1] \in [x : Float, y : Float]
    BY <2>1, <2>3, ElementOfSeq
  <2>5. DEVICE_ID \in Word /\ START \in Word
    BY DEF DEVICE_ID, START, Word, UINT16_MAX
  <2>6. index' \in 0 .. Len(Coordinates) /\ data' \in GpsFrame /\ spc' = "send"
    BY <1>1, <2>1, <2>3, <2>4, <2>5 DEF FillDataStruct, GpsFrame
  <2>7. DeviceOK'
    BY <1>1, <2>6 DEF FillDataStruct, DeviceOK
  <2> QED BY <1>1, <2>7, Unchanged DEF FillDataStruct
<1>2. CASE I2C2_Send_Data
  <2>1. DeviceOK'
    BY <1>2, SentType DEF I2C2_Send_Data, DeviceOK
  <2>2. DaemonOK'
    BY <1>2 DEF I2C2_Send_Data, Listening, DaemonOK
  <2> QED BY <1>2, <2>1, <2>2, Unchanged DEF I2C2_Send_Data
<1>3. CASE EndSend
  <2>1. DeviceOK'
    BY <1>3 DEF EndSend, DeviceOK
  <2> QED BY <1>3, <2>1, Unchanged DEF EndSend
<1>4. CASE HAL_Delay
  <2>1. AND \in Word
    BY DEF AND, Word, UINT16_MAX
  <2>2. data' \in GpsFrame
    BY <1>4, <2>1 DEF HAL_Delay, DeviceOK, GpsFrame
  <2>3. DeviceOK'
    BY <1>4, <2>2 DEF HAL_Delay, DeviceOK
  <2> QED BY <1>4, <2>3, Unchanged DEF HAL_Delay
<1>5. CASE Reset
  <2>1. 0 \in 0 .. Len(Coordinates)
    BY CoordinatesAssumption
  <2>2. index' \in 0 .. Len(Coordinates)
    BY <1>5, <2>1 DEF Reset, StartAnew
  <2>3. DeviceOK'
    BY <1>5, <2>2 DEF Reset, StartAnew, DeviceOK
  <2>4. DaemonOK' /\ CountsOK'
    BY <1>5, CountTypes DEF Reset, StartAnew, DaemonOK
  <2> QED BY <1>5, <2>3, <2>4, Unchanged DEF Reset
<1> QED BY <1>1, <1>2, <1>3, <1>4, <1>5 DEF Device

LEMMA DaemonTypes ==
  ASSUME TypeOK, I2cDaemon \/ InitFails \/ ReadThroughReset \/ ReadFails \/ I2cKilled
  PROVE  TypeOK'
<1> USE DEF TypeOK
<1>1. CASE OpenPipe
  <2>1. DaemonOK' /\ ClientOK'
    BY <1>1 DEF OpenPipe, Reader, DaemonOK, ClientOK
  <2> QED BY <1>1, <2>1, Unchanged DEF OpenPipe
<1>2. CASE InitDevices \/ PollGpio \/ ReadValue \/ ReadNobody \/ WriteDrops
  <2>1. DaemonOK'
    BY <1>2 DEF InitDevices, PollGpio, ReadValue, ReadNobody, WriteDrops, DaemonOK
  <2> QED BY <1>2, <2>1, Unchanged
        DEF InitDevices, PollGpio, ReadValue, ReadNobody, WriteDrops
<1>3. CASE ReadFrame
  <2>1. DeviceOK' /\ DaemonOK'
    BY <1>3, SentType DEF ReadFrame, HAL_I2C_Slave_Transmit, DeviceOK, DaemonOK
  <2> QED BY <1>3, <2>1, Unchanged DEF ReadFrame
<1>4. CASE WritePipe
  <2>1. DaemonOK' /\ iframe \in Message
    BY <1>4 DEF WritePipe, DaemonOK
  <2>2. FifoOK'
    BY <1>4, <2>1, ChainBoundsAssumption DEF WritePipe, FifoOK
  <2> QED BY <1>4, <2>1, <2>2, Unchanged DEF WritePipe
<1>5. CASE WriteNoReader \/ InitFails \/ I2cKilled
  <2>1. DaemonOK' /\ CountsOK'
    BY <1>5, Unchanged, CountTypes
       DEF WriteNoReader, InitFails, I2cKilled, I2cExits, DaemonOK
  <2>2. fifo' = fifo \/ fifo' = <<>>
    BY <1>5 DEF WriteNoReader, InitFails, I2cKilled, I2cExits, Leftover
  <2>3. FifoOK'
    BY <2>2, EmptyTypes DEF FifoOK
  <2> QED BY <1>5, <2>1, <2>3, Unchanged DEF WriteNoReader, InitFails, I2cKilled
<1>6. CASE ReadFails
  <2>1. DeviceOK' /\ DaemonOK' /\ CountsOK'
    BY <1>6, CountTypes DEF ReadFails, I2C_IsErrorOccurred, DeviceOK, DaemonOK
  <2> QED BY <1>6, <2>1, Unchanged DEF ReadFails
<1>7. CASE ReadThroughReset
  <2>1. tx.num \in Nat /\ 0 \in 0 .. Len(Coordinates)
    BY CoordinatesAssumption DEF DeviceOK, Message
  <2>2. DeviceOK'
    BY <1>7, <2>1 DEF ReadThroughReset, StartAnew, DeviceOK
  <2>3. iframe' \in Message
    BY <1>7, SentType DEF ReadThroughReset
  <2>4. DaemonOK' /\ CountsOK'
    BY <1>7, <2>3, CountTypes DEF ReadThroughReset, StartAnew, DaemonOK
  <2> QED BY <1>7, <2>2, <2>4, Unchanged DEF ReadThroughReset
<1> QED BY <1>1, <1>2, <1>3, <1>4, <1>5, <1>6, <1>7 DEF I2cDaemon

LEMMA ClientTypes ==
  ASSUME TypeOK, ClientDaemon \/ ConnectFails \/ ClientKilled
  PROVE  TypeOK'
<1> USE DEF TypeOK
<1>1. CASE Connect \/ OpenForReading \/ SendToClosed
  <2>1. ClientOK'
    BY <1>1 DEF Connect, OpenForReading, SendToClosed, ClientOK
  <2>2. CountsOK'
    BY <1>1, Unchanged DEF Connect, OpenForReading, SendToClosed, CountsOK
  <2> QED BY <1>1, <2>1, <2>2, Unchanged DEF Connect, OpenForReading, SendToClosed
<1>2. CASE GetFrame
  <2>1. Head(fifo) \in Message /\ FifoOK'
    BY <1>2, ChainBoundsAssumption DEF GetFrame, FifoOK
  <2>2. ClientOK'
    BY <1>2, <2>1 DEF GetFrame, ClientOK
  <2> QED BY <1>2, <2>1, <2>2, Unchanged DEF GetFrame
<1>3. CASE SendFrame
  <2>1. ClientOK' /\ cframe \in Message
    BY <1>3 DEF SendFrame, ClientOK
  <2>2. [num |-> cframe.num, bytes |-> cframe.bytes, conn |-> conn] \in Segment
    BY <2>1 DEF Message, Segment, CountsOK
  <2>3. Append(net, [num |-> cframe.num, bytes |-> cframe.bytes, conn |-> conn])
          \in Seq(Segment)
    BY <2>2 DEF TcpOK
  <2>4. TcpOK'
    BY <1>3, <2>2, <2>3, ChainBoundsAssumption DEF SendFrame, TcpOK
  <2> QED BY <1>3, <2>1, <2>4, Unchanged DEF SendFrame
<1>4. CASE ConnectRefused \/ SendToReset \/ SeeHangup \/ ConnectFails \/ ClientKilled
  <2> USE DEF ConnectRefused, SendToReset, SeeHangup, ConnectFails, ClientKilled,
              ClientExits
  <2>1. ClientOK'
    BY <1>4 DEF ClientOK
  <2>2. fifo' = fifo \/ fifo' = <<>>
    BY <1>4 DEF Leftover
  <2>3. FifoOK'
    BY <2>2, EmptyTypes DEF FifoOK
  <2>4. CountsOK'
    BY <1>4, Unchanged, CountTypes
  <2>5. UNCHANGED <<server, torn, received>> /\ (net' = net \/ net' = <<>>)
    BY <1>4 DEF tcp
  <2>6. TcpOK'
    BY <2>5, EmptyTypes DEF TcpOK
  <2> QED BY <1>4, <2>1, <2>3, <2>4, <2>6, Unchanged
<1> QED BY <1>1, <1>2, <1>3, <1>4 DEF ClientDaemon

LEMMA OtherTypes ==
  ASSUME TypeOK, \/ Server \/ HupTearsFrame \/ ServerWaits \/ ServerStops \/ ServerStarts
                 \/ ScriptStartsI2c \/ Starts
  PROVE  TypeOK'
<1> USE DEF TypeOK
<1>1. CASE Server \/ HupTearsFrame
  <2>1. net # <<>> /\ net' = Tail(net) /\ server' = server
    BY <1>1 DEF Server, Receive, ReceiveTorn, HupTearsFrame, Misread
  <2>2. /\ Head(net) \in Segment /\ Tail(net) \in Seq(Segment)
        /\ Len(Tail(net)) <= SockCap
    BY <2>1, ChainBoundsAssumption DEF TcpOK
  <2>3. torn' \in Nat
    BY <1>1, <2>2
       DEF Server, Receive, ReceiveTorn, HupTearsFrame, TcpOK, Segment
  <2>4. received' \in Seq(Got)
    <3>1. CASE Receive
      <4>1. AtServer(Head(net).bytes) \in GpsFrame
        BY <2>2, FrameTypes DEF Segment
      <4>2. [num |-> Head(net).num, frame |-> AtServer(Head(net).bytes)] \in Got
        BY <2>2, <4>1 DEF Segment, Got
      <4> QED BY <3>1, <4>2 DEF Receive, TcpOK
    <3>2. CASE ReceiveTorn \/ HupTearsFrame
      BY <3>2 DEF ReceiveTorn, HupTearsFrame, TcpOK
    <3> QED BY <1>1, <3>1, <3>2 DEF Server
  <2>5. TcpOK'
    BY <2>1, <2>2, <2>3, <2>4 DEF TcpOK
  <2>6. CountsOK'
    BY <1>1, Unchanged, CountTypes DEF Server, Receive, ReceiveTorn, HupTearsFrame
  <2> QED BY <1>1, <2>5, <2>6, Unchanged DEF Server, Receive, ReceiveTorn, HupTearsFrame
<1>2. CASE ServerStops
  <2>1. TcpOK'
    BY <1>2, EmptyTypes DEF ServerStops, TcpOK
  <2>2. ClientOK' /\ CountsOK'
    BY <1>2, CountTypes DEF ServerStops, ClientOK
  <2> QED BY <1>2, <2>1, <2>2, Unchanged DEF ServerStops
<1>3. CASE ServerStarts \/ ServerWaits
  <2>1. TcpOK'
    BY <1>3 DEF ServerStarts, ServerWaits, TcpOK
  <2>2. CountsOK'
    BY <1>3, Unchanged, CountTypes DEF ServerStarts, ServerWaits
  <2> QED BY <1>3, <2>1, <2>2, Unchanged DEF ServerStarts, ServerWaits
<1>4. CASE ScriptStartsI2c
  <2>1. DaemonOK' /\ CountsOK'
    BY <1>4 DEF ScriptStartsI2c, DaemonOK, CountsOK
  <2> QED BY <1>4, <2>1, Unchanged DEF ScriptStartsI2c
<1>5. CASE Starts
  <2> USE DEF Starts, RunScript, StartClient, StartI2c
  <2>1. CountsOK'
    BY <1>5, CountTypes DEF CountsOK
  <2>2. DaemonOK' /\ ClientOK'
    BY <1>5, Unchanged DEF DaemonOK, ClientOK
  <2>3. UNCHANGED <<device, fifo, tcp>>
    BY <1>5
  <2> QED BY <2>1, <2>2, <2>3, Unchanged
<1> QED BY <1>1, <1>2, <1>3, <1>4, <1>5

LEMMA TypesKept == TypeOK /\ [Next]_vars => TypeOK'
<1>1. TypeOK /\ UNCHANGED vars => TypeOK'
  BY Unchanged DEF TypeOK, vars
<1> QED BY <1>1, DeviceTypes, DaemonTypes, ClientTypes, OtherTypes DEF Next, Faults
-----------------------------------------------------------------------------
(* The invariant holds at first.                                           *)
LEMMA IndInvInit == Init => IndInv
<1> SUFFICES ASSUME Init PROVE IndInv
  OBVIOUS
<1>1. TypeOK
  BY InitTypes
<1>2. Len(produced) = 0 /\ Len(fifo) = 0 /\ Len(net) = 0 /\ Len(received) = 0
  BY DEF Init
<1>3. Blank.num = 0
  BY DEF Blank
<1>4. Signals /\ Held
  BY DEF Init, Signals, Held
<1>5. Order
  BY <1>2, <1>3 DEF Init, Order, Increasing
<1>6. Own /\ Content
  BY <1>2, <1>3 DEF Init, Own, Content
<1> QED BY <1>1, <1>4, <1>5, <1>6 DEF IndInv

(* The pin and the edge: only these actions disturb them.                  *)
LEMMA SignalsKept ==
  ASSUME TypeOK, Signals, [Next]_vars
  PROVE  Signals'
<1> USE DEF Signals
<1>0. faults \in Nat
  BY DEF TypeOK, CountsOK
<1>1. CASE UNCHANGED <<spc, pin, ipc, event, missed, faults>>
  BY <1>1
<1>2. CASE Device
  <2>1. CASE FillDataStruct \/ HAL_Delay
    BY <2>1 DEF FillDataStruct, HAL_Delay, daemon, counts
  <2>2. CASE I2C2_Send_Data
    BY <2>2 DEF I2C2_Send_Data, Listening, counts
  <2>3. CASE EndSend
    BY <2>3 DEF EndSend, daemon, counts
  <2> QED BY <1>2, <2>1, <2>2, <2>3 DEF Device
<1>3. CASE OpenPipe \/ InitDevices \/ PollGpio
  <2>1. CASE OpenPipe
    BY <2>1 DEF OpenPipe, device, counts
  <2>2. CASE InitDevices
    BY <2>2 DEF InitDevices, device, counts
  <2>3. CASE PollGpio
    BY <2>3 DEF PollGpio, device, counts
  <2> QED BY <1>3, <2>1, <2>2, <2>3
<1>4. CASE ReadValue
  BY <1>4 DEF ReadValue, device, counts
<1>5. CASE ReadFrame \/ ReadNobody
  BY <1>5 DEF ReadFrame, HAL_I2C_Slave_Transmit, ReadNobody, device, counts
<1>6. CASE WriteDrops \/ WritePipe \/ WriteNoReader
  BY <1>6 DEF WriteDrops, WritePipe, WriteNoReader, I2cExits, device, counts
<1>7. CASE Reset \/ InitFails \/ ReadThroughReset \/ ReadFails \/ I2cKilled
  <2>1. CASE Reset \/ ReadThroughReset
    BY <2>1, <1>0 DEF Reset, ReadThroughReset, StartAnew, Fault
  <2>2. CASE InitFails \/ ReadFails \/ I2cKilled
    BY <2>2, <1>0 DEF InitFails, ReadFails, I2C_IsErrorOccurred, I2cKilled, I2cExits,
                      Fault, device
  <2> QED BY <1>7, <2>1, <2>2
<1>8. CASE ConnectFails \/ ClientKilled \/ HupTearsFrame \/ ServerWaits \/ ServerStops
  BY <1>8, <1>0 DEF ConnectFails, ClientKilled, HupTearsFrame, ServerWaits, ServerStops,
                    Fault, device, daemon
<1>9. CASE ScriptStartsI2c \/ StartI2c
  BY <1>9 DEF ScriptStartsI2c, StartI2c, Started, device
<1>10. CASE ClientDaemon \/ Server \/ ServerStarts \/ RunScript \/ StartClient
  BY <1>10, <1>1 DEF ClientDaemon, Connect, ConnectRefused, OpenForReading, GetFrame,
                SendFrame, SendToClosed, SendToReset, SeeHangup, Server, Receive,
                ReceiveTorn, ServerStarts, RunScript, StartClient, Started, device, daemon,
                counts
<1>11. CASE UNCHANGED vars
  BY <1>11, <1>1 DEF vars, device, daemon, counts
<1> QED BY <1>2, <1>3, <1>4, <1>5, <1>6, <1>7, <1>8, <1>9, <1>10, <1>11
       DEF Next, I2cDaemon, Faults, Starts

(* The FIFO: only who holds an end open leaves frames in it.               *)
LEMMA HeldKept ==
  ASSUME TypeOK, Held, [Next]_vars
  PROVE  Held'
<1> USE DEF Held, Reader
<1>1. CASE UNCHANGED <<pipe, ipc, fifo, cpc>>
  BY <1>1
<1>2. CASE OpenPipe
  BY <1>2 DEF OpenPipe
<1>3. CASE \/ InitDevices \/ PollGpio \/ ReadValue \/ ReadFrame \/ ReadThroughReset
           \/ ReadFails \/ ReadNobody \/ WriteDrops \/ WritePipe
  BY <1>3 DEF InitDevices, PollGpio, ReadValue, ReadFrame, ReadThroughReset, ReadFails,
              ReadNobody, WriteDrops, WritePipe, client
<1>4. CASE WriteNoReader \/ InitFails \/ I2cKilled
  BY <1>4 DEF WriteNoReader, InitFails, I2cKilled, I2cExits, Leftover, client
<1>5. CASE Connect \/ OpenForReading \/ GetFrame \/ SendFrame \/ SendToClosed
  BY <1>5 DEF Connect, OpenForReading, GetFrame, SendFrame, SendToClosed, daemon
<1>6. CASE ConnectRefused \/ SendToReset \/ SeeHangup \/ ConnectFails \/ ClientKilled
  BY <1>6 DEF ConnectRefused, SendToReset, SeeHangup, ConnectFails, ClientKilled,
              ClientExits, Leftover, daemon
<1>7. CASE ScriptStartsI2c \/ Starts
  BY <1>7 DEF ScriptStartsI2c, Starts, RunScript, StartClient, StartI2c, Started,
              daemon, client
<1>8. CASE \/ Device \/ Reset \/ Server \/ HupTearsFrame \/ ServerWaits
           \/ ServerStops \/ ServerStarts
  BY <1>8, <1>1 DEF Device, FillDataStruct, I2C2_Send_Data, EndSend, HAL_Delay, Reset,
                    Server, Receive, ReceiveTorn, HupTearsFrame, ServerWaits, ServerStops,
                    ServerStarts, daemon, client
<1>9. CASE UNCHANGED vars
  BY <1>9, <1>1 DEF vars, daemon, client
<1> QED BY <1>2, <1>3, <1>4, <1>5, <1>6, <1>7, <1>8, <1>9
       DEF Next, I2cDaemon, ClientDaemon, Faults

(* The id: my_main fills it in before anything is sent.                    *)
LEMMA OwnKept ==
  ASSUME TypeOK, Own, [Next]_vars
  PROVE  Own'
<1>1. CASE UNCHANGED <<spc, data, produced>>
  BY <1>1 DEF Own
<1>2. CASE FillDataStruct \/ EndSend \/ HAL_Delay
  <2>1. produced' = produced
    BY <1>2 DEF FillDataStruct, EndSend, HAL_Delay
  <2>2. spc' # "fill" => data'.device_id = DEVICE_ID
    BY <1>2 DEF FillDataStruct, EndSend, HAL_Delay, Own, TypeOK, DeviceOK, GpsFrame
  <2> QED BY <2>1, <2>2 DEF Own
<1>3. CASE I2C2_Send_Data
  <2>1. /\ spc = "send" /\ produced' = Append(produced, data) /\ data' = data
        /\ produced \in Seq(GpsFrame) /\ data \in GpsFrame
    BY <1>3 DEF I2C2_Send_Data, TypeOK, DeviceOK
  <2>2. /\ Len(produced) \in Nat /\ Len(produced') = Len(produced) + 1
        /\ produced'[Len(produced) + 1] = data
        /\ \A i \in 1 .. Len(produced) : produced'[i] = produced[i]
    BY <2>1
  <2> QED BY <2>1, <2>2 DEF Own
<1>4. CASE ReadFrame \/ ReadThroughReset \/ ReadFails \/ Reset
  BY <1>4 DEF ReadFrame, ReadThroughReset, ReadFails, Reset, HAL_I2C_Slave_Transmit,
              I2C_IsErrorOccurred, StartAnew, Own
<1>5. CASE \/ OpenPipe \/ InitDevices \/ PollGpio \/ ReadValue \/ ReadNobody \/ WriteDrops
           \/ WritePipe \/ WriteNoReader \/ InitFails \/ I2cKilled
  BY <1>5, <1>1 DEF OpenPipe, InitDevices, PollGpio, ReadValue, ReadNobody, WriteDrops,
                    WritePipe, WriteNoReader, InitFails, I2cKilled, device
<1>6. CASE ClientDaemon \/ ConnectFails \/ ClientKilled
  BY <1>6, <1>1 DEF ClientDaemon, Connect, ConnectRefused, OpenForReading, GetFrame,
                    SendFrame, SendToClosed, SendToReset, SeeHangup, ConnectFails,
                    ClientKilled, device
<1>7. CASE \/ Server \/ HupTearsFrame \/ ServerWaits \/ ServerStops \/ ServerStarts
           \/ ScriptStartsI2c \/ Starts
  BY <1>7, <1>1 DEF Server, Receive, ReceiveTorn, HupTearsFrame, ServerWaits, ServerStops,
                    ServerStarts, ScriptStartsI2c, Starts, RunScript, StartClient, StartI2c,
                    device
<1>8. CASE UNCHANGED vars
  BY <1>8, <1>1 DEF vars, device
<1> QED BY <1>2, <1>3, <1>4, <1>5, <1>6, <1>7, <1>8
       DEF Next, Device, I2cDaemon, Faults
-----------------------------------------------------------------------------
(* A step that passes no frame on: frames stay where they are, or a buffer *)
(* is emptied; and the others, which move a frame or take it away.         *)
PassesNothing ==
  /\ UNCHANGED <<tx, produced, cut, iframe, cframe, received>>
  /\ fifo' \in {fifo, <<>>} /\ net' \in {net, <<>>}
  /\ spc' = "transmit" => spc = "transmit"
  /\ ipc' = "write" => ipc = "write"
  /\ cpc' = "send" => cpc = "send"

Passes == \/ I2C2_Send_Data \/ ReadFrame \/ ReadThroughReset \/ WritePipe
          \/ GetFrame \/ SendFrame \/ Server \/ HupTearsFrame

LEMMA PassesOrNot == [Next]_vars => Passes \/ PassesNothing
<1> SUFFICES ASSUME [Next]_vars PROVE Passes \/ PassesNothing
  OBVIOUS
<1> USE DEF PassesNothing
<1>1. CASE FillDataStruct \/ EndSend \/ HAL_Delay \/ Reset
  BY <1>1 DEF FillDataStruct, EndSend, HAL_Delay, Reset, StartAnew, daemon, client, tcp
<1>2. CASE OpenPipe \/ InitDevices \/ PollGpio \/ ReadValue \/ ReadNobody \/ WriteDrops
  BY <1>2 DEF OpenPipe, InitDevices, PollGpio, ReadValue, ReadNobody, WriteDrops,
              device, client, tcp
<1>3. CASE WriteNoReader \/ InitFails \/ ReadFails \/ I2cKilled
  BY <1>3 DEF WriteNoReader, InitFails, ReadFails, I2C_IsErrorOccurred, I2cKilled,
              I2cExits, Leftover, device, client, tcp
<1>4. CASE Connect \/ OpenForReading \/ SendToClosed
  BY <1>4 DEF Connect, OpenForReading, SendToClosed, device, daemon, tcp
<1>5. CASE ConnectRefused \/ SendToReset \/ SeeHangup \/ ConnectFails \/ ClientKilled
  BY <1>5 DEF ConnectRefused, SendToReset, SeeHangup, ConnectFails, ClientKilled,
              ClientExits, Leftover, device, daemon, tcp
<1>6. CASE ServerWaits \/ ServerStops \/ ServerStarts \/ ScriptStartsI2c \/ Starts
  BY <1>6 DEF ServerWaits, ServerStops, ServerStarts, ScriptStartsI2c, Starts, RunScript,
              StartClient, StartI2c, device, daemon, client, tcp
<1>7. CASE UNCHANGED vars
  BY <1>7 DEF vars, device, daemon, client, tcp
<1> QED BY <1>1, <1>2, <1>3, <1>4, <1>5, <1>6, <1>7
       DEF Passes, Next, Device, I2cDaemon, ClientDaemon, Faults

(* What Append, Head and Tail do to the numbers of a queue.                *)
LEMMA QueueNumbers ==
  ASSUME NEW T, NEW s \in Seq(T)
  PROVE  /\ Len(s) \in Nat
         /\ \A i \in 1 .. Len(s) : s[i] \in T
         /\ \A m \in T : /\ Append(s, m) \in Seq(T) /\ Len(Append(s, m)) = Len(s) + 1
                         /\ Append(s, m)[Len(s) + 1] = m
                         /\ \A i \in 1 .. Len(s) : Append(s, m)[i] = s[i]
         /\ s # <<>> => /\ Len(s) > 0 /\ Head(s) = s[1] /\ Head(s) \in T
                        /\ Tail(s) \in Seq(T) /\ Len(Tail(s)) = Len(s) - 1
                        /\ \A i \in 1 .. Len(s) - 1 : Tail(s)[i] = s[i + 1]
OBVIOUS

(* Every queue of the chain is one, before and after a step.               *)
LEMMA Queues ==
  ASSUME TypeOK
  PROVE  /\ fifo \in Seq(Message) /\ net \in Seq(Segment) /\ received \in Seq(Got)
         /\ produced \in Seq(GpsFrame)
         /\ tx \in Message /\ iframe \in Message /\ cframe \in Message
         /\ \A m \in Message \cup Segment \cup Got : m.num \in Nat
BY DEF TypeOK, DeviceOK, DaemonOK, FifoOK, ClientOK, TcpOK, Message, Segment, Got

(* What SendFrame puts into the socket buffer.                             *)
LEMMA SentSegment ==
  ASSUME TypeOK
  PROVE  [num |-> cframe.num, bytes |-> cframe.bytes, conn |-> conn] \in Segment
BY DEF TypeOK, ClientOK, CountsOK, Message, Segment

LEMMA IncreasingAppend ==
  ASSUME NEW T, NEW s \in Seq(T), NEW m \in T, Increasing(s),
         \A i \in 1 .. Len(s) : s[i].num < m.num
  PROVE  Increasing(Append(s, m))
<1> DEFINE t == Append(s, m)
<1>1. /\ Len(s) \in Nat /\ Len(t) = Len(s) + 1 /\ t[Len(s) + 1] = m
      /\ \A i \in 1 .. Len(s) : t[i] = s[i]
  BY QueueNumbers
<1> HIDE DEF t
<1>2. ASSUME NEW i \in 1 .. Len(t), NEW j \in 1 .. Len(t), i < j
      PROVE  t[i].num < t[j].num
  <2>1. i \in 1 .. Len(s)
    BY <1>1, <1>2
  <2>2. CASE j = Len(s) + 1
    BY <1>1, <2>1, <2>2
  <2>3. CASE j \in 1 .. Len(s)
    BY <1>1, <1>2, <2>1, <2>3 DEF Increasing
  <2> QED BY <1>1, <2>2, <2>3
<1>3. Increasing(t)
  BY <1>2 DEF Increasing
<1> QED BY <1>3 DEF t

(* What is left of a queue when its first frame is taken is behind it.     *)
LEMMA IncreasingTail ==
  ASSUME NEW T, NEW s \in Seq(T), Increasing(s), s # <<>>
  PROVE  /\ Increasing(Tail(s))
         /\ \A i \in 1 .. Len(Tail(s)) :
              s[1].num < Tail(s)[i].num /\ (\E k \in 1 .. Len(s) : Tail(s)[i] = s[k])
<1> DEFINE t == Tail(s)
<1>1. /\ Len(s) \in Nat /\ Len(s) > 0 /\ Len(t) = Len(s) - 1
      /\ \A i \in 1 .. Len(s) - 1 : t[i] = s[i + 1]
  BY QueueNumbers
<1> HIDE DEF t
<1>2. ASSUME NEW i \in 1 .. Len(t)
      PROVE  i + 1 \in 1 .. Len(s) /\ t[i] = s[i + 1] /\ s[1].num < t[i].num
  <2>1. i + 1 \in 1 .. Len(s) /\ 1 \in 1 .. Len(s) /\ 1 < i + 1 /\ t[i] = s[i + 1]
    BY <1>1
  <2> QED BY <2>1 DEF Increasing
<1>3. ASSUME NEW i \in 1 .. Len(t), NEW j \in 1 .. Len(t), i < j
      PROVE  t[i].num < t[j].num
  <2>1. i + 1 < j + 1
    BY <1>1, <1>3
  <2> QED BY <1>2, <2>1 DEF Increasing
<1>4. Increasing(t)
  BY <1>3 DEF Increasing
<1> QED BY <1>2, <1>4 DEF t

LEMMA OrderKept ==
  ASSUME TypeOK, Order, [Next]_vars
  PROVE  Order'
<1> USE DEF Order
<1>0. /\ fifo \in Seq(Message) /\ net \in Seq(Segment) /\ received \in Seq(Got)
      /\ produced \in Seq(GpsFrame)
      /\ tx.num \in Nat /\ iframe.num \in Nat /\ cframe.num \in Nat
  BY Queues
<1>1. /\ \A i \in 1 .. Len(fifo) : fifo[i].num \in Nat
      /\ \A i \in 1 .. Len(net) : net[i].num \in Nat
      /\ \A i \in 1 .. Len(received) : received[i].num \in Nat
  BY <1>0, QueueNumbers, Queues
<1>2. CASE PassesNothing
  <2>1. Len(<<>>) = 0
    OBVIOUS
  <2>2. Increasing(fifo)' /\ Increasing(net)'
    BY <1>2, <2>1 DEF PassesNothing, Increasing
  <2> QED BY <1>2, <2>1, <2>2 DEF PassesNothing
<1>3. CASE I2C2_Send_Data
  <2>1. Len(produced') = Len(produced) + 1 /\ tx'.num = Len(produced) + 1
    BY <1>3, <1>0, QueueNumbers DEF I2C2_Send_Data
  <2>2. UNCHANGED <<ipc, cpc, iframe, cframe, fifo, net, received>>
    BY <1>3 DEF I2C2_Send_Data, client, tcp
  <2> QED BY <1>0, <2>1, <2>2 DEF Increasing
<1>4. CASE ReadFrame \/ ReadThroughReset
  <2>1. /\ iframe'.num = tx.num /\ spc' # "transmit" /\ spc = "transmit"
        /\ ipc' = "write"
    BY <1>4 DEF ReadFrame, ReadThroughReset, StartAnew, HAL_I2C_Slave_Transmit
  <2>2. UNCHANGED <<tx, produced, cpc, cframe, fifo, net, received>>
    BY <1>4 DEF ReadFrame, ReadThroughReset, client, tcp
  <2>3. \A i \in 1 .. Len(fifo) : fifo[i].num < tx.num
    BY <1>0, <1>1, <2>1
  <2>4. cframe.num < tx.num
    BY <1>0, <2>1
  <2>5. /\ iframe'.num <= tx'.num /\ cframe'.num <= iframe'.num
        /\ cframe'.num < iframe'.num
    BY <1>0, <2>1, <2>2, <2>4
  <2>6. \A i \in 1 .. Len(fifo) : fifo[i].num <= iframe'.num /\ fifo[i].num < iframe'.num
    BY <1>0, <1>1, <2>1, <2>3
  <2>7. Increasing(fifo)' /\ Increasing(net)'
    BY <2>2 DEF Increasing
  <2> QED BY <2>1, <2>2, <2>5, <2>6, <2>7
<1>5. CASE WritePipe
  <2>1. /\ UNCHANGED <<tx, produced, spc, iframe, cpc, cframe, net, received>>
        /\ ipc = "write" /\ ipc' = "poll" /\ fifo' = Append(fifo, iframe)
    BY <1>5 DEF WritePipe, device, client, tcp
  <2>2. /\ Len(fifo') = Len(fifo) + 1 /\ fifo'[Len(fifo) + 1] = iframe
        /\ \A i \in 1 .. Len(fifo) : fifo'[i] = fifo[i]
    BY <1>0, <2>1, Queues, QueueNumbers
  <2>3. Increasing(fifo)'
    BY <1>0, <2>1, Queues, IncreasingAppend DEF Increasing
  <2>4. \A i \in 1 .. Len(fifo') : cframe.num < fifo'[i].num /\ fifo'[i].num <= iframe.num
    BY <1>0, <2>1, <2>2, QueueNumbers
  <2> QED BY <2>1, <2>3, <2>4 DEF Increasing
<1>6. CASE GetFrame
  <2>1. /\ UNCHANGED <<tx, produced, spc, iframe, ipc, net, received>>
        /\ cpc' = "send" /\ fifo # <<>> /\ cframe' = Head(fifo) /\ fifo' = Tail(fifo)
    BY <1>6 DEF GetFrame, device, daemon, tcp
  <2>2. /\ Len(fifo) > 0 /\ Len(fifo') = Len(fifo) - 1 /\ cframe' = fifo[1]
        /\ \A i \in 1 .. Len(fifo') : fifo'[i] = fifo[i + 1]
    BY <1>0, <2>1, QueueNumbers
  <2>3. Increasing(Tail(fifo))
        /\ \A i \in 1 .. Len(Tail(fifo)) :
             /\ fifo[1].num < Tail(fifo)[i].num
             /\ \E k \in 1 .. Len(fifo) : Tail(fifo)[i] = fifo[k]
    BY <1>0, <2>1, IncreasingTail
  <2>4. \A i \in 1 .. Len(fifo') : /\ fifo[1].num < fifo'[i].num
                                   /\ fifo'[i].num <= iframe.num
                                   /\ ipc = "write" => fifo'[i].num < iframe.num
    BY <2>1, <2>3
  <2>5. /\ cframe.num < cframe'.num /\ cframe'.num <= iframe.num /\ cframe'.num \in Nat
        /\ ipc = "write" => cframe'.num < iframe.num
    BY <1>0, <1>1, <2>2
  <2>6. \A i \in 1 .. Len(net) : 0 < net[i].num /\ net[i].num < cframe'.num
    BY <1>0, <1>1, <2>5
  <2>7. \A i \in 1 .. Len(received) : received[i].num < cframe'.num
    BY <1>0, <1>1, <2>5
  <2>8. Increasing(fifo)' /\ Increasing(net)'
    BY <2>1, <2>3 DEF Increasing
  <2>9. 0 < cframe'.num /\ \A i \in 1 .. Len(fifo') : cframe'.num < fifo'[i].num
    <3>1. 0 < cframe'.num
      BY <1>0, <2>5
    <3>2. cframe'.num = fifo[1].num
      BY <2>2
    <3> QED BY <3>1, <3>2, <2>4
  <2>10. /\ \A i \in 1 .. Len(net) : net[i].num <= cframe'.num
         /\ \A i \in 1 .. Len(received) : received[i].num <= cframe'.num
    BY <1>0, <1>1, <2>5, <2>6, <2>7
  <2> QED BY <2>1, <2>4, <2>5, <2>6, <2>7, <2>8, <2>9, <2>10
<1>7. CASE SendFrame
  <2> DEFINE seg == [num |-> cframe.num, bytes |-> cframe.bytes, conn |-> conn]
  <2>1. /\ UNCHANGED <<tx, produced, spc, iframe, ipc, cframe, fifo, received>>
        /\ cpc = "send" /\ cpc' = "poll" /\ net' = Append(net, seg)
    BY <1>7 DEF SendFrame, device, daemon
  <2>0. seg \in Segment /\ seg.num = cframe.num
    BY SentSegment
  <2> HIDE DEF seg
  <2>2. /\ Len(net') = Len(net) + 1 /\ net'[Len(net) + 1] = seg
        /\ \A i \in 1 .. Len(net) : net'[i] = net[i]
    BY <1>0, <2>0, <2>1, QueueNumbers
  <2>3. Increasing(net)'
    <3>1. Increasing(Append(net, seg))
      BY <1>0, <2>0, <2>1, IncreasingAppend
    <3> QED BY <2>1, <3>1 DEF Increasing
  <2>4. \A j \in 1 .. Len(net') : /\ 0 < net'[j].num /\ net'[j].num <= cframe.num
                                  /\ \A i \in 1 .. Len(received) : received[i].num < net'[j].num
    BY <1>0, <2>0, <2>1, <2>2, QueueNumbers
  <2> QED BY <2>1, <2>3, <2>4 DEF Increasing
<1>8. CASE Receive
  <2>1. /\ UNCHANGED <<tx, produced, spc, iframe, ipc, cframe, cpc, fifo>>
        /\ net # <<>> /\ net' = Tail(net)
        /\ received' = Append(received, [num |-> Head(net).num,
                                         frame |-> AtServer(Head(net).bytes)])
    BY <1>8 DEF Receive, device, daemon, client
  <2>2. /\ Len(net) > 0 /\ Len(net') = Len(net) - 1 /\ Head(net) = net[1]
        /\ \A i \in 1 .. Len(net') : net'[i] = net[i + 1]
    BY <1>0, <2>1, QueueNumbers
  <2>3. received \in Seq(Got \cup {received'[Len(received) + 1]})
    BY <1>0
  <2>4. /\ Len(received') = Len(received) + 1
        /\ received'[Len(received) + 1].num = net[1].num
        /\ \A i \in 1 .. Len(received) : received'[i] = received[i]
    BY <1>0, <2>1, <2>2
  <2>5. Increasing(Tail(net))
        /\ \A i \in 1 .. Len(Tail(net)) :
             /\ net[1].num < Tail(net)[i].num
             /\ \E k \in 1 .. Len(net) : Tail(net)[i] = net[k]
    BY <1>0, <2>1, IncreasingTail
  <2>6. \A i \in 1 .. Len(net') : /\ 0 < net'[i].num /\ net'[i].num <= cframe.num
                                  /\ cpc = "send" => net'[i].num < cframe.num
    BY <2>1, <2>5
  <2>7. \A i \in 1 .. Len(received') :
          /\ received'[i].num <= cframe.num
          /\ cpc = "send" => received'[i].num < cframe.num
          /\ \A j \in 1 .. Len(net') : received'[i].num < net'[j].num
    <3> TAKE i \in 1 .. Len(received')
    <3>1. CASE i = Len(received) + 1
      BY <1>0, <3>1, <2>1, <2>2, <2>4, <2>5, QueueNumbers
    <3>2. CASE i \in 1 .. Len(received)
      BY <3>2, <2>1, <2>4, <2>5
    <3> QED BY <3>1, <3>2, <2>4, <1>0, QueueNumbers
  <2>8. Increasing(fifo)' /\ Increasing(net)'
    BY <2>1, <2>5 DEF Increasing
  <2> QED BY <2>1, <2>6, <2>7, <2>8
<1>9. CASE ReceiveTorn \/ HupTearsFrame
  <2>1. /\ UNCHANGED <<tx, produced, spc, iframe, ipc, cframe, cpc, fifo, received>>
        /\ net # <<>> /\ net' = Tail(net)
    BY <1>9 DEF ReceiveTorn, HupTearsFrame, Misread, device, daemon, client
  <2>2. /\ Increasing(Tail(net))
        /\ \A i \in 1 .. Len(Tail(net)) :
             \E k \in 1 .. Len(net) : Tail(net)[i] = net[k]
    BY <1>0, <2>1, IncreasingTail
  <2>3. \A i \in 1 .. Len(net') : /\ 0 < net'[i].num /\ net'[i].num <= cframe.num
                                  /\ cpc = "send" => net'[i].num < cframe.num
    BY <2>1, <2>2
  <2>4. \A i \in 1 .. Len(received) :
          \A j \in 1 .. Len(net') : received[i].num < net'[j].num
    BY <2>1, <2>2
  <2>5. Increasing(fifo)' /\ Increasing(net)'
    BY <2>1, <2>2 DEF Increasing
  <2> QED BY <2>1, <2>3, <2>4, <2>5
<1> QED BY <1>2, <1>3, <1>4, <1>5, <1>6, <1>7, <1>8, <1>9, PassesOrNot DEF Passes, Server
-----------------------------------------------------------------------------
(* What is written stays written: frames are only added to produced, and   *)
(* only those not yet read to cut.                                         *)
LEMMA OriginStays ==
  ASSUME NEW p \in Seq(GpsFrame), NEW q \in Seq(GpsFrame), NEW c, NEW d, NEW top \in Nat,
         q = p \/ \E f \in GpsFrame : q = Append(p, f),
         \A n \in Nat : n <= top => (n \in d <=> n \in c)
  PROVE  \A n, g : n <= top /\ Origin(p, c, n, g) => Origin(q, d, n, g)
<1>1. \A n \in 1 .. Len(p) : n \in 1 .. Len(q) /\ q[n] = p[n]
  BY QueueNumbers
<1>2. Len(p) \in Nat
  OBVIOUS
<1> QED BY <1>1, <1>2 DEF Origin

LEMMA WrittenStays ==
  ASSUME NEW p \in Seq(GpsFrame), NEW q \in Seq(GpsFrame), NEW c, NEW d, NEW top \in Nat,
         q = p \/ \E f \in GpsFrame : q = Append(p, f),
         \A n \in Nat : n <= top => (n \in d <=> n \in c)
  PROVE  /\ \A m : m.num <= top /\ Written(p, c, m) => Written(q, d, m)
         /\ \A r : r.num <= top /\ Decoded(p, c, r) => Decoded(q, d, r)
<1>1. \A n, g : n <= top /\ Origin(p, c, n, g) => Origin(q, d, n, g)
  BY OriginStays
<1> QED BY <1>1 DEF Written, Decoded

(* Everything that is on its way, or was, has been read.                   *)
LEMMA Older ==
  ASSUME TypeOK, Order
  PROVE  /\ iframe.num \in Nat /\ cframe.num <= iframe.num
         /\ \A i \in 1 .. Len(fifo) : fifo[i].num <= iframe.num
         /\ \A i \in 1 .. Len(net) : net[i].num <= iframe.num
         /\ \A i \in 1 .. Len(received) : received[i].num <= iframe.num
<1>1. /\ fifo \in Seq(Message) /\ net \in Seq(Segment) /\ received \in Seq(Got)
      /\ iframe.num \in Nat /\ cframe.num \in Nat
  BY Queues
<1>2. /\ \A i \in 1 .. Len(net) : net[i].num \in Nat
      /\ \A i \in 1 .. Len(received) : received[i].num \in Nat
  BY <1>1, QueueNumbers, Queues
<1> QED BY <1>1, <1>2 DEF Order

LEMMA ContentKept ==
  ASSUME TypeOK, Order, Content, [Next]_vars
  PROVE  Content'
<1> USE DEF Content
<1>0. /\ fifo \in Seq(Message) /\ net \in Seq(Segment) /\ received \in Seq(Got)
      /\ produced \in Seq(GpsFrame) /\ data \in GpsFrame /\ cut \subseteq Nat
      /\ tx.num \in Nat /\ iframe.num \in Nat /\ cframe.num \in Nat
  BY Queues DEF TypeOK, DeviceOK
<1>1. CASE PassesNothing
  <2>1. Len(<<>>) = 0
    OBVIOUS
  <2> QED BY <1>1, <2>1 DEF PassesNothing
<1>2. CASE I2C2_Send_Data
  <2>1. /\ produced' = Append(produced, data)
        /\ tx' = [num |-> Len(produced) + 1, bytes |-> SwapEndian(InMemory(data))]
        /\ UNCHANGED <<cut, iframe, cframe, fifo, net, received>>
    BY <1>2 DEF I2C2_Send_Data, client, tcp
  <2>2. tx'.bytes = SwapEndian(InMemory(produced'[tx'.num]))
    BY <1>0, <2>1, QueueNumbers
  <2>3. /\ \A m : m.num <= iframe.num /\ Written(produced, cut, m)
                    => Written(produced', cut, m)
        /\ \A r : r.num <= iframe.num /\ Decoded(produced, cut, r)
                    => Decoded(produced', cut, r)
    BY <1>0, <2>1, QueueNumbers, WrittenStays
  <2>4. /\ iframe'.num > 0 => Written(produced', cut', iframe')
        /\ cframe'.num > 0 => Written(produced', cut', cframe')
        /\ \A i \in 1 .. Len(fifo') : Written(produced', cut', fifo'[i])
    BY <1>0, <2>1, <2>3, Older
  <2>5. /\ \A i \in 1 .. Len(net') : Written(produced', cut', net'[i])
        /\ \A i \in 1 .. Len(received') : Decoded(produced', cut', received'[i])
    BY <1>0, <2>1, <2>3, Older
  <2> QED BY <2>1, <2>2, <2>4, <2>5
<1>3. CASE ReadFrame \/ ReadThroughReset
  <2>1. /\ spc = "transmit" /\ iframe'.num = tx.num /\ ipc = "i2c"
        /\ UNCHANGED <<tx, produced, cframe, fifo, net, received>>
        /\ cut' = cut \/ cut' = cut \cup {tx.num}
    BY <1>3 DEF ReadFrame, ReadThroughReset, HAL_I2C_Slave_Transmit, client, tcp
  <2>2. tx.num \in 1 .. Len(produced) /\ iframe.num < tx.num
    BY <1>0, <2>1, QueueNumbers DEF Order
  <2>3. produced[tx.num] \in GpsFrame /\ tx.bytes = SwapEndian(InMemory(produced[tx.num]))
    BY <1>0, <2>2, QueueNumbers
  <2>4. \A n \in Nat : n <= iframe.num => (n \in cut' <=> n \in cut)
    BY <1>0, <2>1, <2>2
  <2>5. /\ \A m : m.num <= iframe.num /\ Written(produced, cut, m)
                    => Written(produced, cut', m)
        /\ \A r : r.num <= iframe.num /\ Decoded(produced, cut, r)
                    => Decoded(produced, cut', r)
    BY <1>0, <2>4, WrittenStays
  <2>6. \A n \in cut' : n <= iframe'.num
    <3> TAKE n \in cut'
    <3>1. n = tx.num \/ (n \in cut /\ n <= iframe.num)
      BY <2>1
    <3>2. n \in Nat /\ tx.num \in Nat /\ iframe.num \in Nat /\ iframe.num < tx.num
      BY <1>0, <2>2, <3>1
    <3>3. n <= tx.num
      BY <3>1, <3>2
    <3> QED BY <2>1, <3>3
  <2>7. Written(produced, cut', iframe')
    <3>1. CASE ReadFrame
      <4>1. /\ iframe' = [num |-> tx.num, bytes |-> ToPipe(i2c_read_frame(tx.bytes))]
            /\ cut' = cut
        BY <3>1 DEF ReadFrame
      <4>2. i2c_read_frame(tx.bytes) = produced[tx.num]
        BY <2>3, ReadFrameInverts
      <4>3. tx.num \notin cut
        BY <1>0, <2>2
      <4>4. Origin(produced, cut', iframe'.num, produced[tx.num])
        BY <2>2, <2>3, <4>1, <4>3 DEF Origin
      <4> QED BY <2>3, <4>1, <4>2, <4>4 DEF Written
    <3>2. CASE ReadThroughReset
      <4>1. PICK k \in Cuts :
              iframe' = [num |-> tx.num,
                         bytes |-> ToPipe(i2c_read_frame(CutOff(tx.bytes, k)))]
        BY <3>2 DEF ReadThroughReset
      <4>2. tx.bytes \in Bytes /\ k \in 0 .. 11
        BY Queues, ChainBoundsAssumption DEF Message
      <4> DEFINE g == i2c_read_frame(CutOff(tx.bytes, k))
      <4>3. g \in GpsFrame /\ Low(g.device_id) = 255
        BY <4>2, CutFrame
      <4>4. iframe'.num = tx.num /\ iframe'.bytes = ToPipe(g)
        BY <4>1
      <4> HIDE DEF g
      <4>5. tx.num \in cut'
        BY <3>2 DEF ReadThroughReset
      <4>6. Origin(produced, cut', iframe'.num, g)
        BY <2>2, <4>3, <4>4, <4>5 DEF Origin
      <4> QED BY <4>3, <4>4, <4>6 DEF Written
    <3> QED BY <1>3, <3>1, <3>2
  <2>8. /\ cframe'.num > 0 => Written(produced', cut', cframe')
        /\ \A i \in 1 .. Len(fifo') : Written(produced', cut', fifo'[i])
        /\ \A i \in 1 .. Len(net') : Written(produced', cut', net'[i])
        /\ \A i \in 1 .. Len(received') : Decoded(produced', cut', received'[i])
    BY <2>1, <2>5, Older
  <2> QED BY <2>1, <2>6, <2>7, <2>8
<1>4. CASE WritePipe
  <2>1. /\ ipc = "write" /\ fifo' = Append(fifo, iframe)
        /\ UNCHANGED <<tx, produced, cut, iframe, cframe, net, received>>
    BY <1>4 DEF WritePipe, device, client, tcp
  <2>2. Written(produced, cut, iframe)
    BY <1>0, <2>1 DEF Order
  <2>3. \A i \in 1 .. Len(fifo') : Written(produced, cut, fifo'[i])
    BY <1>0, <2>1, <2>2, Queues, QueueNumbers
  <2> QED BY <2>1, <2>3
<1>5. CASE GetFrame
  <2>1. /\ fifo # <<>> /\ cframe' = Head(fifo) /\ fifo' = Tail(fifo)
        /\ UNCHANGED <<tx, produced, cut, iframe, net, received>>
    BY <1>5 DEF GetFrame, device, daemon, tcp
  <2>2. 1 \in 1 .. Len(fifo) /\ cframe' = fifo[1]
    BY <1>0, <2>1, QueueNumbers
  <2>4. Written(produced, cut, cframe')
    BY <2>2
  <2>3. \A i \in 1 .. Len(fifo') : Written(produced, cut, fifo'[i])
    BY <1>0, <2>1, QueueNumbers
  <2> QED BY <2>1, <2>3, <2>4
<1>6. CASE SendFrame
  <2> DEFINE seg == [num |-> cframe.num, bytes |-> cframe.bytes, conn |-> conn]
  <2>1. /\ cpc = "send" /\ net' = Append(net, seg)
        /\ UNCHANGED <<tx, produced, cut, iframe, cframe, fifo, received>>
    BY <1>6 DEF SendFrame, device, daemon
  <2>2. Written(produced, cut, cframe)
    BY <1>0, <2>1 DEF Order
  <2>3. Written(produced, cut, seg) /\ seg \in Segment
    BY <2>2, SentSegment DEF Written
  <2> HIDE DEF seg
  <2>4. \A i \in 1 .. Len(net') : Written(produced, cut, net'[i])
    BY <1>0, <2>1, <2>3, QueueNumbers
  <2> QED BY <2>1, <2>4
<1>7. CASE Receive
  <2> DEFINE r == [num |-> Head(net).num, frame |-> AtServer(Head(net).bytes)]
  <2>1. /\ net # <<>> /\ net' = Tail(net) /\ received' = Append(received, r)
        /\ UNCHANGED <<tx, produced, cut, iframe, cframe, fifo>>
    BY <1>7 DEF Receive, device, daemon, client
  <2>2. Written(produced, cut, Head(net)) /\ Head(net) \in Segment
    BY <1>0, <2>1, QueueNumbers
  <2>3. \A i \in 1 .. Len(net') : Written(produced, cut, net'[i])
    BY <1>0, <2>1, QueueNumbers
  <2>4. Decoded(produced, cut, r)
    <3>1. PICK g \in GpsFrame :
            Origin(produced, cut, Head(net).num, g) /\ Head(net).bytes = ToPipe(g)
      BY <2>2 DEF Written
    <3> QED BY <3>1 DEF Decoded
  <2>5. r \in Got
    BY <2>2, FrameTypes DEF Segment, Got
  <2> HIDE DEF r
  <2>6. \A i \in 1 .. Len(received') : Decoded(produced, cut, received'[i])
    BY <1>0, <2>1, <2>4, <2>5, QueueNumbers
  <2> QED BY <2>1, <2>3, <2>6
<1>8. CASE ReceiveTorn \/ HupTearsFrame
  <2>1. /\ net # <<>> /\ net' = Tail(net)
        /\ UNCHANGED <<tx, produced, cut, iframe, cframe, fifo, received>>
    BY <1>8 DEF ReceiveTorn, HupTearsFrame, Misread, device, daemon, client
  <2>2. \A i \in 1 .. Len(net') : Written(produced, cut, net'[i])
    BY <1>0, <2>1, QueueNumbers
  <2> QED BY <2>1, <2>2
<1> QED BY <1>1, <1>2, <1>3, <1>4, <1>5, <1>6, <1>7, <1>8, PassesOrNot DEF Passes, Server

LEMMA IndInvKept == IndInv /\ [Next]_vars => IndInv'
BY TypesKept, SignalsKept, OrderKept, OwnKept, ContentKept, HeldKept DEF IndInv

LEMMA Invariance == Spec => []IndInv
BY IndInvInit, IndInvKept, PTL DEF Spec
-----------------------------------------------------------------------------
(* Types, for every run of the chain; no buffer ever holds more than fits. *)
THEOREM ChainTypes == Spec => []TypeOK
<1>1. IndInv => TypeOK
  BY DEF IndInv
<1> QED BY <1>1, Invariance, PTL

(* Two reads of one frame, or of none, are impossible while nothing fails. *)
THEOREM ReadsInTime == Spec => []ReadOnlyWhenReady
<1>1. IndInv => ReadOnlyWhenReady
  BY DEF IndInv, Signals, Order, ReadOnlyWhenReady
<1> QED BY <1>1, Invariance, PTL

(* In the daemon's loop no edge is lost.                                   *)
THEOREM NoLostEdge == Spec => []StandstillExplained
<1>1. IndInv => StandstillExplained
  BY DEF IndInv, Signals, Standstill, StandstillExplained
<1> QED BY <1>1, Invariance, PTL

(* The server decodes the id and the status that were sent, and of a frame *)
(* that a reset cut off an id that is not the device's.                    *)
THEOREM Decoding == Spec => []DecodedRight
<1>1. IndInv => DecodedRight
  <2> SUFFICES ASSUME IndInv, NEW i \in DOMAIN received
               PROVE  LET f == produced[received[i].num]
                          r == received[i].frame
                      IN  IF received[i].num \in cut
                          THEN r.device_id # f.device_id
                          ELSE r.device_id = f.device_id /\ r.status = f.status
    BY DEF DecodedRight
  <2>1. TypeOK /\ Content /\ Own
    BY DEF IndInv
  <2>2. received \in Seq(Got) /\ produced \in Seq(GpsFrame)
    BY <2>1, Queues
  <2>3. Decoded(produced, cut, received[i])
    BY <2>1, <2>2 DEF Content
  <2>4. PICK g \in GpsFrame : /\ Origin(produced, cut, received[i].num, g)
                              /\ received[i].frame = AtServer(ToPipe(g))
    BY <2>3 DEF Decoded
  <2>5. /\ received[i].frame.device_id = g.device_id
        /\ received[i].frame.status = g.status
    BY <2>4, ServerDecodes
  <2>6. CASE received[i].num \in cut
    <3>1. Low(g.device_id) = 255
      BY <2>4, <2>6 DEF Origin
    <3>2. produced[received[i].num].device_id = DEVICE_ID
      BY <2>1, <2>4 DEF Own, Origin
    <3>3. Low(DEVICE_ID) = 74
      BY DEF Low, DEVICE_ID
    <3> QED BY <2>5, <2>6, <3>1, <3>2, <3>3
  <2>7. CASE received[i].num \notin cut
    BY <2>4, <2>5, <2>7 DEF Origin
  <2> QED BY <2>6, <2>7
<1> QED BY <1>1, Invariance, PTL
-----------------------------------------------------------------------------
(* The numbers in a queue that grows, or is taken from.                    *)
LEMMA QueueSets ==
  ASSUME NEW T, NEW s \in Seq(T)
  PROVE  /\ \A m \in T : ToSet(Nums(s)) \cup {m.num} \subseteq ToSet(Nums(Append(s, m)))
         /\ s # <<>> => ToSet(Nums(s)) \subseteq {Head(s).num} \cup ToSet(Nums(Tail(s)))
<1>1. \A n \in ToSet(Nums(s)) : \E i \in 1 .. Len(s) : n = s[i].num
  BY DEF ToSet, Nums
<1>2. ASSUME NEW t \in Seq(T), NEW i \in 1 .. Len(t)
      PROVE  t[i].num \in ToSet(Nums(t))
  BY DEF ToSet, Nums
<1>3. ASSUME NEW m \in T
      PROVE  ToSet(Nums(s)) \cup {m.num} \subseteq ToSet(Nums(Append(s, m)))
  <2> DEFINE t == Append(s, m)
  <2>1. /\ t \in Seq(T) /\ Len(s) + 1 \in 1 .. Len(t) /\ t[Len(s) + 1] = m
        /\ \A i \in 1 .. Len(s) : i \in 1 .. Len(t) /\ t[i] = s[i]
    BY <1>3, QueueNumbers
  <2> HIDE DEF t
  <2>2. m.num \in ToSet(Nums(t))
    BY <2>1, <1>2
  <2>3. \A i \in 1 .. Len(s) : s[i].num \in ToSet(Nums(t))
    BY <2>1, <1>2
  <2>4. ToSet(Nums(s)) \cup {m.num} \subseteq ToSet(Nums(t))
    BY <1>1, <2>2, <2>3
  <2> QED BY <2>4 DEF t
<1>4. ASSUME s # <<>>
      PROVE  ToSet(Nums(s)) \subseteq {Head(s).num} \cup ToSet(Nums(Tail(s)))
  <2> DEFINE t == Tail(s)
  <2>1. /\ t \in Seq(T) /\ Head(s) = s[1] /\ Len(t) = Len(s) - 1 /\ Len(s) \in Nat
        /\ \A i \in 1 .. Len(s) - 1 : t[i] = s[i + 1]
    BY <1>4, QueueNumbers
  <2> HIDE DEF t
  <2>2. ASSUME NEW i \in 1 .. Len(s), i # 1
        PROVE  s[i].num \in ToSet(Nums(t))
    <3>1. i - 1 \in 1 .. Len(t) /\ t[i - 1] = s[i]
      BY <2>1, <2>2
    <3> QED BY <2>1, <3>1, <1>2
  <2>3. ToSet(Nums(s)) \subseteq {Head(s).num} \cup ToSet(Nums(t))
    BY <1>1, <2>1, <2>2
  <2> QED BY <2>3 DEF t
<1> QED BY <1>3, <1>4

(* A step loses nothing, or for one of the reasons that LossStep lists.    *)
LEMMA LossStepHolds ==
  ASSUME TypeOK, Held, [Next]_vars
  PROVE  LossStep
<1> USE DEF InChain
<1>0. /\ fifo \in Seq(Message) /\ net \in Seq(Segment) /\ received \in Seq(Got)
      /\ iframe \in Message /\ cframe \in Message
  BY Queues
<1>1. CASE FillDataStruct \/ I2C2_Send_Data \/ EndSend \/ HAL_Delay
  <2>1. UNCHANGED <<ipc, iframe, cpc, cframe, fifo, net, received>>
    BY <1>1 DEF FillDataStruct, I2C2_Send_Data, EndSend, HAL_Delay, daemon, client, tcp
  <2>2. spc # "transmit"
    BY <1>1 DEF FillDataStruct, I2C2_Send_Data, EndSend, HAL_Delay
  <2> QED BY <2>1, <2>2 DEF LossStep
<1>2. CASE OpenPipe \/ InitDevices \/ PollGpio \/ ReadValue \/ ReadNobody
  <2>1. /\ UNCHANGED <<spc, tx, iframe, cframe, fifo, net, received>>
        /\ ipc # "write" /\ (cpc' = "send" <=> cpc = "send")
    BY <1>2 DEF OpenPipe, InitDevices, PollGpio, ReadValue, ReadNobody, device, client, tcp
  <2> QED BY <2>1 DEF LossStep
<1>3. CASE ReadFrame
  <2>1. /\ ipc = "i2c" /\ ipc' = "write" /\ iframe'.num = tx.num
        /\ UNCHANGED <<cpc, cframe, fifo, net, received>>
    BY <1>3 DEF ReadFrame, client, tcp
  <2> QED BY <2>1 DEF LossStep
<1>4. CASE WriteDrops \/ WriteNoReader
  <2>1. Len(fifo) \in Nat /\ Len(fifo) <= FifoCap /\ FifoCap \in Nat
    BY ChainBoundsAssumption DEF TypeOK, FifoOK
  <2> QED BY <1>4, <2>1 DEF WriteDrops, WriteNoReader, LossStep
<1>5. CASE WritePipe
  <2>1. /\ fifo' = Append(fifo, iframe)
        /\ UNCHANGED <<spc, tx, iframe, cpc, cframe, net, received>>
    BY <1>5 DEF WritePipe, device, client, tcp
  <2>2. ToSet(Nums(fifo)) \cup {iframe.num} \subseteq ToSet(Nums(fifo'))
    BY <1>0, <2>1, QueueSets
  <2> QED BY <2>1, <2>2 DEF LossStep
<1>6. CASE Connect \/ OpenForReading
  <2>1. /\ UNCHANGED <<spc, tx, ipc, iframe, cframe, fifo, net, received>>
        /\ cpc # "send"
    BY <1>6 DEF Connect, OpenForReading, device, daemon, tcp
  <2> QED BY <2>1 DEF LossStep
<1>7. CASE ConnectRefused \/ SeeHangup
  <2>1. fifo = <<>> \/ pipe
    BY <1>7 DEF Held, Reader, ConnectRefused, SeeHangup
  <2>2. /\ UNCHANGED <<spc, tx, ipc, iframe, cframe, fifo, net, received>>
        /\ cpc # "send"
    BY <1>7, <2>1 DEF ConnectRefused, SeeHangup, ClientExits, Leftover, device, daemon, tcp
  <2> QED BY <2>2 DEF LossStep
<1>8. CASE GetFrame
  <2>1. /\ fifo # <<>> /\ fifo' = Tail(fifo) /\ cframe' = Head(fifo)
        /\ cpc = "poll" /\ cpc' = "send"
        /\ UNCHANGED <<spc, tx, ipc, iframe, net, received>>
    BY <1>8 DEF GetFrame, device, daemon, tcp
  <2>2. ToSet(Nums(fifo)) \subseteq {cframe'.num} \cup ToSet(Nums(fifo'))
    BY <1>0, <2>1, QueueSets
  <2> QED BY <2>1, <2>2 DEF LossStep
<1>9. CASE SendFrame
  <2> DEFINE seg == [num |-> cframe.num, bytes |-> cframe.bytes, conn |-> conn]
  <2>1. /\ net' = Append(net, seg)
        /\ UNCHANGED <<spc, tx, ipc, iframe, cframe, fifo, received>>
    BY <1>9 DEF SendFrame, device, daemon
  <2>0. seg \in Segment /\ seg.num = cframe.num
    BY SentSegment
  <2> HIDE DEF seg
  <2>2. ToSet(Nums(net)) \cup {cframe.num} \subseteq ToSet(Nums(net'))
    BY <1>0, <2>0, <2>1, QueueSets
  <2> QED BY <2>1, <2>2 DEF LossStep
<1>10. CASE SendToClosed \/ SendToReset
  BY <1>10 DEF SendToClosed, SendToReset, LossStep
<1>11. CASE Receive
  <2> DEFINE got == [num |-> Head(net).num, frame |-> AtServer(Head(net).bytes)]
  <2>1. /\ net # <<>> /\ net' = Tail(net) /\ received' = Append(received, got)
        /\ UNCHANGED <<spc, tx, ipc, iframe, cpc, cframe, fifo>>
    BY <1>11 DEF Receive, device, daemon, client
  <2>2. ToSet(Nums(net)) \subseteq {got.num} \cup ToSet(Nums(net'))
    BY <1>0, <2>1, QueueSets
  <2>3. got \in Got
    <3>1. Head(net) \in Segment
      BY <1>0, <2>1, QueueNumbers
    <3> QED BY <3>1, FrameTypes DEF Segment, Got
  <2>4. ToSet(Nums(received)) \cup {got.num} \subseteq ToSet(Nums(received'))
    BY <1>0, <2>1, <2>3, QueueSets
  <2> HIDE DEF got
  <2> QED BY <2>1, <2>2, <2>4 DEF LossStep
<1>12. CASE Faults
  <2>1. faults' = faults + 1 /\ faults \in Nat
    BY <1>12 DEF Faults, Reset, InitFails, ReadThroughReset, ReadFails, I2cKilled,
                 ConnectFails, ClientKilled, HupTearsFrame, ServerWaits, ServerStops, Fault,
                 TypeOK, CountsOK
  <2> QED BY <2>1 DEF LossStep
<1>13. CASE ServerStarts \/ ScriptStartsI2c \/ Starts
  <2>1. /\ UNCHANGED <<spc, tx, iframe, cframe, fifo, net, received>>
        /\ (ipc = "write" => ipc' = "write") /\ (cpc = "send" => cpc' = "send")
    BY <1>13 DEF ServerStarts, ScriptStartsI2c, Starts, RunScript, StartClient, StartI2c,
                 device, daemon, client, tcp
  <2> QED BY <2>1 DEF LossStep
<1>14. CASE UNCHANGED vars
  BY <1>14 DEF vars, device, daemon, client, tcp, LossStep
<1>15. CASE ReceiveTorn
  BY <1>15 DEF ReceiveTorn, LossStep
<1> QED BY <1>1, <1>2, <1>3, <1>4, <1>5, <1>6, <1>7, <1>8, <1>9, <1>10, <1>11, <1>12,
           <1>13, <1>14, <1>15 DEF Next, Device, I2cDaemon, ClientDaemon, Server, Faults

(* Every frame that is lost is lost for a reason that can be named.        *)
THEOREM Losses == Spec => LossExplained
<1>1. IndInv /\ [Next]_vars => LossStep
  BY LossStepHolds DEF IndInv
<1> QED BY <1>1, Invariance, PTL DEF Spec, LossExplained
-----------------------------------------------------------------------------
(* The chain is a lossy channel: sending is I2C2_Send_Data, getting is the *)
(* server's Receive, and everything else happens out of sight.             *)
LEMMA SendsOrGets ==
  ASSUME [Next]_vars
  PROVE  I2C2_Send_Data \/ Receive \/ UNCHANGED <<produced, received>>
<1>1. CASE PassesNothing
  BY <1>1 DEF PassesNothing
<1>2. CASE Passes
  BY <1>2 DEF Passes, ReadFrame, ReadThroughReset, WritePipe, GetFrame, SendFrame, Server,
              ReceiveTorn, HupTearsFrame, device, tcp
<1> QED BY <1>1, <1>2, PassesOrNot

LEMMA ChannelInit == Init => Channel!Init
BY DEF Init, Channel!Init, Nums

LEMMA ChannelStep ==
  ASSUME IndInv, [Next]_vars
  PROVE  [Channel!Next]_<<Len(produced), Nums(received)>>
<1>0. /\ net \in Seq(Segment) /\ received \in Seq(Got) /\ produced \in Seq(GpsFrame)
      /\ data \in GpsFrame
  BY Queues DEF IndInv, TypeOK, DeviceOK
<1>1. CASE UNCHANGED <<produced, received>>
  BY <1>1
<1>2. CASE I2C2_Send_Data
  <2>1. produced' = Append(produced, data) /\ received' = received
    BY <1>2 DEF I2C2_Send_Data, tcp
  <2>2. Len(produced') = Len(produced) + 1
    BY <1>0, <2>1
  <2> QED BY <2>1, <2>2 DEF Channel!Next, Channel!Send
<1>3. CASE Receive
  <2> DEFINE n == net[1].num
             r == [num |-> Head(net).num, frame |-> AtServer(Head(net).bytes)]
  <2>1. net # <<>> /\ received' = Append(received, r) /\ produced' = produced
    BY <1>3 DEF Receive, device
  <2>2. 1 \in 1 .. Len(net) /\ Head(net) = net[1]
    BY <1>0, <2>1, QueueNumbers
  <2>3. n \in 1 .. Len(produced)
    BY <2>2 DEF IndInv, Content, Written, Origin
  <2>4. \A i \in 1 .. Len(received) : received[i].num < n
    BY <2>2 DEF IndInv, Order
  <2>5. Channel!LastGot < n
    <3>1. CASE received = <<>>
      BY <3>1, <2>3 DEF Channel!LastGot, Nums
    <3>2. CASE received # <<>>
      <4>1. Len(received) \in 1 .. Len(received) /\ Len(received) = Len(Nums(received))
        BY <1>0, <3>2 DEF Nums
      <4>2. Nums(received)[Len(received)] = received[Len(received)].num
        BY <1>0, <4>1 DEF Nums
      <4> QED BY <2>4, <4>1, <4>2, <3>2, <1>0 DEF Channel!LastGot
    <3> QED BY <3>1, <3>2
  <2>6. Nums(received') = Append(Nums(received), n)
    BY <1>0, <2>1, <2>2 DEF Nums
  <2> QED BY <2>1, <2>3, <2>5, <2>6 DEF Channel!Next, Channel!Get
<1> QED BY <1>1, <1>2, <1>3, SendsOrGets

(* The chain implements the lossy channel.                                 *)
THEOREM Refinement == Spec => ImplementsChannel
<1>1. IndInv /\ [Next]_vars => [Channel!Next]_<<Len(produced), Nums(received)>>
  BY ChannelStep
<1> QED BY <1>1, ChannelInit, Invariance, PTL DEF Spec, ImplementsChannel, Channel!Spec
=============================================================================
