-------------------------- MODULE WireFormatProofs --------------------------
(***************************************************************************)
(* What becomes of a frame between my_main's struct and the server's       *)
(* fields, for every id, status and pair of floats.                        *)
(***************************************************************************)
EXTENDS WireFormat, TLAPS

(* A word is its two bytes.                                                *)
LEMMA WordBytes ==
  ASSUME NEW w \in Word
  PROVE  Low(w) \in Byte /\ High(w) \in Byte /\ U16(Low(w), High(w)) = w
<1>1. w \in Int /\ 0 <= w /\ w <= 65535
  BY SMTT(30) DEF Word, UINT16_MAX
<1>2. /\ w % 256 \in Int /\ 0 <= w % 256 /\ w % 256 <= 255
      /\ w \div 256 \in Int /\ w = 256 * (w \div 256) + (w % 256)
  BY <1>1
<1>3. 0 <= w \div 256 /\ w \div 256 <= 255
  BY <1>1, <1>2
<1>4. Low(w) \in Byte /\ High(w) \in Byte
  BY <1>1, <1>2, <1>3 DEF Byte, Low, High
<1>5. U16(Low(w), High(w)) = w
  BY <1>1, <1>2 DEF U16, Low, High
<1> QED BY <1>4, <1>5

(* Two bytes are the bytes of the word they make.                          *)
LEMMA BytesWord ==
  ASSUME NEW lo \in Byte, NEW hi \in Byte
  PROVE  U16(lo, hi) \in Word /\ Low(U16(lo, hi)) = lo /\ High(U16(lo, hi)) = hi
<1>1. /\ lo \in Int /\ 0 <= lo /\ lo <= 255
      /\ hi \in Int /\ 0 <= hi /\ hi <= 255
  BY DEF Byte
<1>2. PICK w \in Int : w = lo + 256 * hi
  BY <1>1
<1>3. 0 <= w /\ w <= UINT16_MAX /\ UINT16_MAX \in Int
  BY <1>1, <1>2 DEF UINT16_MAX
<1>4. /\ w % 256 \in Int /\ 0 <= w % 256 /\ w % 256 <= 255
      /\ w \div 256 \in Int /\ w = 256 * (w \div 256) + (w % 256)
  BY <1>2
<1>5. w % 256 = lo /\ w \div 256 = hi
  BY <1>1, <1>2, <1>4
<1>6. w \in Word
  BY <1>3 DEF Word
<1> QED BY <1>2, <1>5, <1>6 DEF Low, High, U16

(* Swapping twice changes nothing.                                         *)
LEMMA Swap16 ==
  ASSUME NEW w \in Word
  PROVE  /\ swap16(w) \in Word /\ swap16(swap16(w)) = w
         /\ Low(swap16(w)) = High(w) /\ High(swap16(w)) = Low(w)
<1>1. Low(w) \in Byte /\ High(w) \in Byte /\ U16(Low(w), High(w)) = w
  BY WordBytes
<1>2. /\ swap16(w) \in Word
      /\ Low(swap16(w)) = High(w) /\ High(swap16(w)) = Low(w)
  BY <1>1, BytesWord DEF swap16
<1>3. swap16(swap16(w)) = w
  BY <1>1, <1>2 DEF swap16
<1> QED BY <1>2, <1>3

(* A float turned round twice is itself.                                   *)
LEMMA ReversedTwice ==
  ASSUME NEW x \in Float
  PROVE  Reversed(x) \in Float /\ Reversed(Reversed(x)) = x
<1>1. Reversed(x) \in Float
  BY DEF Float, Reversed
<1>2. \A i \in 1 .. 4 : Reversed(Reversed(x))[i] = x[i]
  BY DEF Float, Reversed
<1> QED BY <1>1, <1>2 DEF Float, Reversed

(* A gps_frame in memory is 12 bytes, from which it can be read back.      *)
LEMMA MemoryBytes ==
  ASSUME NEW f \in GpsFrame
  PROVE  InMemory(f) \in Bytes
<1>1. f.device_id \in Word /\ f.status \in Word /\ f.cord_x \in Float /\ f.cord_y \in Float
  BY DEF GpsFrame
<1>2. /\ Low(f.device_id) \in Byte /\ High(f.device_id) \in Byte
      /\ Low(f.status) \in Byte /\ High(f.status) \in Byte
  BY <1>1, WordBytes
<1>3. ASSUME NEW i \in 1 .. 12 PROVE InMemory(f)[i] \in Byte
  <2>1. CASE i \in 3 .. 6
    <3>1. i - 2 \in 1 .. 4 BY <2>1
    <3>2. InMemory(f)[i] = f.cord_x[i - 2] BY <2>1 DEF InMemory
    <3> QED BY <3>1, <3>2, <1>1 DEF Float
  <2>2. CASE i \in 7 .. 10
    <3>1. i - 6 \in 1 .. 4 BY <2>2
    <3>2. InMemory(f)[i] = f.cord_y[i - 6] BY <2>2 DEF InMemory
    <3> QED BY <3>1, <3>2, <1>1 DEF Float
  <2>3. CASE i \in {1, 2, 11, 12}
    BY <1>2, <2>3 DEF InMemory
  <2> QED BY <2>1, <2>2, <2>3
<1> QED BY <1>3 DEF InMemory, Bytes

LEMMA MemoryReadBack ==
  ASSUME NEW f \in GpsFrame
  PROVE  /\ FromMemory(InMemory(f)) = f
<1>1. f.device_id \in Word /\ f.status \in Word /\ f.cord_x \in Float /\ f.cord_y \in Float
  BY DEF GpsFrame
<1>2. \A i \in 1 .. 4 : FloatAt(InMemory(f), 3)[i] = f.cord_x[i]
  BY DEF FloatAt, InMemory
<1>3. FloatAt(InMemory(f), 3) = f.cord_x
  BY <1>1, <1>2 DEF FloatAt, Float
<1>4. \A i \in 1 .. 4 : FloatAt(InMemory(f), 7)[i] = f.cord_y[i]
  BY DEF FloatAt, InMemory
<1>5. FloatAt(InMemory(f), 7) = f.cord_y
  BY <1>1, <1>4 DEF FloatAt, Float
<1>6. /\ InMemory(f)[1] = Low(f.device_id) /\ InMemory(f)[2] = High(f.device_id)
      /\ InMemory(f)[11] = Low(f.status) /\ InMemory(f)[12] = High(f.status)
  BY DEF InMemory
<1>7. /\ U16(InMemory(f)[1], InMemory(f)[2]) = f.device_id
      /\ U16(InMemory(f)[11], InMemory(f)[12]) = f.status
  BY <1>1, <1>6, WordBytes
<1> QED BY <1>3, <1>5, <1>7 DEF FromMemory, GpsFrame

(* I2C_DAEMON undoes what the STM32 did: it has the device's frame, in     *)
(* host order (a frame turned round, then each of its fields).             *)
THEOREM ReadFrameInverts ==
  ASSUME NEW f \in GpsFrame
  PROVE  i2c_read_frame(SwapEndian(InMemory(f))) = f
<1> DEFINE m == InMemory(f)
           r == SwapEndian(m)
<1>1. f.device_id \in Word /\ f.status \in Word /\ f.cord_x \in Float /\ f.cord_y \in Float
  BY DEF GpsFrame
<1>2. /\ m[1] = Low(f.device_id) /\ m[2] = High(f.device_id)
      /\ m[11] = Low(f.status) /\ m[12] = High(f.status)
      /\ \A i \in 1 .. 4 : m[i + 2] = f.cord_x[i] /\ m[i + 6] = f.cord_y[i]
  BY DEF InMemory
<1> HIDE DEF m
<1>3. \A i \in 1 .. 12 : r[i] = m[13 - i]
  BY DEF SwapEndian
<1> HIDE DEF r
<1>4. ASSUME NEW w \in Word PROVE swap16(U16(High(w), Low(w))) = w
  BY Swap16 DEF swap16
<1>5. /\ r[1] = High(f.status) /\ r[2] = Low(f.status)
      /\ r[11] = High(f.device_id) /\ r[12] = Low(f.device_id)
  BY <1>2, <1>3
<1>6. /\ swap16(U16(r[1], r[2])) = f.status
      /\ swap16(U16(r[11], r[12])) = f.device_id
  BY <1>1, <1>4, <1>5
<1>7. \A i \in 1 .. 4 : Reversed(FloatAt(r, 3))[i] = f.cord_y[i]
  <2> TAKE i \in 1 .. 4
  <2>1. Reversed(FloatAt(r, 3))[i] = r[7 - i]
    BY DEF Reversed, FloatAt
  <2> QED BY <2>1, <1>2, <1>3
<1>8. \A i \in 1 .. 4 : Reversed(FloatAt(r, 7))[i] = f.cord_x[i]
  <2> TAKE i \in 1 .. 4
  <2>1. Reversed(FloatAt(r, 7))[i] = r[11 - i]
    BY DEF Reversed, FloatAt
  <2> QED BY <2>1, <1>2, <1>3
<1>9. Reversed(FloatAt(r, 3)) = f.cord_y /\ Reversed(FloatAt(r, 7)) = f.cord_x
  BY <1>1, <1>7, <1>8 DEF Reversed, Float
<1>10. i2c_read_frame(r) = f
  BY <1>6, <1>9 DEF i2c_read_frame, GpsFrame
<1> QED BY <1>10 DEF r, m

(* The server has the device's id and status, and its coordinates with     *)
(* their bytes turned round, whatever they are.                            *)
THEOREM ServerDecodes ==
  ASSUME NEW f \in GpsFrame
  PROVE  AtServer(ToPipe(f)) =
           [device_id |-> f.device_id, cord_x |-> Reversed(f.cord_x),
            cord_y |-> Reversed(f.cord_y), status |-> f.status]
<1> DEFINE g == [f EXCEPT !.device_id = swap16(@), !.status = swap16(@)]
<1>1. f.device_id \in Word /\ f.status \in Word
  BY DEF GpsFrame
<1>2. swap16(f.device_id) \in Word /\ swap16(f.status) \in Word
  BY <1>1, Swap16
<1>3. g \in GpsFrame
  BY <1>2 DEF GpsFrame
<1>4. FromMemory(ToPipe(f)) = g
  BY <1>3, MemoryReadBack DEF ToPipe
<1>5. /\ g.device_id = swap16(f.device_id) /\ g.status = swap16(f.status)
      /\ g.cord_x = f.cord_x /\ g.cord_y = f.cord_y
  BY DEF GpsFrame
<1>6. swap16(g.device_id) = f.device_id /\ swap16(g.status) = f.status
  BY <1>1, <1>5, Swap16
<1> QED BY <1>4, <1>5, <1>6 DEF AtServer

(* Twelve bytes are always some gps_frame, whichever way they are read, and *)
(* a gps_frame is written as twelve bytes.                                 *)
LEMMA FrameTypes ==
  /\ \A b \in Bytes : /\ SwapEndian(b) \in Bytes /\ FromMemory(b) \in GpsFrame
                      /\ i2c_read_frame(b) \in GpsFrame /\ AtServer(b) \in GpsFrame
  /\ \A f \in GpsFrame : ToPipe(f) \in Bytes
<1>1. ASSUME NEW b \in Bytes
      PROVE  /\ SwapEndian(b) \in Bytes /\ FromMemory(b) \in GpsFrame
             /\ i2c_read_frame(b) \in GpsFrame /\ AtServer(b) \in GpsFrame
  <2>1. \A i \in 1 .. 12 : b[i] \in Byte
    BY DEF Bytes
  <2>2. SwapEndian(b) \in Bytes
    BY <2>1 DEF SwapEndian, Bytes
  <2>3. \A i \in {1, 11} : /\ U16(b[i], b[i + 1]) \in Word
                           /\ swap16(U16(b[i], b[i + 1])) \in Word
    BY <2>1, BytesWord, Swap16
  <2>4. \A i \in {3, 7} : FloatAt(b, i) \in Float
    BY <2>1 DEF FloatAt, Float
  <2>5. \A i \in {3, 7} : Reversed(FloatAt(b, i)) \in Float
    BY <2>4, ReversedTwice
  <2>6. FromMemory(b) \in GpsFrame /\ i2c_read_frame(b) \in GpsFrame
    BY <2>3, <2>4, <2>5 DEF FromMemory, i2c_read_frame, GpsFrame
  <2>7. AtServer(b) \in GpsFrame
    BY <2>3, <2>5 DEF AtServer, FromMemory, GpsFrame
  <2> QED BY <2>2, <2>6, <2>7
<1>2. ASSUME NEW f \in GpsFrame PROVE ToPipe(f) \in Bytes
  <2>1. swap16(f.device_id) \in Word /\ swap16(f.status) \in Word
    BY Swap16 DEF GpsFrame
  <2>2. [f EXCEPT !.device_id = swap16(@), !.status = swap16(@)] \in GpsFrame
    BY <2>1 DEF GpsFrame
  <2> QED BY <2>2, MemoryBytes DEF ToPipe
<1> QED BY <1>1, <1>2

(* A frame that was cut off is twelve bytes too, and I2C_DAEMON makes an   *)
(* id of it whose low byte is 255: the id comes last on the bus.           *)
LEMMA CutFrame ==
  ASSUME NEW b \in Bytes, NEW k \in 0 .. 11
  PROVE  /\ CutOff(b, k) \in Bytes
         /\ i2c_read_frame(CutOff(b, k)) \in GpsFrame
         /\ Low(i2c_read_frame(CutOff(b, k)).device_id) = 255
<1> DEFINE c == CutOff(b, k)
<1>1. c \in Bytes /\ c[12] = 255
  <2>1. 255 \in Byte /\ \A i \in 1 .. 12 : b[i] \in Byte
    BY DEF Byte, Bytes
  <2> QED BY <2>1 DEF CutOff, Bytes
<1> HIDE DEF c
<1>2. c[11] \in Byte /\ c[12] \in Byte
  BY <1>1 DEF Bytes
<1>3. /\ U16(c[11], c[12]) \in Word /\ High(U16(c[11], c[12])) = 255
  BY <1>1, <1>2, BytesWord
<1>4. Low(swap16(U16(c[11], c[12]))) = 255
  BY <1>3, Swap16
<1>5. Low(i2c_read_frame(c).device_id) = 255
  BY <1>4 DEF i2c_read_frame
<1>6. i2c_read_frame(c) \in GpsFrame
  BY <1>1, FrameTypes
<1> QED BY <1>1, <1>5, <1>6 DEF c
=============================================================================
