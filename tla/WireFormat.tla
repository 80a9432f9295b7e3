----------------------------- MODULE WireFormat -----------------------------
(***************************************************************************)
(* gps_frame on its way from the STM32 to the server: 12 bytes, turned     *)
(* around and swapped at every station.  A byte is 0 .. 255, a frame in    *)
(* memory the tuple of its bytes from the lowest address (gps_frame is     *)
(* packed), and all three machines (Cortex-M7, the BeagleBone's Cortex-A8, *)
(* the server's x86) are little-endian.  A float is the tuple of its four  *)
(* bytes in memory; its value plays no part here.                          *)
(***************************************************************************)
EXTENDS Integers

Byte == 0 .. 255
UINT16_MAX == 65535
Word == 0 .. UINT16_MAX
Float == [1 .. 4 -> Byte]
Bytes == [1 .. 12 -> Byte]
GpsFrame == [device_id : Word, cord_x : Float, cord_y : Float, status : Word]

(* A uint16_t in memory, and the uint16_t two bytes of memory are.         *)
Low(w)  == w % 256
High(w) == w \div 256
U16(lo, hi) == lo + 256 * hi

(* The bytes of a gps_frame whose words and floats are in host order.      *)
InMemory(f) ==
  [i \in 1 .. 12 |->
     CASE i = 1  -> Low(f.device_id)
       [] i = 2  -> High(f.device_id)
       [] i \in 3 .. 6  -> f.cord_x[i - 2]
       [] i \in 7 .. 10 -> f.cord_y[i - 6]
       [] i = 11 -> Low(f.status)
       [] i = 12 -> High(f.status)]

FloatAt(b, at) == [i \in 1 .. 4 |-> b[at + i - 1]]
Reversed(x) == [i \in 1 .. 4 |-> x[5 - i]]

(* The gps_frame that 12 bytes of memory are.                              *)
FromMemory(b) ==
  [device_id |-> U16(b[1], b[2]), cord_x |-> FloatAt(b, 3),
   cord_y |-> FloatAt(b, 7), status |-> U16(b[11], b[12])]

(* The STM32 turns the whole struct around.                                *)
SwapEndian(b) == [i \in 1 .. 12 |-> b[13 - i]]

(* Nobody drives the bus after the first k bytes: it reads as ones.  (Cut  *)
(* inside a byte, the last bit of the frame is a one all the same.)        *)
CutOff(b, k) == [i \in 1 .. 12 |-> IF i <= k THEN b[i] ELSE 255]

swap16(w) == U16(High(w), Low(w))

(* i2c_read_frame: each field, now from the end of the frame to its start, *)
(* is swapped back to host order.                                          *)
i2c_read_frame(raw) ==
  [status    |-> swap16(U16(raw[1], raw[2])),
   cord_y    |-> Reversed(FloatAt(raw, 3)),
   cord_x    |-> Reversed(FloatAt(raw, 7)),
   device_id |-> swap16(U16(raw[11], raw[12]))]

(* Mutant: the status is written to the pipe as it was read (DecodedRight). *)
ToPipeStatusInHostOrder(f) ==
  InMemory([f EXCEPT !.device_id = swap16(@)])

(* What I2C_DAEMON writes: htons for the two words, the floats as they are. *)
ToPipe(f) ==
  InMemory([f EXCEPT !.device_id = swap16(@), !.status = swap16(@)])

(* What the server makes of a frame: ntohs for the words, and              *)
(* float_from_big_endian for the coordinates.  Rounding is left out.       *)
AtServer(b) ==
  LET raw == FromMemory(b)
  IN [device_id |-> swap16(raw.device_id), cord_x |-> Reversed(raw.cord_x),
      cord_y |-> Reversed(raw.cord_y), status |-> swap16(raw.status)]
=============================================================================
