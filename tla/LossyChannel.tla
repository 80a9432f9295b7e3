---------------------------- MODULE LossyChannel ----------------------------
(***************************************************************************)
(* What the chain from the STM32 to the server promises of its frames, and *)
(* no more: they are numbered as the device sends them; the server gets    *)
(* some of them whole, in that order and each at most once.                *)
(***************************************************************************)
EXTENDS Integers, Sequences

VARIABLES
  sent,   \* how many frames the device has sent
  got     \* the numbers of the frames the server has got

LastGot == IF got = <<>> THEN 0 ELSE got[Len(got)]

Init == sent = 0 /\ got = <<>>

Send == sent' = sent + 1 /\ UNCHANGED got

(* The frames between the last one and n are lost.                         *)
Get(n) ==
  /\ LastGot < n /\ n <= sent
  /\ got' = Append(got, n) /\ UNCHANGED sent

Next == Send \/ (\E n \in 1 .. sent : Get(n))

Spec == Init /\ [][Next]_<<sent, got>>
=============================================================================
