--------------------------- MODULE MCDeviceChain ---------------------------
(***************************************************************************)
(* Two places of the device's table (Rishon Lezion, Tel Aviv), as the      *)
(* bytes of their floats: 31.962, 34.802 and 32.087, 34.789.               *)
(***************************************************************************)
EXTENDS DeviceChain

TwoPlaces == <<[x |-> <<45, 178, 255, 65>>, y |-> <<63, 53, 11, 66>>],
               [x |-> <<23, 89, 0, 66>>,   y |-> <<240, 39, 11, 66>>]>>
=============================================================================
