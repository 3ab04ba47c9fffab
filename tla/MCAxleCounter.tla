---------------------------- MODULE MCAxleCounter ----------------------------
(***************************************************************************)
(* One module and two channels: two pulses on the first, one on the other, *)
(* and so on.  With the receive buffer scaled to 1000 bytes, a packet of   *)
(* two pulses leaves room for one pulse in a frame: a packet with both     *)
(* pulses of the first channel is cut, one with a pulse of each is not.    *)
(***************************************************************************)
EXTENDS AxleCounter

MCModules == {"m1"}
MCChannels == {"c1", "c2"}
MCChannelOf == [n \in 1..MaxPulses |-> IF n % 3 = 0 THEN "c2" ELSE "c1"]
===============================================================================
