---------------------------- MODULE MCOtaWatchdog ----------------------------
(***************************************************************************)
(* The code's own times in rounds of 500 ms, and a clock that wraps around *)
(* every 128 rounds.                                                       *)
(***************************************************************************)
EXTENDS OtaWatchdog
===============================================================================
