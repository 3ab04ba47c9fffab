------------------------------ MODULE MCUartPort ------------------------------
(***************************************************************************)
(* Instances of UartPort small enough for TLC.                             *)
(***************************************************************************)
EXTENDS UartPort
===============================================================================
