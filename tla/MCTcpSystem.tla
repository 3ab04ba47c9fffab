----------------------------- MODULE MCTcpSystem -----------------------------
(***************************************************************************)
(* Instances of TcpSystem small enough for TLC.                            *)
(***************************************************************************)
EXTENDS TcpSystem
===============================================================================
