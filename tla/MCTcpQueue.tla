------------------------------ MODULE MCTcpQueue ------------------------------
(***************************************************************************)
(* The queues of the TCP client with two ports that make frames.           *)
(***************************************************************************)
EXTENDS TcpQueue
===============================================================================
