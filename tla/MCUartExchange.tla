--------------------------- MODULE MCUartExchange ---------------------------
(***************************************************************************)
(* A request of two bytes and a ring of four places.                       *)
(***************************************************************************)
EXTENDS UartExchange
=============================================================================
