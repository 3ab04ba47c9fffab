----------------------------- MODULE MCOtaSystem -----------------------------
(***************************************************************************)
(* A small board: slot A has three cells, slot B two, in sectors of one    *)
(* and two cells; addresses wrap around at 16.                             *)
(***************************************************************************)
EXTENDS OtaSystem

A1 == [slot |-> 1, size |-> 3, version |-> 1]
B2 == [slot |-> 2, size |-> 2, version |-> 2]
A3 == [slot |-> 1, size |-> 2, version |-> 3]

McImages == {A1, B2, A3}

\* Cells 2..4 are slot A (sectors {2}, {3,4}), cells 5..6 slot B (one sector).
McSectorEnd == [c \in AppCells |-> CASE c = 2 -> 3 [] c \in 3 .. 4 -> 5 [] OTHER -> 7]

\* Every offset inside a slot, and the two that wrap around.
McOffsets == {0, 1, 2, 14, 15}
===============================================================================
