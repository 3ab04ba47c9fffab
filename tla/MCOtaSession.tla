----------------------------- MODULE MCOtaSession -----------------------------
(***************************************************************************)
(* The small board of MCOtaSystem and a PC with two releases: version 2 is *)
(* there for slot B only, version 3 for both slots.                        *)
(***************************************************************************)
EXTENDS OtaSession

A1 == [slot |-> 1, size |-> 3, version |-> 1]
B2 == [slot |-> 2, size |-> 2, version |-> 2]
A3 == [slot |-> 1, size |-> 3, version |-> 3]
B3 == [slot |-> 2, size |-> 2, version |-> 3]

McImages == {A1, B2, A3, B3}

R2 == [version |-> 2, image |-> <<NoImage, B2>>]
R3 == [version |-> 3, image |-> <<A3, B3>>]
McReleases == {R2, R3}

McSectorEnd == [c \in AppCells |-> CASE c = 2 -> 3 [] c \in 3 .. 4 -> 5 [] OTHER -> 7]
McOffsets == 0 .. 3
===============================================================================
