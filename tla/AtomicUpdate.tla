----------------------------- MODULE AtomicUpdate -----------------------------
(***************************************************************************)
(* What the A/B scheme of User/ota promises to whoever owns the board      *)
(* (ota_config.h:28-30): there is always one whole image that runs; a      *)
(* newer one can be stored beside it, whole, without disturbing it; and a  *)
(* start of the board, whatever ended the last run, runs one of the two.   *)
(* How an image gets into the flash does not appear here.                  *)
(***************************************************************************)
EXTENDS Integers

CONSTANTS
  Firmware,   \* images, each with a version
  Nothing     \* not an image

VARIABLES
  current,   \* the image that runs, or ran when the board stopped
  stored,    \* a newer image that is whole in the other slot, or Nothing
  up         \* an application is running

abstractVars == <<current, stored, up>>

Init == current \in Firmware /\ stored = Nothing /\ up = FALSE

\* The last block of a newer image is in, or its first sector is erased.
Store ==
  /\ up
  /\ stored' \in {i \in Firmware : i.version > current.version}
  /\ UNCHANGED <<current, up>>
Discard == up /\ stored' = Nothing /\ UNCHANGED <<current, up>>

\* A reset, the power, the watchdog.
Stop == up /\ up' = FALSE /\ stored' \in {stored, Nothing} /\ UNCHANGED current

\* What ran before, or the newer image.  The image it replaces is not newer.
Start ==
  /\ ~up /\ up'
  /\ \/ UNCHANGED <<current, stored>>
     \/ stored # Nothing /\ current' = stored /\ stored' = Nothing

Next == Store \/ Discard \/ Stop \/ Start

Spec == Init /\ [][Next]_abstractVars
===============================================================================
