------------------------------- MODULE PcServer -------------------------------
(***************************************************************************)
(* The OTA server of the PC tool (PC_Server/ota_gui.py) and the TCP        *)
(* connection it shares with one board.  A connection has a session object *)
(* of its own, so a new connection starts from WAIT_HELLO.                 *)
(*                                                                         *)
(* TCP keeps order and loses nothing while the connection lasts.  When it  *)
(* ends, what is under way is lost; the board may not know yet.            *)
(***************************************************************************)
EXTENDS Integers, Sequences

CONSTANTS
  Releases,   \* what load_firmware can load: a version, and an image per slot
  NoImage,    \* the slot's _A.bin or _B.bin is missing
  Chunk,      \* chunk_size, in cells
  Window      \* bound: frames of a burst the connection takes (TX_BURST_FRAMES)

ASSUME ServerAssumption == Chunk \in Nat \ {0} /\ Window \in Nat \ {0}

VARIABLES
  release,    \* firmware_version and firmware_images; version 0 while none is loaded
  phase,      \* OTAClientSession.phase
  push_slot,  \* the slot it pushed to
  fw,         \* the image it takes the data from
  next_off,   \* the next offset it sends
  link,       \* the board's socket: "down", "up", "closed" by the PC, or "broken"
  toBoard, toPc    \* frames under way

sessionVars == <<phase, push_slot, fw, next_off>>
pcVars      == <<release, sessionVars, link, toBoard, toPc>>

Phases == {"WAIT_HELLO", "WAIT_CONFIRM", "WAIT_READY", "PUSHING", "WAIT_FINAL", "DONE"}

NewSession ==
  phase' = "WAIT_HELLO" /\ push_slot' = 0 /\ fw' = NoImage /\ next_off' = 0

ServerInit ==
  /\ release \in Releases
  /\ phase = "WAIT_HELLO" /\ push_slot = 0 /\ fw = NoImage /\ next_off = 0
  /\ link = "down" /\ toBoard = <<>> /\ toPc = <<>>

Hello(version, slot) == [cmd |-> "HELLO", version |-> version, slot |-> slot]
Push(i)              == [cmd |-> "PUSH", image |-> i]
Data(i, offset, len) == [cmd |-> "DATA", image |-> i, offset |-> offset, len |-> len]
Plain(cmd)           == [cmd |-> cmd]

Arrived(cmd) == link = "up" /\ toPc # <<>> /\ Head(toPc).cmd = cmd
Taken == toPc' = Tail(toPc) /\ UNCHANGED <<release, link>>
Queue(f) == toBoard' = Append(toBoard, f)

-------------------------------------------------------------------------------
\* A HELLO is answered by a push only while nothing else was pushed, and only
\* with an image for the slot the board is not running.
WouldPush(version, slot) ==
  version < release.version /\ release.image[slot] # NoImage

\* Mutation: every HELLO of an old board is answered.
_on_hello_any_phase ==
  /\ Arrived("HELLO") /\ Taken
  /\ LET f == Head(toPc) IN
     IF WouldPush(f.version, f.slot)
     THEN /\ Queue(Push(release.image[f.slot])) /\ push_slot' = f.slot
          /\ phase' = "WAIT_CONFIRM"
     ELSE UNCHANGED <<toBoard, phase, push_slot>>
  /\ UNCHANGED <<fw, next_off>>

_on_hello ==
  /\ Arrived("HELLO") /\ Taken
  /\ LET f == Head(toPc) IN
     IF phase = "WAIT_HELLO" /\ WouldPush(f.version, f.slot)
     THEN /\ Queue(Push(release.image[f.slot])) /\ push_slot' = f.slot
          /\ phase' = "WAIT_CONFIRM"
     ELSE UNCHANGED <<toBoard, phase, push_slot>>
  /\ UNCHANGED <<fw, next_off>>

_on_confirm ==
  /\ Arrived("CONFIRM") /\ Taken
  /\ phase' = IF phase = "WAIT_CONFIRM" THEN "WAIT_READY" ELSE phase
  /\ UNCHANGED <<toBoard, push_slot, fw, next_off>>

\* ACK(DOWNLOADING): the data comes from the image loaded now, which need not
\* be the one whose size and CRC were pushed.
_on_ack_downloading ==
  /\ Arrived("READY") /\ Taken
  /\ IF phase # "WAIT_READY" THEN UNCHANGED <<phase, fw, next_off>>
     ELSE /\ fw' = release.image[push_slot] /\ next_off' = 0
          /\ phase' = IF fw' = NoImage THEN "DONE" ELSE "PUSHING"
  /\ UNCHANGED <<toBoard, push_slot>>

\* ACK(SUCCESS), ERROR_UPDATE and REJECT_UPDATE end the session in any phase.
SessionEnds ==
  /\ Arrived("SUCCESS") \/ Arrived("ERROR") \/ Arrived("REJECT")
  /\ Taken
  /\ phase' = "DONE"
  /\ UNCHANGED <<toBoard, push_slot, fw, next_off>>

Smaller(a, b) == IF a < b THEN a ELSE b

\* Mutation: the last block is counted as a whole chunk.
_enqueue_next_whole ==
  /\ link = "up" /\ phase = "PUSHING" /\ Len(toBoard) < Window
  /\ IF next_off < fw.size
     THEN /\ Queue(Data(fw, next_off, Smaller(Chunk, fw.size - next_off)))
          /\ next_off' = next_off + Chunk
          /\ UNCHANGED phase
     ELSE Queue(Plain("END")) /\ phase' = "WAIT_FINAL" /\ UNCHANGED next_off
  /\ UNCHANGED <<release, push_slot, fw, link, toPc>>

_enqueue_next ==
  LET take == Smaller(Chunk, fw.size - next_off) IN
  /\ link = "up" /\ phase = "PUSHING" /\ Len(toBoard) < Window
  /\ IF next_off < fw.size
     THEN /\ Queue(Data(fw, next_off, take)) /\ next_off' = next_off + take
          /\ UNCHANGED phase
     ELSE Queue(Plain("END")) /\ phase' = "WAIT_FINAL" /\ UNCHANGED next_off
  /\ UNCHANGED <<release, push_slot, fw, link, toPc>>

\* A session that is done closes its socket; unread frames then reset the
\* connection, and with it what was still under way to the board.
Close ==
  /\ link = "up" /\ phase = "DONE"
  /\ link' = "closed" /\ toPc' = <<>>
  /\ toBoard' \in {toBoard, <<>>}
  /\ UNCHANGED <<release, sessionVars>>

\* The user loads other files, whatever the sessions are doing.
load_firmware ==
  /\ release' \in Releases \ {release}
  /\ UNCHANGED <<sessionVars, link, toBoard, toPc>>

\* A session closed by the other end, or by nobody it can still hear, ends.
LinkBreaks ==
  /\ link = "up" /\ link' \in {"closed", "broken"}
  /\ toBoard' = <<>> /\ toPc' = <<>>
  /\ UNCHANGED <<release, sessionVars>>

ServerStep ==
  \/ _on_hello \/ _on_confirm \/ _on_ack_downloading \/ SessionEnds
  \/ _enqueue_next \/ Close
===============================================================================
