------------------------------- MODULE TcpQueue -------------------------------
(***************************************************************************)
(* The two queues between the tasks that make frames and the one task that *)
(* sends them (User/client.c): a slot per port and one for control frames, *)
(* overwritten by the newest frame, and a ring for curve frames, which     *)
(* makes its producer wait when it is full.  One mutex protects both.      *)
(*                                                                         *)
(* A memcpy into a slot takes two steps, so that a reader without the      *)
(* mutex would find a Partial frame.  A frame is the task it comes from,   *)
(* its kind and its number; its bytes and its length do not matter here.   *)
(***************************************************************************)
EXTENDS Integers, Sequences

CONSTANTS
  NPorts,      \* UART_PORT_COUNT
  Depth,       \* CURVE_FIFO_DEPTH
  RetryCount,  \* TCP_SEND_RETRY_COUNT
  MaxRealtime, \* bounds: frames of each kind a port makes between two resets
  MaxCurves,
  Partial      \* what a slot holds while a frame is copied into it

ASSUME QueueAssumption ==
  /\ NPorts \in Nat \ {0} /\ Depth \in Nat \ {0}
  /\ RetryCount \in Nat /\ MaxRealtime \in Nat /\ MaxCurves \in Nat

Ports   == 1 .. NPorts
Control == NPorts + 1        \* the slot, and the task, of the client thread
Tasks   == Ports \cup {Control}
Free    == 0                 \* tcp_queue_lock when nobody holds it

Frame(t, curve, n) == [task |-> t, curve |-> curve, n |-> n]
Frames == [task : Tasks, curve : BOOLEAN, n : Nat]
NoFrame == Frame(Control, FALSE, 0)

ASSUME PartialAssumption == Partial \notin Frames

VARIABLES
  lock,      \* tcp_queue_lock: Free, or the task copying a frame in
  slots,     \* tcp_waiting_send_buf
  fifo, head, tail, count,   \* curve_fifo
  enq,       \* per task: the enqueue call it is in
  made,      \* per port and kind: frames made so far
  sender,    \* App_Task_TcpSend: where it is, and the frame in send_copy
  sent       \* history: per port and kind, the last frame netconn_write accepted

ringVars  == <<fifo, head, tail, count>>
queueVars == <<lock, slots, ringVars, enq, made, sender, sent>>

NoJob == [pc |-> "idle", frame |-> NoFrame, reset_flag |-> 0]
Idle  == [pc |-> "idle", slot |-> 1, frame |-> NoFrame, reset_flag |-> 0, tries |-> 0]

NoSlots    == [t \in Tasks |-> [ready |-> FALSE, frame |-> NoFrame, reset_flag |-> 0]]
EmptyFifo  == [k \in 0 .. (Depth - 1) |-> [frame |-> NoFrame, reset_flag |-> 0]]
NoJobs     == [t \in Tasks |-> NoJob]
NothingMade == [p \in Ports |-> [rt |-> 0, curve |-> 0]]

QueueInit ==
  /\ lock = Free /\ slots = NoSlots
  /\ fifo = EmptyFifo /\ head = 0 /\ tail = 0 /\ count = 0
  /\ enq = NoJobs /\ made = NothingMade /\ sender = Idle /\ sent = NothingMade

\* client_init runs again: the ring in SDRAM is cleared as well.
QueueReset ==
  /\ lock' = Free /\ slots' = NoSlots
  /\ fifo' = EmptyFifo /\ head' = 0 /\ tail' = 0 /\ count' = 0
  /\ enq' = NoJobs /\ made' = NothingMade /\ sender' = Idle /\ sent' = NothingMade

-------------------------------------------------------------------------------
(* Enqueueing. *)

Enqueue(t, frame, reset_flag) ==
  enq' = [enq EXCEPT ![t] = [pc |-> "lock", frame |-> frame, reset_flag |-> reset_flag]]

\* A port task has a realtime frame, or a curve, to send.
MakeRealtime(p) ==
  /\ enq[p].pc = "idle" /\ made[p].rt < MaxRealtime
  /\ made' = [made EXCEPT ![p].rt = @ + 1]
  /\ Enqueue(p, Frame(p, FALSE, made[p].rt + 1), 0)
  /\ UNCHANGED <<lock, slots, ringVars, sender, sent>>

MakeCurve(p) ==
  /\ enq[p].pc = "idle" /\ made[p].curve < MaxCurves
  /\ made' = [made EXCEPT ![p].curve = @ + 1]
  /\ Enqueue(p, Frame(p, TRUE, made[p].curve + 1), 0)
  /\ UNCHANGED <<lock, slots, ringVars, sender, sent>>

\* client_thread has a request, or the log, to send.
MakeControl(reset_flag) ==
  /\ enq[Control].pc = "idle"
  /\ Enqueue(Control, Frame(Control, FALSE, 0), reset_flag)
  /\ UNCHANGED <<lock, slots, ringVars, made, sender, sent>>

\* Mutation: the tasks do not take the mutex.
CanLock_never(t) == enq[t].pc = "lock"

CanLock(t) == enq[t].pc = "lock" /\ lock = Free

Locks(t)  == enq' = [enq EXCEPT ![t].pc = "copy"] /\ lock' = t
Gives(t)  == enq' = [enq EXCEPT ![t] = NoJob] /\ lock' = Free

\* client_add_to_tcp_send_buf: whatever the slot still holds is overwritten.
add_begin(t) ==
  /\ CanLock(t) /\ ~enq[t].frame.curve
  /\ Locks(t)
  /\ slots' = [slots EXCEPT ![t].frame = Partial, ![t].reset_flag = enq[t].reset_flag]
  /\ UNCHANGED <<ringVars, made, sender, sent>>

add_end(t) ==
  /\ enq[t].pc = "copy" /\ ~enq[t].frame.curve
  /\ slots' = [slots EXCEPT ![t].frame = enq[t].frame, ![t].ready = TRUE]
  /\ Gives(t)
  /\ UNCHANGED <<ringVars, made, sender, sent>>

\* client_add_curve_to_tcp_send_buf: with the ring full the task gives the
\* mutex back and tries again 10 ms later.
add_curve_begin(t) ==
  /\ CanLock(t) /\ enq[t].frame.curve
  /\ count < Depth
  /\ Locks(t)
  /\ fifo' = [fifo EXCEPT ![tail] = [frame |-> Partial, reset_flag |-> enq[t].reset_flag]]
  /\ UNCHANGED <<slots, head, tail, count, made, sender, sent>>

add_curve_end(t) ==
  /\ enq[t].pc = "copy" /\ enq[t].frame.curve
  /\ fifo' = [fifo EXCEPT ![tail].frame = enq[t].frame]
  /\ tail' = (tail + 1) % Depth
  /\ count' = count + 1
  /\ Gives(t)
  /\ UNCHANGED <<slots, head, made, sender, sent>>

MakeStep == \E p \in Ports : MakeRealtime(p) \/ MakeCurve(p)

CopyStep(t) == add_begin(t) \/ add_end(t) \/ add_curve_begin(t) \/ add_curve_end(t)

-------------------------------------------------------------------------------
(* client_send_pending. *)

SomethingToSend == count > 0 \/ \E t \in Tasks : slots[t].ready

\* A pass over empty queues changes nothing and is left out.
PassStarts ==
  /\ sender.pc = "idle" /\ SomethingToSend
  /\ sender' = [Idle EXCEPT !.pc = "scan"]
  /\ UNCHANGED <<lock, slots, ringVars, enq, made, sent>>

HandsEmpty == [sender EXCEPT !.frame = NoFrame, !.tries = 0]
NextSlot == IF sender.slot < Control THEN [HandsEmpty EXCEPT !.pc = "scan", !.slot = @ + 1]
                                     ELSE [HandsEmpty EXCEPT !.pc = "fifo"]

SkipSlot ==
  /\ sender.pc = "scan" /\ ~slots[sender.slot].ready
  /\ sender' = NextSlot
  /\ UNCHANGED <<lock, slots, ringVars, enq, made, sent>>

\* The slot is free again before its frame is sent.
TakeSlot ==
  LET slot == slots[sender.slot] IN
  /\ sender.pc = "scan" /\ slot.ready /\ lock = Free
  /\ sender' = [sender EXCEPT !.pc = "write", !.frame = slot.frame,
                              !.reset_flag = slot.reset_flag, !.tries = 0]
  /\ slots' = [slots EXCEPT ![sender.slot].ready = FALSE, ![sender.slot].frame = NoFrame]
  /\ UNCHANGED <<lock, ringVars, enq, made, sent>>

\* Mutations: the head is left where it is; the reset flag is the last slot's.
TakeCurve_again ==
  /\ sender.pc = "fifo" /\ lock = Free /\ count > 0
  /\ sender' = [sender EXCEPT !.pc = "write", !.frame = fifo[head].frame,
                              !.reset_flag = fifo[head].reset_flag, !.tries = 0]
  /\ count' = count - 1
  /\ UNCHANGED <<lock, slots, fifo, head, tail, enq, made, sent>>
TakeCurve_stale_flag ==
  /\ sender.pc = "fifo" /\ lock = Free /\ count > 0
  /\ sender' = [sender EXCEPT !.pc = "write", !.frame = fifo[head].frame, !.tries = 0]
  /\ head' = (head + 1) % Depth
  /\ count' = count - 1
  /\ UNCHANGED <<lock, slots, fifo, tail, enq, made, sent>>

\* So is the place in the ring.
TakeCurve ==
  /\ sender.pc = "fifo" /\ lock = Free /\ count > 0
  /\ sender' = [sender EXCEPT !.pc = "write", !.frame = fifo[head].frame,
                              !.reset_flag = fifo[head].reset_flag, !.tries = 0]
  /\ head' = (head + 1) % Depth
  /\ count' = count - 1
  /\ UNCHANGED <<lock, slots, fifo, tail, enq, made, sent>>

PassEnds ==
  /\ sender.pc = "fifo" /\ lock = Free /\ count = 0
  /\ sender' = Idle
  /\ UNCHANGED <<lock, slots, ringVars, enq, made, sent>>

\* client_send_frame: netconn_write takes the frame or fails, and it is tried
\* again; after the last failure the frame, and the pass, are given up.
Accepted ==
  LET f == sender.frame IN
  /\ sender.pc = "write"
  /\ sent' = IF f.task = Control THEN sent
             ELSE IF f.curve THEN [sent EXCEPT ![f.task].curve = f.n]
                             ELSE [sent EXCEPT ![f.task].rt = f.n]
  /\ sender' = IF f.curve THEN [HandsEmpty EXCEPT !.pc = "fifo"] ELSE NextSlot
  /\ UNCHANGED <<lock, slots, ringVars, enq, made>>

Retried ==
  /\ sender.pc = "write" /\ sender.tries < RetryCount
  /\ sender' = [sender EXCEPT !.tries = @ + 1]
  /\ UNCHANGED <<lock, slots, ringVars, enq, made, sent>>

GivenUp ==
  /\ sender.pc = "write" /\ sender.tries = RetryCount
  /\ sender' = Idle
  /\ UNCHANGED <<lock, slots, ringVars, enq, made, sent>>

SendStep == \/ PassStarts \/ SkipSlot \/ TakeSlot \/ TakeCurve \/ PassEnds
            \/ Accepted \/ Retried \/ GivenUp

-------------------------------------------------------------------------------
(* The queues by themselves, whatever the connection does. *)

QueueNext == \/ MakeStep \/ SendStep \/ QueueReset \/ \E t \in Tasks : CopyStep(t)
             \/ \E reset_flag \in {0, 29} : MakeControl(reset_flag)

QueueSpec == QueueInit /\ [][QueueNext]_queueVars

Slot == [ready : BOOLEAN, frame : Frames \cup {Partial}, reset_flag : Nat]
QueueTypeOK ==
  /\ lock \in Tasks \cup {Free}
  /\ slots \in [Tasks -> Slot]
  /\ fifo \in [0 .. (Depth - 1) -> [frame : Frames \cup {Partial}, reset_flag : Nat]]
  /\ head \in 0 .. (Depth - 1) /\ tail \in 0 .. (Depth - 1) /\ count \in 0 .. Depth
  /\ enq \in [Tasks -> [pc : {"idle", "lock", "copy"}, frame : Frames, reset_flag : Nat]]
  /\ made \in [Ports -> [rt : 0 .. MaxRealtime, curve : 0 .. MaxCurves]]
  /\ sender \in [pc : {"idle", "scan", "write", "fifo"}, slot : Tasks,
                 frame : Frames \cup {Partial}, reset_flag : Nat, tries : 0 .. RetryCount]
  /\ sent \in [Ports -> [rt : 0 .. MaxRealtime, curve : 0 .. MaxCurves]]

\* What is in the ring, oldest first.
Ring == [k \in 1 .. count |-> fifo[(head + k - 1) % Depth].frame]

(***************************************************************************)
(* The send task never has half a frame in its hands, and no frame reaches *)
(* the host twice or after a younger one of its kind: neither the slots    *)
(* that are overwritten while it reads them nor the ring with its several  *)
(* producers let that happen.                                              *)
(***************************************************************************)
OnlyWholeFrames == sender.frame # Partial

LastSent(f) == IF f.curve THEN sent[f.task].curve ELSE sent[f.task].rt
WrittenInOrder ==
  sender.pc = "write" /\ sender.frame.task # Control =>
    sender.frame.n > LastSent(sender.frame)

(***************************************************************************)
(* The ring implements the bounded queue, whoever puts frames in, and a    *)
(* producer that finds it full leaves it alone.                            *)
(***************************************************************************)
Curves == [task : Ports, curve : {TRUE}, n : 1 .. MaxCurves]
Queue == INSTANCE BoundedQueue WITH queue <- Ring, Frames <- Curves
RingIsAQueue == Queue!Spec
===============================================================================
