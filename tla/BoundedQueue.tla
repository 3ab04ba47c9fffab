----------------------------- MODULE BoundedQueue -----------------------------
(***************************************************************************)
(* What the curve ring promises: a queue of at most Depth frames, taken    *)
(* out in the order they were put in, and emptied by a reset.              *)
(***************************************************************************)
EXTENDS Integers, Sequences

CONSTANTS Depth, Frames

VARIABLE queue

Init == queue = <<>>

Put    == Len(queue) < Depth /\ \E f \in Frames : queue' = Append(queue, f)
Get    == queue # <<>> /\ queue' = Tail(queue)
Clear  == queue' = <<>>

Next == Put \/ Get \/ Clear

Spec == Init /\ [][Next]_queue
===============================================================================
