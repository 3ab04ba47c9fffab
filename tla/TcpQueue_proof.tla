---------------------------- MODULE TcpQueue_proof ----------------------------
(***************************************************************************)
(* Proofs about the queues of the TCP client, for every number of ports,   *)
(* depth of the ring, number of tries and bound: frames are whole and in   *)
(* order, and the ring is a bounded queue.                                 *)
(***************************************************************************)
EXTENDS TcpQueue, SequenceTheorems, TLAPS

\* The i-th place of a ring whose head is at h, counted from 0.
At(h, i) == (h + i) % Depth
Place(i) == At(head, i)

\* The mutex and the calls that hold it.
LockInv == \A t \in Tasks : enq[t].pc = "copy" <=> lock = t

\* A port's count of one kind of frame: in made, or in sent.
Tally(counts, curve) == IF curve THEN counts.curve ELSE counts.rt

\* What made and sent hold of a port, and enq of a task.
Counts == [rt : 0 .. MaxRealtime, curve : 0 .. MaxCurves]
Job    == [pc : {"idle", "lock", "copy"}, frame : Frames, reset_flag : Nat]

\* What a task is about to put in a queue is its own, and its youngest.
EnqInv ==
  \A t \in Tasks : enq[t].pc # "idle" =>
    /\ enq[t].frame.task = t
    /\ t = Control => ~enq[t].frame.curve
    /\ t \in Ports => /\ enq[t].frame.n = Tally(made[t], enq[t].frame.curve)
                      /\ enq[t].frame.n > Tally(sent[t], enq[t].frame.curve)

\* A frame made before the one its task is putting in a queue now, if any.
Older(f, counts, job) ==
  /\ f.n <= Tally(counts, f.curve)
  /\ job.pc # "idle" /\ job.frame.curve = f.curve => f.n < job.frame.n

\* A slot is only torn while its task copies.
SlotInv ==
  \A t \in Tasks :
    /\ slots[t].frame = Partial => enq[t].pc = "copy" /\ ~enq[t].frame.curve
    /\ slots[t].ready /\ slots[t].frame # Partial =>
         /\ slots[t].frame.task = t /\ ~slots[t].frame.curve
         /\ t \in Ports => /\ Older(slots[t].frame, made[t], enq[t])
                           /\ slots[t].frame.n > Tally(sent[t], FALSE)

\* The ring: its indices agree, and there is room for the curve being copied in.
IndexInv ==
  /\ tail = Place(count)
  /\ \A t \in Tasks : enq[t].pc = "copy" /\ enq[t].frame.curve => count < Depth

\* What the ring holds is whole, and in order.
RingInv ==
  \A i \in 0 .. (count - 1) :
    LET f == fifo[Place(i)].frame IN
    /\ f \in Curves /\ f.n > Tally(sent[f.task], TRUE) /\ Older(f, made[f.task], enq[f.task])
    /\ \A j \in 0 .. (i - 1) :
         fifo[Place(j)].frame.task = f.task => fifo[Place(j)].frame.n < f.n

\* What the send task holds is whole, and older than what is still in a queue.
SenderInv ==
  LET f == sender.frame IN
  /\ f \in Frames
  /\ sender.pc = "write" /\ f.task \in Ports =>
       /\ f.n > Tally(sent[f.task], f.curve) /\ Older(f, made[f.task], enq[f.task])
       /\ f.curve => \A i \in 0 .. (count - 1) :
            fifo[Place(i)].frame.task = f.task => fifo[Place(i)].frame.n > f.n
       /\ ~f.curve /\ slots[f.task].ready /\ slots[f.task].frame # Partial =>
            slots[f.task].frame.n > f.n

SentInv == \A p \in Ports, c \in BOOLEAN : Tally(sent[p], c) <= Tally(made[p], c)

QueueInv == /\ QueueTypeOK /\ LockInv /\ EnqInv /\ SlotInv
            /\ IndexInv /\ RingInv /\ SenderInv /\ SentInv

-------------------------------------------------------------------------------
(* Arithmetic of the ring. *)

LEMMA AtFacts ==
  ASSUME NEW h \in 0 .. (Depth - 1), NEW i \in 0 .. Depth
  PROVE  /\ At(h, i) \in 0 .. (Depth - 1)
         /\ At(h, i) = IF h + i < Depth THEN h + i ELSE h + i - Depth
BY QueueAssumption DEF At

LEMMA AtInjective ==
  ASSUME NEW h \in 0 .. (Depth - 1), NEW i \in 0 .. (Depth - 1), NEW j \in 0 .. (Depth - 1),
         At(h, i) = At(h, j)
  PROVE  i = j
<1>1. i \in 0 .. Depth /\ j \in 0 .. Depth BY QueueAssumption
<1>2. At(h, i) = IF h + i < Depth THEN h + i ELSE h + i - Depth BY <1>1, AtFacts
<1>3. At(h, j) = IF h + j < Depth THEN h + j ELSE h + j - Depth BY <1>1, AtFacts
<1>4. (IF h + i < Depth THEN h + i ELSE h + i - Depth) =
        IF h + j < Depth THEN h + j ELSE h + j - Depth
  BY <1>2, <1>3, Zenon
<1>. QED BY <1>4, QueueAssumption

\* Moving the head on by one moves every place on by one; so does moving the tail.
LEMMA AtMoves ==
  ASSUME NEW h \in 0 .. (Depth - 1), NEW i \in 0 .. (Depth - 1)
  PROVE  /\ At((h + 1) % Depth, i) = At(h, i + 1)
         /\ (At(h, i) + 1) % Depth = At(h, i + 1)
<1>1. i \in 0 .. Depth /\ i + 1 \in 0 .. Depth /\ 1 \in 0 .. Depth BY QueueAssumption
<1>2. (h + 1) % Depth = At(h, 1) BY DEF At
<1>3. (At(h, i) + 1) % Depth = At(At(h, i), 1) BY DEF At
<1>4. /\ At(h, 1) \in 0 .. (Depth - 1)
      /\ At(h, 1) = IF h + 1 < Depth THEN h + 1 ELSE h + 1 - Depth
  BY <1>1, AtFacts
<1>5. /\ At(h, i) \in 0 .. (Depth - 1)
      /\ At(h, i) = IF h + i < Depth THEN h + i ELSE h + i - Depth
  BY <1>1, AtFacts
<1>6. At(h, i + 1) = IF h + (i + 1) < Depth THEN h + (i + 1) ELSE h + (i + 1) - Depth
  BY <1>1, AtFacts
<1>7. PICK a \in 0 .. (Depth - 1) : a = At(h, 1) BY <1>4
<1>8. PICK b \in 0 .. (Depth - 1) : b = At(h, i) BY <1>5
<1>9. At(a, i) = IF a + i < Depth THEN a + i ELSE a + i - Depth BY <1>1, AtFacts
<1>10. At(b, 1) = IF b + 1 < Depth THEN b + 1 ELSE b + 1 - Depth BY <1>1, AtFacts
<1>. QED BY <1>2, <1>3, <1>4, <1>5, <1>6, <1>7, <1>8, <1>9, <1>10, QueueAssumption

LEMMA FunctionIsSeq ==
  ASSUME NEW S, NEW n \in Nat, NEW f \in [1 .. n -> S]
  PROVE  f \in Seq(S) /\ Len(f) = n
<1>1. f \in Seq(S) BY SeqDef
<1>2. DOMAIN f = 1 .. Len(f) /\ Len(f) \in Nat BY <1>1, LenProperties
<1>. QED BY <1>1, <1>2

\* What a ring with its head at h and c frames in it holds, oldest first.
RingOf(places, h, c) == [k \in 1 .. c |-> places[At(h, k - 1)].frame]

LEMMA RingOfFacts ==
  ASSUME NEW S, NEW places, \A i \in 0 .. (Depth - 1) : places[i].frame \in S,
         NEW h \in 0 .. (Depth - 1), NEW c \in 0 .. Depth
  PROVE  RingOf(places, h, c) \in Seq(S) /\ Len(RingOf(places, h, c)) = c
<1>1. \A k \in 1 .. c : At(h, k - 1) \in 0 .. (Depth - 1)
  <2>1. \A k \in 1 .. c : k - 1 \in 0 .. Depth BY QueueAssumption
  <2>. QED BY <2>1, AtFacts
<1>2. RingOf(places, h, c) \in [1 .. c -> S] BY <1>1 DEF RingOf
<1>. QED BY <1>2, FunctionIsSeq, QueueAssumption

WholeRing == Frames \cup {Partial}

LEMMA RingFacts ==
  ASSUME QueueTypeOK
  PROVE  /\ Ring \in Seq(WholeRing) /\ Len(Ring) = count
         /\ \A k \in 1 .. count : Ring[k] = fifo[At(head, k - 1)].frame
<1>1. /\ \A i \in 0 .. (Depth - 1) : fifo[i].frame \in WholeRing
      /\ head \in 0 .. (Depth - 1) /\ count \in 0 .. Depth
  BY DEF QueueTypeOK, WholeRing
<1>2. Ring = RingOf(fifo, head, count)
  BY <1>1, QueueAssumption DEF Ring, RingOf, At
<1>3. RingOf(fifo, head, count) \in Seq(WholeRing) /\ Len(RingOf(fifo, head, count)) = count
  BY <1>1, RingOfFacts
<1>4. \A k \in 1 .. count : RingOf(fifo, head, count)[k] = fifo[At(head, k - 1)].frame
  BY DEF RingOf
<1>. QED BY <1>2, <1>3, <1>4

LEMMA RingFactsNext ==
  ASSUME QueueTypeOK'
  PROVE  /\ Ring' \in Seq(WholeRing) /\ Len(Ring') = count'
         /\ \A k \in 1 .. count' : Ring'[k] = fifo'[At(head', k - 1)].frame
<1>1. /\ \A i \in 0 .. (Depth - 1) : fifo'[i].frame \in WholeRing
      /\ head' \in 0 .. (Depth - 1) /\ count' \in 0 .. Depth
  BY DEF QueueTypeOK, WholeRing
<1>2. Ring' = RingOf(fifo', head', count')
  BY <1>1, QueueAssumption DEF Ring, RingOf, At
<1>3. /\ RingOf(fifo', head', count') \in Seq(WholeRing)
      /\ Len(RingOf(fifo', head', count')) = count'
  BY <1>1, RingOfFacts
<1>4. \A k \in 1 .. count' :
        RingOf(fifo', head', count')[k] = fifo'[At(head', k - 1)].frame
  BY DEF RingOf
<1>. QED BY <1>2, <1>3, <1>4

-------------------------------------------------------------------------------
(* Types of the parts of the state, and frames that stay old. *)

LEMMA FrameType ==
  /\ NoFrame \in Frames
  /\ \A t \in Tasks, c \in BOOLEAN, n \in Nat : Frame(t, c, n) \in Frames
  /\ Control \in Tasks /\ Control \notin Ports /\ Free \notin Tasks /\ Ports \subseteq Tasks
  /\ 1 \in Tasks
BY QueueAssumption DEF NoFrame, Frame, Frames, Tasks, Control, Ports, Free

LEMMA CurveType ==
  \A f \in Curves : f \in Frames /\ f.task \in Ports /\ f.curve = TRUE
<1>1. SUFFICES ASSUME NEW f \in Curves PROVE f \in Frames /\ f.task \in Ports /\ f.curve = TRUE
  OBVIOUS
<1>2. f.task \in Ports /\ f.curve = TRUE /\ f.n \in 1 .. MaxCurves
  BY Zenon DEF Curves
<1>3. f = [task |-> f.task, curve |-> f.curve, n |-> f.n] BY DEF Curves
<1>4. f.task \in Tasks /\ f.n \in Nat BY <1>2, FrameType, QueueAssumption
<1>. QED BY <1>2, <1>3, <1>4, Zenon DEF Frames

LEMMA TallyType ==
  \A counts \in Counts, c \in BOOLEAN : Tally(counts, c) \in Nat
BY QueueAssumption DEF Counts, Tally

\* A frame that is older stays older when its task takes up a younger frame,
\* or is done with the one it had.
LEMMA OlderKept ==
  ASSUME NEW f \in Frames, NEW m1 \in Counts, NEW m2 \in Counts, NEW j1 \in Job, NEW j2 \in Job,
         Older(f, m1, j1), Tally(m1, f.curve) <= Tally(m2, f.curve),
         \/ j2.pc = "idle"
         \/ j1.pc # "idle" /\ j2.frame = j1.frame
         \/ j2.frame.curve = f.curve => j2.frame.n > Tally(m1, f.curve)
         \/ j2 = j1
  PROVE  Older(f, m2, j2)
<1>1. f.n \in Nat /\ f.curve \in BOOLEAN /\ j2.frame.n \in Nat BY DEF Frames, Job
<1>2. Tally(m1, f.curve) \in Nat /\ Tally(m2, f.curve) \in Nat BY <1>1, TallyType
<1>. QED BY <1>1, <1>2 DEF Older

\* So is the youngest, once its task has put it in a queue.
LEMMA YoungestIsOlder ==
  ASSUME NEW f, NEW counts, NEW job, f.n \in Nat, f.n = Tally(counts, f.curve), job.pc = "idle"
  PROVE  Older(f, counts, job)
BY DEF Older

-------------------------------------------------------------------------------
(* Initial states. *)

\* The queues are empty and nobody is using them.
Empty ==
  /\ lock = Free /\ slots = NoSlots
  /\ fifo = EmptyFifo /\ head = 0 /\ tail = 0 /\ count = 0
  /\ enq = NoJobs /\ made = NothingMade /\ sender = Idle /\ sent = NothingMade

LEMMA EmptyInv == Empty => QueueInv
<1>. SUFFICES ASSUME Empty PROVE QueueInv
  OBVIOUS
<1>. USE DEF Empty
<1>1. /\ \A t \in Tasks : /\ slots[t] = [ready |-> FALSE, frame |-> NoFrame, reset_flag |-> 0]
                          /\ enq[t] = [pc |-> "idle", frame |-> NoFrame, reset_flag |-> 0]
      /\ \A p \in Ports : made[p] = [rt |-> 0, curve |-> 0] /\ sent[p] = [rt |-> 0, curve |-> 0]
  BY DEF NoSlots, NoJobs, NoJob, NothingMade
<1>2. QueueTypeOK
  <2>1. slots \in [Tasks -> Slot] BY FrameType DEF NoSlots, Slot
  <2>2. fifo \in [0 .. (Depth - 1) -> [frame : Frames \cup {Partial}, reset_flag : Nat]]
    BY FrameType DEF EmptyFifo
  <2>3. enq \in [Tasks -> [pc : {"idle", "lock", "copy"}, frame : Frames, reset_flag : Nat]]
    BY FrameType DEF NoJobs, NoJob
  <2>4. /\ made \in [Ports -> [rt : 0 .. MaxRealtime, curve : 0 .. MaxCurves]]
        /\ sent \in [Ports -> [rt : 0 .. MaxRealtime, curve : 0 .. MaxCurves]]
    BY QueueAssumption DEF NothingMade
  <2>5. sender \in [pc : {"idle", "scan", "write", "fifo"}, slot : Tasks,
                    frame : Frames \cup {Partial}, reset_flag : Nat, tries : 0 .. RetryCount]
    BY FrameType, QueueAssumption DEF Idle
  <2>. QED BY <2>1, <2>2, <2>3, <2>4, <2>5, QueueAssumption DEF QueueTypeOK
<1>3. LockInv BY <1>1, FrameType DEF LockInv
<1>4. EnqInv BY <1>1 DEF EnqInv
<1>5. SlotInv
  <2>1. NoFrame # Partial BY FrameType, PartialAssumption
  <2>2. \A t \in Tasks : slots[t].frame # Partial /\ ~slots[t].ready BY <1>1, <2>1
  <2>. QED BY <2>2 DEF SlotInv
<1>6. IndexInv /\ RingInv BY <1>1, QueueAssumption DEF IndexInv, RingInv, Place, At
<1>7. SenderInv BY FrameType DEF SenderInv, Idle
<1>8. SentInv BY <1>1, FrameType DEF SentInv, Tally
<1>. QED BY <1>2, <1>3, <1>4, <1>5, <1>6, <1>7, <1>8 DEF QueueInv

-------------------------------------------------------------------------------
(* Steps of the tasks that make frames. *)

\* A task takes up a frame that is younger than all it made.
LEMMA MakeKeeps ==
  ASSUME QueueInv, NEW t \in Tasks, NEW f \in Frames, NEW flag \in Nat,
         enq[t].pc = "idle", Enqueue(t, f, flag), f.task = t, t = Control => ~f.curve,
         made' \in [Ports -> Counts],
         \A p \in Ports, c \in BOOLEAN : Tally(made'[p], c) =
           IF p = t /\ c = f.curve THEN Tally(made[p], c) + 1 ELSE Tally(made[p], c),
         t \in Ports => f.n = Tally(made[t], f.curve) + 1,
         UNCHANGED <<lock, slots, ringVars, sender, sent>>
  PROVE  QueueInv'
<1>. USE DEF QueueInv, ringVars
<1>1. \A u \in Tasks :
        enq'[u] = IF u = t THEN [pc |-> "lock", frame |-> f, reset_flag |-> flag] ELSE enq[u]
  BY DEF Enqueue, QueueTypeOK
<1>2. enq' \in [Tasks -> Job] BY DEF Enqueue, QueueTypeOK, Job
<1>3. QueueTypeOK' BY <1>2 DEF QueueTypeOK, Job, Counts
<1>4. f.curve \in BOOLEAN /\ f.n \in Nat BY DEF Frames
<1>5. \A p \in Ports, c \in BOOLEAN : /\ Tally(made[p], c) \in Nat /\ Tally(sent[p], c) \in Nat
                                      /\ Tally(made'[p], c) >= Tally(made[p], c)
  <2>1. \A p \in Ports : made[p] \in Counts /\ sent[p] \in Counts
    BY DEF QueueTypeOK, Counts
  <2>. QED BY <2>1, TallyType, <1>4

<1>6. \A p \in Ports, g \in Frames : Older(g, made[p], enq[p]) => Older(g, made'[p], enq'[p])
  <2>1. SUFFICES ASSUME NEW p \in Ports, NEW g \in Frames, Older(g, made[p], enq[p])
                 PROVE  Older(g, made'[p], enq'[p])
    OBVIOUS
  <2>2. g.curve \in BOOLEAN BY DEF Frames
  <2>3. enq[p] \in Job /\ enq'[p] \in Job /\ made[p] \in Counts /\ made'[p] \in Counts
    BY <1>2, FrameType DEF QueueTypeOK, Counts, Job
  <2>4. CASE p = t
    <3>1. enq'[p].frame.curve = g.curve => enq'[p].frame.n > Tally(made[p], g.curve)
      BY <1>1, <1>5, <2>2, <2>4
    <3>. QED BY <1>5, <2>1, <2>2, <2>3, <3>1, OlderKept
  <2>5. CASE p # t
    <3>1. enq'[p] = enq[p] BY <1>1, <2>5, FrameType
    <3>. QED BY <1>5, <2>1, <2>2, <2>3, <3>1, OlderKept
  <2>. QED BY <2>4, <2>5
<1>7. LockInv' BY <1>1, FrameType DEF LockInv
<1>8. EnqInv'
  <2>1. SUFFICES ASSUME NEW u \in Tasks, enq'[u].pc # "idle"
                 PROVE  /\ enq'[u].frame.task = u
                        /\ u = Control => ~enq'[u].frame.curve
                        /\ u \in Ports =>
                             /\ enq'[u].frame.n = Tally(made'[u], enq'[u].frame.curve)
                             /\ enq'[u].frame.n > Tally(sent[u], enq'[u].frame.curve)
    BY DEF EnqInv
  <2>2. CASE u = t
    <3>1. enq'[u].frame = f BY <1>1, <2>2
    <3>2. u \in Ports => Tally(sent[u], f.curve) <= Tally(made[u], f.curve)
      BY <1>4 DEF SentInv
    <3>. QED BY <1>5, <1>4, <2>2, <3>1, <3>2
  <2>3. CASE u # t
    <3>1. enq'[u] = enq[u] /\ enq[u].frame.curve \in BOOLEAN
      BY <1>1, <2>3 DEF QueueTypeOK, Frames
    <3>. QED BY <1>5, <2>1, <2>3, <3>1 DEF EnqInv
  <2>. QED BY <2>2, <2>3
<1>9. SlotInv'
  <2>1. SUFFICES ASSUME NEW u \in Tasks
                 PROVE  /\ slots[u].frame = Partial => enq'[u].pc = "copy" /\ ~enq'[u].frame.curve
                        /\ slots[u].ready /\ slots[u].frame # Partial =>
                             /\ slots[u].frame.task = u /\ ~slots[u].frame.curve
                             /\ u \in Ports => /\ Older(slots[u].frame, made'[u], enq'[u])
                                               /\ slots[u].frame.n > Tally(sent[u], FALSE)
    BY DEF SlotInv
  <2>2. slots[u].frame = Partial => enq'[u].pc = "copy" /\ ~enq'[u].frame.curve
    BY <1>1 DEF SlotInv
  <2>3. slots[u].frame \in Frames \cup {Partial} BY DEF QueueTypeOK, Slot
  <2>. QED BY <1>6, <2>2, <2>3 DEF SlotInv
<1>10. IndexInv' BY <1>1 DEF IndexInv, Place, At
<1>11. RingInv' BY <1>6, CurveType DEF RingInv, Place, At
<1>12. SenderInv' BY <1>6 DEF SenderInv, Place, At
<1>13. SentInv'
  <2>1. SUFFICES ASSUME NEW p \in Ports, NEW c \in BOOLEAN
                 PROVE  Tally(sent[p], c) <= Tally(made'[p], c)
    BY DEF SentInv
  <2>. QED BY <1>5 DEF SentInv
<1>. QED BY <1>3, <1>7, <1>8, <1>9, <1>10, <1>11, <1>12, <1>13

\* The places of the ring that hold a curve are places, and not the free one.
LEMMA PlaceFacts ==
  ASSUME QueueTypeOK
  PROVE  /\ \A i \in 0 .. Depth : Place(i) \in 0 .. (Depth - 1)
         /\ \A i, j \in 0 .. (Depth - 1) : Place(i) = Place(j) => i = j
<1>1. head \in 0 .. (Depth - 1) BY DEF QueueTypeOK
<1>. QED BY <1>1, AtFacts, AtInjective DEF Place

\* Taking the mutex, or giving it back, keeps what is older.
LEMMA OldersKept ==
  ASSUME QueueTypeOK, NEW t \in Tasks, enq[t].pc # "idle",
         Locks(t) \/ Gives(t), made' = made
  PROVE  /\ enq' \in [Tasks -> Job]
         /\ \A p \in Ports, g \in Frames : Older(g, made[p], enq[p]) => Older(g, made'[p], enq'[p])
<1>1. enq \in [Tasks -> Job] /\ made \in [Ports -> Counts] BY DEF QueueTypeOK, Job, Counts
<1>2. NoJob \in Job BY FrameType DEF NoJob, Job
<1>3. enq' \in [Tasks -> Job]
  BY <1>1, <1>2 DEF Locks, Gives, Job
<1>4. ASSUME NEW p \in Ports, NEW g \in Frames, Older(g, made[p], enq[p])
      PROVE  Older(g, made'[p], enq'[p])
  <2>1. \/ enq'[p] = enq[p]
        \/ enq'[p].pc = "idle"
        \/ enq[p].pc # "idle" /\ enq'[p].frame = enq[p].frame
    BY <1>1, FrameType DEF Locks, Gives, Job, NoJob
  <2>2. p \in Tasks BY FrameType
  <2>3. g.curve \in BOOLEAN BY DEF Frames
  <2>4. enq[p] \in Job /\ enq'[p] \in Job /\ made[p] \in Counts /\ made'[p] = made[p] BY <1>1, <1>3, <2>2
  <2>5. Tally(made[p], g.curve) \in Nat BY TallyType, <2>3, <2>4
  <2>6. Tally(made[p], g.curve) <= Tally(made'[p], g.curve) BY <2>4, <2>5
  <2>. QED BY <1>4, <2>1, <2>4, <2>6, OlderKept
<1>. QED BY <1>3, <1>4

LEMMA AddBeginKeeps ==
  ASSUME QueueInv, NEW t \in Tasks, add_begin(t)
  PROVE  QueueInv'
<1>. USE DEF QueueInv, add_begin, CanLock, ringVars
<1>1. /\ enq' \in [Tasks -> Job]
      /\ \A p \in Ports, g \in Frames : Older(g, made[p], enq[p]) => Older(g, made'[p], enq'[p])
  BY OldersKept
<1>2. \A u \in Tasks : enq'[u] = IF u = t THEN [enq[u] EXCEPT !.pc = "copy"] ELSE enq[u]
  BY DEF Locks, QueueTypeOK
<1>3. /\ slots' \in [Tasks -> Slot]
      /\ \A u \in Tasks : /\ u = t => slots'[u].frame = Partial
                          /\ u # t => slots'[u] = slots[u]
  <2>1. slots \in [Tasks -> Slot] /\ enq[t].reset_flag \in Nat BY DEF QueueTypeOK
  <2>2. slots' = [slots EXCEPT ![t] =
                   [slots[t] EXCEPT !.frame = Partial, !.reset_flag = enq[t].reset_flag]]
    BY <2>1 DEF Slot
  <2>. QED BY <2>1, <2>2 DEF Slot
<1>4. QueueTypeOK' BY <1>1, <1>3 DEF QueueTypeOK, Job, Locks
<1>5. \A u \in Tasks : /\ enq'[u].frame = enq[u].frame
                       /\ enq'[u].pc = "copy" <=> u = t
                       /\ enq'[u].pc # "idle" => enq[u].pc # "idle"
  BY <1>2, FrameType DEF QueueTypeOK, LockInv
<1>6. LockInv' BY <1>5, FrameType DEF LockInv, Locks
<1>7. EnqInv' BY <1>5 DEF EnqInv
<1>8. SlotInv'
  <2>1. \A u \in Tasks : u # t => slots[u].frame # Partial
    BY FrameType DEF SlotInv, LockInv
  <2>2. \A u \in Tasks : slots[u].frame \in Frames \cup {Partial} BY DEF QueueTypeOK, Slot
  <2>3. SUFFICES ASSUME NEW u \in Tasks
                 PROVE  /\ slots'[u].frame = Partial => enq'[u].pc = "copy" /\ ~enq'[u].frame.curve
                        /\ slots'[u].ready /\ slots'[u].frame # Partial =>
                             /\ slots'[u].frame.task = u /\ ~slots'[u].frame.curve
                             /\ u \in Ports => /\ Older(slots'[u].frame, made'[u], enq'[u])
                                               /\ slots'[u].frame.n > Tally(sent[u], FALSE)
    BY DEF SlotInv
  <2>4. CASE u = t BY <1>3, <1>5, <2>4
  <2>5. CASE u # t BY <1>1, <1>3, <2>1, <2>2, <2>5 DEF SlotInv
  <2>. QED BY <2>4, <2>5
<1>9. IndexInv' BY <1>5 DEF IndexInv, Place, At
<1>10. RingInv' BY <1>1, CurveType DEF RingInv, Place, At
<1>11. SenderInv' BY <1>1, <1>3, FrameType DEF SenderInv, Place, At
<1>12. SentInv' BY DEF SentInv
<1>. QED BY <1>4, <1>6, <1>7, <1>8, <1>9, <1>10, <1>11, <1>12

LEMMA AddEndKeeps ==
  ASSUME QueueInv, NEW t \in Tasks, add_end(t)
  PROVE  QueueInv'
<1>. USE DEF QueueInv, add_end, ringVars
<1>1. /\ enq' \in [Tasks -> Job]
      /\ \A p \in Ports, g \in Frames : Older(g, made[p], enq[p]) => Older(g, made'[p], enq'[p])
  BY OldersKept
<1>2. \A u \in Tasks : enq'[u] = IF u = t THEN NoJob ELSE enq[u]
  BY DEF Gives, QueueTypeOK
<1>3. /\ slots' \in [Tasks -> Slot]
      /\ \A u \in Tasks : /\ u = t => slots'[u].frame = enq[t].frame
                          /\ u # t => slots'[u] = slots[u]
  <2>1. slots \in [Tasks -> Slot] /\ enq[t].frame \in Frames BY DEF QueueTypeOK
  <2>2. slots' = [slots EXCEPT ![t] = [slots[t] EXCEPT !.frame = enq[t].frame, !.ready = TRUE]]
    BY <2>1 DEF Slot
  <2>. QED BY <2>1, <2>2 DEF Slot
<1>4. QueueTypeOK' BY <1>1, <1>3 DEF QueueTypeOK, Job, Gives
<1>5. \A u \in Tasks : /\ enq'[u].pc # "copy"
                       /\ enq'[u].pc # "idle" => enq'[u] = enq[u]
  BY <1>2 DEF QueueTypeOK, LockInv, NoJob
<1>6. LockInv' BY <1>5, FrameType DEF LockInv, Gives
<1>7. EnqInv' BY <1>5 DEF EnqInv
<1>8. /\ enq[t].frame \in Frames /\ enq[t].frame # Partial
      /\ enq[t].frame.task = t /\ ~enq[t].frame.curve
      /\ t \in Ports => /\ Older(enq[t].frame, made[t], enq'[t])
                        /\ enq[t].frame.n > Tally(sent[t], FALSE)
  <2>1. enq[t].frame \in Frames /\ enq[t].frame # Partial
    BY PartialAssumption DEF QueueTypeOK
  <2>2. enq[t].frame.task = t /\ ~enq[t].frame.curve BY DEF EnqInv
  <2>3. enq[t].frame.curve = FALSE BY <2>1, <2>2 DEF Frames
  <2>4. ASSUME t \in Ports
        PROVE  enq[t].frame.n = Tally(made[t], FALSE) /\ enq[t].frame.n > Tally(sent[t], FALSE)
    BY <2>3, <2>4 DEF EnqInv
  <2>5. enq[t].frame.n \in Nat BY <2>1 DEF Frames
  <2>6. enq'[t].pc = "idle" BY <1>2 DEF NoJob
  <2>7. ASSUME t \in Ports PROVE Older(enq[t].frame, made[t], enq'[t])
    <3>1. enq[t].frame.n = Tally(made[t], enq[t].frame.curve) BY <2>3, <2>4, <2>7
    <3>. QED BY <2>5, <2>6, <3>1, YoungestIsOlder
  <2>. QED BY <2>1, <2>2, <2>4, <2>7
<1>9. SlotInv'
  <2>1. \A u \in Tasks : u # t => slots[u].frame # Partial
    BY FrameType DEF SlotInv, LockInv
  <2>2. \A u \in Tasks : slots[u].frame \in Frames \cup {Partial} BY DEF QueueTypeOK, Slot
  <2>3. SUFFICES ASSUME NEW u \in Tasks
                 PROVE  /\ slots'[u].frame = Partial => enq'[u].pc = "copy" /\ ~enq'[u].frame.curve
                        /\ slots'[u].ready /\ slots'[u].frame # Partial =>
                             /\ slots'[u].frame.task = u /\ ~slots'[u].frame.curve
                             /\ u \in Ports => /\ Older(slots'[u].frame, made'[u], enq'[u])
                                               /\ slots'[u].frame.n > Tally(sent[u], FALSE)
    BY DEF SlotInv
  <2>4. CASE u = t BY <1>3, <1>8, <2>4
  <2>5. CASE u # t BY <1>1, <1>3, <2>1, <2>2, <2>5 DEF SlotInv
  <2>. QED BY <2>4, <2>5
<1>10. IndexInv' BY <1>5 DEF IndexInv, Place, At
<1>11. RingInv' BY <1>1, CurveType DEF RingInv, Place, At
<1>12. SenderInv'
  <2>1. ASSUME sender.pc = "write", t \in Ports, sender.frame.task = t, ~sender.frame.curve
        PROVE  enq[t].frame.n > sender.frame.n
    <3>1. sender.frame.curve = FALSE /\ enq[t].frame.curve = FALSE
      BY <1>8, <2>1 DEF SenderInv, Frames
    <3>2. Older(sender.frame, made[t], enq[t]) BY <2>1 DEF SenderInv
    <3>3. sender.frame.n \in Nat /\ enq[t].frame.n \in Nat BY <1>8 DEF SenderInv, Frames
    <3>. QED BY <3>1, <3>2, <3>3 DEF Older
  <2>. QED BY <1>1, <1>3, <2>1, FrameType DEF SenderInv, Place, At
<1>13. SentInv' BY DEF SentInv
<1>. QED BY <1>4, <1>6, <1>7, <1>9, <1>10, <1>11, <1>12, <1>13

LEMMA AddCurveBeginKeeps ==
  ASSUME QueueInv, NEW t \in Tasks, add_curve_begin(t)
  PROVE  QueueInv'
<1>. USE DEF QueueInv, add_curve_begin, CanLock
<1>1. /\ enq' \in [Tasks -> Job]
      /\ \A p \in Ports, g \in Frames : Older(g, made[p], enq[p]) => Older(g, made'[p], enq'[p])
  BY OldersKept
<1>2. \A u \in Tasks : enq'[u] = IF u = t THEN [enq[u] EXCEPT !.pc = "copy"] ELSE enq[u]
  BY DEF Locks, QueueTypeOK
<1>3. fifo' \in [0 .. (Depth - 1) -> [frame : Frames \cup {Partial}, reset_flag : Nat]]
  <2>1. enq[t].reset_flag \in Nat BY DEF QueueTypeOK
  <2>. QED BY <2>1 DEF QueueTypeOK
<1>4. QueueTypeOK' BY <1>1, <1>3 DEF QueueTypeOK, Job, Locks
<1>5. \A u \in Tasks : /\ enq'[u].frame = enq[u].frame
                       /\ enq'[u].pc = "copy" <=> u = t
                       /\ enq'[u].pc # "idle" => enq[u].pc # "idle"
  <2>1. SUFFICES ASSUME NEW u \in Tasks
                 PROVE  /\ enq'[u].frame = enq[u].frame
                        /\ enq'[u].pc = "copy" <=> u = t
                        /\ enq'[u].pc # "idle" => enq[u].pc # "idle"
    OBVIOUS
  <2>2. enq[u] \in Job BY DEF QueueTypeOK, Job
  <2>3. CASE u = t
    <3>1. enq'[u] = [enq[u] EXCEPT !.pc = "copy"] BY <1>2, <2>3
    <3>2. enq'[u].frame = enq[u].frame /\ enq'[u].pc = "copy" BY <2>2, <3>1 DEF Job
    <3>3. enq[u].pc # "idle" BY <2>3
    <3>. QED BY <2>3, <3>2, <3>3
  <2>4. CASE u # t
    <3>1. enq'[u] = enq[u] BY <1>2, <2>4
    <3>2. enq[u].pc # "copy" BY FrameType DEF LockInv
    <3>. QED BY <2>4, <3>1, <3>2
  <2>. QED BY <2>3, <2>4
<1>6. \A i \in 0 .. (count - 1) : fifo'[Place(i)] = fifo[Place(i)]
  <2>1. SUFFICES ASSUME NEW i \in 0 .. (count - 1) PROVE fifo'[Place(i)] = fifo[Place(i)]
    OBVIOUS
  <2>2. /\ i \in 0 .. (Depth - 1) /\ count \in 0 .. (Depth - 1) /\ i # count
        /\ i \in 0 .. Depth
    BY QueueAssumption DEF QueueTypeOK
  <2>3. Place(i) # Place(count) /\ Place(i) \in 0 .. (Depth - 1)
    BY <2>2, PlaceFacts
  <2>. QED BY <2>3 DEF IndexInv, QueueTypeOK
<1>7. LockInv' BY <1>5, FrameType DEF LockInv, Locks
<1>8. EnqInv' BY <1>5 DEF EnqInv
<1>9. SlotInv'
  <2>1. \A u \in Tasks : slots[u].frame # Partial
    BY FrameType DEF SlotInv, LockInv
  <2>2. \A u \in Tasks : slots[u].frame \in Frames \cup {Partial} BY DEF QueueTypeOK, Slot
  <2>. QED BY <1>1, <2>1, <2>2 DEF SlotInv
<1>10. IndexInv' BY <1>5 DEF IndexInv, Place, At
<1>11. RingInv'
  <2>1. SUFFICES ASSUME NEW i \in 0 .. (count - 1)
                 PROVE  LET f == fifo'[Place(i)].frame IN
                        /\ f \in Curves /\ f.n > Tally(sent[f.task], TRUE)
                        /\ Older(f, made'[f.task], enq'[f.task])
                        /\ \A j \in 0 .. (i - 1) :
                             fifo'[Place(j)].frame.task = f.task => fifo'[Place(j)].frame.n < f.n
    BY DEF RingInv, Place, At
  <2>2. \A j \in 0 .. (i - 1) : fifo'[Place(j)] = fifo[Place(j)]
    BY <1>6, QueueAssumption DEF QueueTypeOK
  <2>. QED BY <1>1, <1>6, <2>2, CurveType DEF RingInv
<1>12. SenderInv' BY <1>1, <1>6 DEF SenderInv, Place, At
<1>13. SentInv' BY DEF SentInv
<1>. QED BY <1>4, <1>7, <1>8, <1>9, <1>10, <1>11, <1>12, <1>13

\* The frame a task copies into the ring is a curve, its youngest, and younger
\* than what the send task holds and what the ring holds of the same task.
LEMMA CurveCopied ==
  ASSUME QueueInv, NEW t \in Tasks, enq[t].pc # "idle", enq[t].frame.curve
  PROVE  /\ enq[t].frame \in Curves /\ enq[t].frame.task = t /\ t \in Ports
         /\ enq[t].frame.n = Tally(made[t], TRUE)
         /\ enq[t].frame.n > Tally(sent[t], TRUE)
         /\ \A f \in Frames : f.curve /\ Older(f, made[t], enq[t]) => f.n < enq[t].frame.n
<1>. USE DEF QueueInv
<1>1. enq[t].frame \in Frames /\ enq[t].frame.curve = TRUE BY DEF QueueTypeOK, Frames
<1>2. enq[t].frame.task = t /\ t \in Ports BY DEF EnqInv, Tasks
<1>3. /\ enq[t].frame.n = Tally(made[t], TRUE)
      /\ enq[t].frame.n > Tally(sent[t], TRUE)
  BY <1>1, <1>2 DEF EnqInv
<1>4. made[t] \in Counts /\ sent[t] \in Counts BY <1>2 DEF QueueTypeOK, Counts
<1>5. Tally(made[t], TRUE) \in 0 .. MaxCurves /\ Tally(sent[t], TRUE) \in Nat
  BY <1>4, TallyType DEF Counts, Tally
<1>6. enq[t].frame.n \in 1 .. MaxCurves
  <2>1. PICK a \in 0 .. MaxCurves : a = Tally(made[t], TRUE) BY <1>5
  <2>2. PICK b \in Nat : b = Tally(sent[t], TRUE) BY <1>5
  <2>3. a > b BY <1>3, <2>1, <2>2
  <2>4. a \in 1 .. MaxCurves BY <2>3, QueueAssumption
  <2>. QED BY <1>3, <2>1, <2>4
<1>7. enq[t].frame \in Curves
  <2>1. enq[t].frame = [task |-> enq[t].frame.task, curve |-> enq[t].frame.curve,
                        n |-> enq[t].frame.n]
    BY <1>1 DEF Frames
  <2>. QED BY <1>1, <1>2, <1>6, <2>1, Zenon DEF Curves
<1>8. ASSUME NEW f \in Frames, f.curve, Older(f, made[t], enq[t]) PROVE f.n < enq[t].frame.n
  <2>1. f.curve = TRUE BY <1>8 DEF Frames
  <2>. QED BY <1>1, <1>8, <2>1 DEF Older
<1>. QED BY <1>2, <1>3, <1>7, <1>8

LEMMA AddCurveEndKeeps ==
  ASSUME QueueInv, NEW t \in Tasks, add_curve_end(t)
  PROVE  QueueInv'
<1>. USE DEF QueueInv, add_curve_end
<1>1. /\ enq' \in [Tasks -> Job]
      /\ \A p \in Ports, g \in Frames : Older(g, made[p], enq[p]) => Older(g, made'[p], enq'[p])
  BY OldersKept
<1>2. \A u \in Tasks : enq'[u] = IF u = t THEN NoJob ELSE enq[u]
  BY DEF Gives, QueueTypeOK
<1>3. /\ count < Depth /\ tail = Place(count) /\ count \in Nat
      /\ count \in 0 .. (Depth - 1) /\ head \in 0 .. (Depth - 1)
  BY QueueAssumption DEF IndexInv, QueueTypeOK
<1>4. tail' = Place(count + 1) /\ tail' \in 0 .. (Depth - 1)
  <2>1. (At(head, count) + 1) % Depth = At(head, count + 1) BY <1>3, AtMoves
  <2>2. count + 1 \in 0 .. Depth BY <1>3, QueueAssumption
  <2>. QED BY <1>3, <2>1, <2>2, PlaceFacts DEF Place
<1>5. fifo' \in [0 .. (Depth - 1) -> [frame : Frames \cup {Partial}, reset_flag : Nat]]
  <2>1. enq[t].frame \in Frames BY DEF QueueTypeOK
  <2>. QED BY <2>1 DEF QueueTypeOK
<1>6. QueueTypeOK'
  <2>1. count' \in 0 .. Depth BY <1>3, QueueAssumption
  <2>. QED BY <1>1, <1>4, <1>5, <2>1 DEF QueueTypeOK, Job, Gives
<1>7. \A u \in Tasks : /\ enq'[u].pc # "copy"
                       /\ enq'[u].pc # "idle" => enq'[u] = enq[u]
  BY <1>2 DEF QueueTypeOK, LockInv, NoJob
<1>8. /\ fifo'[Place(count)].frame = enq[t].frame
      /\ \A i \in 0 .. (count - 1) : fifo'[Place(i)] = fifo[Place(i)]
  <2>1. \A i \in 0 .. (count - 1) : /\ Place(i) # Place(count)
                                    /\ Place(i) \in 0 .. (Depth - 1)
    <3>1. SUFFICES ASSUME NEW i \in 0 .. (count - 1)
                   PROVE  Place(i) # Place(count) /\ Place(i) \in 0 .. (Depth - 1)
      OBVIOUS
    <3>2. i \in 0 .. (Depth - 1) /\ i \in 0 .. Depth /\ i # count BY <1>3, QueueAssumption
    <3>. QED BY <1>3, <3>2, PlaceFacts
  <2>. QED BY <1>3, <2>1 DEF QueueTypeOK
<1>9. LockInv' BY <1>7, FrameType DEF LockInv, Gives
<1>10. EnqInv' BY <1>7 DEF EnqInv
<1>11. SlotInv'
  <2>1. ASSUME NEW u \in Tasks, slots[u].frame = Partial PROVE FALSE
    <3>1. enq[u].pc = "copy" /\ ~enq[u].frame.curve BY <2>1 DEF SlotInv
    <3>2. u = lock /\ t = lock BY <3>1 DEF LockInv
    <3>. QED BY <3>1, <3>2
  <2>2. \A u \in Tasks : slots[u].frame \in Frames \cup {Partial} BY DEF QueueTypeOK, Slot
  <2>. QED BY <1>1, <2>1, <2>2 DEF SlotInv
<1>12. IndexInv' BY <1>3, <1>4, <1>7 DEF IndexInv, Place, At
<1>13. RingInv'
  <2>1. SUFFICES ASSUME NEW i \in 0 .. count
                 PROVE  LET f == fifo'[Place(i)].frame IN
                        /\ f \in Curves /\ f.n > Tally(sent[f.task], TRUE)
                        /\ Older(f, made'[f.task], enq'[f.task])
                        /\ \A j \in 0 .. (i - 1) :
                             fifo'[Place(j)].frame.task = f.task => fifo'[Place(j)].frame.n < f.n
    <3>1. count' = count + 1 /\ 0 .. (count' - 1) = 0 .. count BY <1>3
    <3>. QED BY <3>1 DEF RingInv, Place, At
  <2>2. \A j \in 0 .. (i - 1) : j \in 0 .. (count - 1) /\ fifo'[Place(j)] = fifo[Place(j)]
    BY <1>3, <1>8
  <2>3. CASE i \in 0 .. (count - 1) BY <1>1, <1>8, <2>2, <2>3, CurveType DEF RingInv
  <2>4. CASE i = count
    <3>1. /\ enq[t].frame \in Curves /\ enq[t].frame.task = t /\ t \in Ports
          /\ enq[t].frame.n = Tally(made[t], TRUE)
          /\ enq[t].frame.n > Tally(sent[t], TRUE)
          /\ \A f \in Frames : f.curve /\ Older(f, made[t], enq[t]) => f.n < enq[t].frame.n
      BY CurveCopied
    <3>2. fifo'[Place(i)].frame = enq[t].frame BY <1>8, <2>4
    <3>3. enq'[t].pc = "idle" BY <1>2 DEF NoJob
    <3>4. enq[t].frame.curve = TRUE /\ enq[t].frame.n \in Nat BY <3>1, CurveType DEF Frames
    <3>5. Older(enq[t].frame, made'[t], enq'[t])
      <4>1. enq[t].frame.n = Tally(made'[t], enq[t].frame.curve) BY <3>1, <3>4
      <4>2. enq[t].frame.n \in Nat BY <3>4
      <4>. QED BY <3>3, <4>1, <4>2, YoungestIsOlder
    <3>6. \A j \in 0 .. (i - 1) : fifo'[Place(j)].frame.task = t =>
            fifo'[Place(j)].frame.n < enq[t].frame.n
      BY <2>2, <3>1, CurveType DEF RingInv
    <3>7. fifo'[Place(i)].frame.task = t BY <3>1, <3>2
    <3>8. fifo'[Place(i)].frame \in Curves BY <3>1, <3>2
    <3>9. fifo'[Place(i)].frame.n > Tally(sent[t], TRUE) BY <3>1, <3>2
    <3>10. Older(fifo'[Place(i)].frame, made'[t], enq'[t]) BY <3>2, <3>5
    <3>11. \A j \in 0 .. (i - 1) : fifo'[Place(j)].frame.task = t =>
            fifo'[Place(j)].frame.n < fifo'[Place(i)].frame.n BY <3>2, <3>6
    <3>. QED BY <3>7, <3>8, <3>9, <3>10, <3>11
  <2>5. i \in 0 .. (count - 1) \/ i = count BY <1>3
  <2>. QED BY <2>3, <2>4, <2>5
<1>14. SenderInv'
  <2>1. SUFFICES ASSUME sender.pc = "write", sender.frame.task \in Ports
                 PROVE  /\ Older(sender.frame, made'[sender.frame.task], enq'[sender.frame.task])
                        /\ sender.frame.curve => \A i \in 0 .. count :
                             fifo'[Place(i)].frame.task = sender.frame.task =>
                               fifo'[Place(i)].frame.n > sender.frame.n
    BY <1>3 DEF SenderInv, Place, At
  <2>2. Older(sender.frame, made'[sender.frame.task], enq'[sender.frame.task])
    BY <1>1, <2>1 DEF SenderInv
  <2>3. ASSUME sender.frame.curve, NEW i \in 0 .. count,
               fifo'[Place(i)].frame.task = sender.frame.task
        PROVE  fifo'[Place(i)].frame.n > sender.frame.n
    <3>1. CASE i \in 0 .. (count - 1) BY <1>8, <2>1, <2>3, <3>1 DEF SenderInv
    <3>2. CASE i = count
      <4>1. fifo'[Place(i)].frame = enq[t].frame BY <1>8, <3>2
      <4>2. /\ enq[t].frame \in Curves /\ enq[t].frame.task = t
            /\ \A f \in Frames : f.curve /\ Older(f, made[t], enq[t]) => f.n < enq[t].frame.n
        BY CurveCopied
      <4>3. sender.frame \in Frames /\ Older(sender.frame, made[t], enq[t])
        BY <2>1, <2>3, <4>1, <4>2 DEF SenderInv
      <4>4. sender.frame.n \in Nat /\ enq[t].frame.n \in Nat
        BY <4>2, <4>3, CurveType DEF Frames
      <4>. QED BY <2>3, <4>1, <4>2, <4>3, <4>4
    <3>. QED BY <1>3, <3>1, <3>2
  <2>. QED BY <2>2, <2>3
<1>15. SentInv' BY DEF SentInv
<1>. QED BY <1>6, <1>9, <1>10, <1>11, <1>12, <1>13, <1>14, <1>15

-------------------------------------------------------------------------------
(* Steps of the send task. *)

SenderType == [pc : {"idle", "scan", "write", "fifo"}, slot : Tasks,
               frame : Frames \cup {Partial}, reset_flag : Nat, tries : 0 .. RetryCount]

\* What the send task becomes when it is done with a frame.
LEMMA NextSlotType ==
  ASSUME QueueTypeOK
  PROVE  /\ Idle \in SenderType /\ Idle.frame = NoFrame /\ Idle.pc = "idle"
         /\ [Idle EXCEPT !.pc = "scan"] \in SenderType /\ [Idle EXCEPT !.pc = "scan"].frame = NoFrame
         /\ NextSlot \in SenderType /\ NextSlot.frame = NoFrame /\ NextSlot.pc # "write"
         /\ [HandsEmpty EXCEPT !.pc = "fifo"] \in SenderType
         /\ [HandsEmpty EXCEPT !.pc = "fifo"].frame = NoFrame
<1>1. sender \in SenderType BY DEF QueueTypeOK, SenderType
<1>2. sender.slot \in Tasks /\ (sender.slot < Control => sender.slot + 1 \in Tasks)
  BY <1>1, QueueAssumption DEF SenderType, Tasks, Ports, Control
<1>3. NoFrame \in Frames \cup {Partial} /\ 0 \in 0 .. RetryCount /\ 1 \in Tasks
  BY FrameType, QueueAssumption
<1>4. /\ Idle \in SenderType /\ Idle.frame = NoFrame /\ Idle.pc = "idle"
      /\ [Idle EXCEPT !.pc = "scan"] \in SenderType /\ [Idle EXCEPT !.pc = "scan"].frame = NoFrame
  BY <1>3 DEF Idle, SenderType
<1>5. HandsEmpty \in SenderType /\ HandsEmpty.frame = NoFrame /\ HandsEmpty.slot = sender.slot
  BY <1>1, <1>3 DEF HandsEmpty, SenderType
<1>6. /\ [HandsEmpty EXCEPT !.pc = "fifo"] \in SenderType
      /\ [HandsEmpty EXCEPT !.pc = "fifo"].frame = NoFrame
      /\ [HandsEmpty EXCEPT !.pc = "fifo"].pc # "write"
  BY <1>5 DEF SenderType
<1>7. ASSUME sender.slot < Control
      PROVE  /\ [HandsEmpty EXCEPT !.pc = "scan", !.slot = @ + 1] \in SenderType
             /\ [HandsEmpty EXCEPT !.pc = "scan", !.slot = @ + 1].frame = NoFrame
             /\ [HandsEmpty EXCEPT !.pc = "scan", !.slot = @ + 1].pc # "write"
  BY <1>2, <1>5, <1>7 DEF SenderType
<1>. QED BY <1>4, <1>6, <1>7 DEF NextSlot

\* The send task goes on with the frame it has, or without one.
LEMMA SenderMoves ==
  ASSUME QueueInv, sender' \in SenderType, sender'.frame \in Frames,
         sender'.pc = "write" => sender.pc = "write" /\ sender'.frame = sender.frame,
         UNCHANGED <<lock, slots, ringVars, enq, made, sent>>
  PROVE  QueueInv'
<1>. USE DEF QueueInv, ringVars
<1>1. QueueTypeOK' BY DEF QueueTypeOK, SenderType
<1>2. LockInv' /\ EnqInv' /\ SlotInv' /\ SentInv'
  BY DEF LockInv, EnqInv, SlotInv, SentInv
<1>3. IndexInv' /\ RingInv' BY DEF IndexInv, RingInv, Place, At
<1>4. SenderInv' BY DEF SenderInv, Place, At
<1>. QED BY <1>1, <1>2, <1>3, <1>4

LEMMA TakeSlotKeeps ==
  ASSUME QueueInv, TakeSlot
  PROVE  QueueInv'
<1>. DEFINE s == sender.slot
            f == slots[s].frame
<1>. USE DEF QueueInv, TakeSlot, ringVars
<1>1. s \in Tasks /\ f \in Frames \cup {Partial} /\ NoFrame # Partial /\ slots[s].reset_flag \in Nat
  BY FrameType, PartialAssumption DEF QueueTypeOK, Slot
<1>2. f # Partial /\ f \in Frames
  BY <1>1, FrameType DEF SlotInv, LockInv
<1>3. /\ slots' \in [Tasks -> Slot]
      /\ \A u \in Tasks : /\ u = s => ~slots'[u].ready /\ slots'[u].frame = NoFrame
                          /\ u # s => slots'[u] = slots[u]
  <2>1. slots \in [Tasks -> Slot] BY DEF QueueTypeOK
  <2>2. slots' = [slots EXCEPT ![s] = [slots[s] EXCEPT !.ready = FALSE, !.frame = NoFrame]]
    BY <1>1, <2>1 DEF Slot
  <2>3. [slots[s] EXCEPT !.ready = FALSE, !.frame = NoFrame] \in Slot
    BY <1>1, <2>1, FrameType DEF Slot
  <2>4. [slots[s] EXCEPT !.ready = FALSE, !.frame = NoFrame].frame = NoFrame
        /\ ~[slots[s] EXCEPT !.ready = FALSE, !.frame = NoFrame].ready
    BY <1>1, <2>1 DEF Slot
  <2>. HIDE DEF s
  <2>. QED BY <1>1, <2>1, <2>2, <2>3, <2>4
<1>4. sender' \in SenderType /\ sender'.frame = f
  <2>1. sender \in SenderType /\ 0 \in 0 .. RetryCount
    BY QueueAssumption DEF QueueTypeOK, SenderType
  <2>. QED BY <1>1, <2>1 DEF SenderType
<1>5. QueueTypeOK' BY <1>3, <1>4 DEF QueueTypeOK, SenderType
<1>6. LockInv' /\ EnqInv' /\ SentInv' BY DEF LockInv, EnqInv, SentInv
<1>7. IndexInv' /\ RingInv' BY DEF IndexInv, RingInv, Place, At
<1>8. SlotInv'
  <2>1. SUFFICES ASSUME NEW u \in Tasks
                 PROVE  /\ slots'[u].frame = Partial => enq[u].pc = "copy" /\ ~enq[u].frame.curve
                        /\ slots'[u].ready /\ slots'[u].frame # Partial =>
                             /\ slots'[u].frame.task = u /\ ~slots'[u].frame.curve
                             /\ u \in Ports => /\ Older(slots'[u].frame, made[u], enq[u])
                                               /\ slots'[u].frame.n > Tally(sent[u], FALSE)
    BY DEF SlotInv
  <2>2. CASE u = s BY <1>1, <1>3, <2>2
  <2>3. CASE u # s BY <1>3, <2>3 DEF SlotInv
  <2>. QED BY <2>2, <2>3
<1>9. SenderInv'
  <2>1. f.task = s /\ ~f.curve
        /\ (s \in Ports => Older(f, made[s], enq[s]) /\ f.n > Tally(sent[s], FALSE))
    BY <1>1, <1>2 DEF SlotInv
  <2>2. f.curve = FALSE BY <1>2, <2>1 DEF Frames
  <2>3. ~slots'[s].ready BY <1>1, <1>3
  <2>. QED BY <1>2, <1>4, <2>1, <2>2, <2>3 DEF SenderInv
<1>. QED BY <1>5, <1>6, <1>7, <1>8, <1>9

LEMMA TakeCurveKeeps ==
  ASSUME QueueInv, TakeCurve
  PROVE  QueueInv'
<1>. USE DEF QueueInv, TakeCurve
<1>1. /\ count \in 1 .. Depth /\ count - 1 \in 0 .. (Depth - 1) /\ head \in 0 .. (Depth - 1)
      /\ 0 \in 0 .. (count - 1) /\ 0 \in 0 .. (Depth - 1)
  BY QueueAssumption DEF QueueTypeOK
<1>2. head' \in 0 .. (Depth - 1) /\ Place(0) = head
  <2>1. head' = At(head, 1) /\ 1 \in 0 .. Depth /\ 0 \in 0 .. Depth BY QueueAssumption DEF At
  <2>2. At(head, 1) \in 0 .. (Depth - 1) BY <1>1, <2>1, AtFacts
  <2>3. At(head, 0) = IF head + 0 < Depth THEN head + 0 ELSE head + 0 - Depth
    BY <1>1, <2>1, AtFacts
  <2>4. head + 0 < Depth /\ head + 0 = head BY <1>1, QueueAssumption
  <2>. QED BY <2>1, <2>2, <2>3, <2>4 DEF Place
<1>3. \A i \in 0 .. (Depth - 1) : At(head', i) = Place(i + 1)
  BY <1>1, AtMoves DEF Place
<1>4. /\ fifo[head].frame \in Curves /\ fifo[head].frame \in Frames
      /\ fifo[head].frame.task \in Ports /\ fifo[head].frame.curve = TRUE
  BY <1>1, <1>2, CurveType DEF RingInv
<1>5. sender' \in SenderType /\ sender'.frame = fifo[head].frame /\ sender'.pc = "write"
  <2>1. sender \in SenderType /\ 0 \in 0 .. RetryCount /\ fifo[head].reset_flag \in Nat
    BY <1>1, QueueAssumption DEF QueueTypeOK, SenderType
  <2>. QED BY <1>4, <2>1 DEF SenderType
<1>6. QueueTypeOK'
  <2>1. count' \in 0 .. Depth BY <1>1, QueueAssumption
  <2>. QED BY <1>2, <1>5, <2>1 DEF QueueTypeOK, SenderType
<1>7. LockInv' /\ EnqInv' /\ SlotInv' /\ SentInv'
  BY DEF LockInv, EnqInv, SlotInv, SentInv
<1>8. IndexInv'
  <2>1. tail = At(head', count - 1)
    <3>1. count - 1 + 1 = count BY <1>1
    <3>. QED BY <1>1, <1>3, <3>1 DEF IndexInv
  <2>2. \A t \in Tasks : enq[t].pc = "copy" /\ enq[t].frame.curve => count - 1 < Depth
    BY <1>1, QueueAssumption
  <2>. QED BY <2>1, <2>2 DEF IndexInv, Place
<1>9. \A i \in 0 .. (count' - 1) : i + 1 \in 0 .. (count - 1) /\ i + 1 \in 1 .. (count - 1)
                                   /\ At(head', i) = Place(i + 1)
  <2>1. SUFFICES ASSUME NEW i \in 0 .. (count' - 1)
                 PROVE  i \in 0 .. (Depth - 1) /\ i + 1 \in 0 .. (count - 1) /\ i + 1 \in 1 .. (count - 1)
    BY <1>3
  <2>. QED BY <1>1, QueueAssumption
<1>10. RingInv'
  <2>1. SUFFICES ASSUME NEW i \in 0 .. (count' - 1)
                 PROVE  LET g == fifo[At(head', i)].frame IN
                        /\ g \in Curves /\ g.n > Tally(sent[g.task], TRUE)
                        /\ Older(g, made[g.task], enq[g.task])
                        /\ \A j \in 0 .. (i - 1) :
                             fifo[At(head', j)].frame.task = g.task => fifo[At(head', j)].frame.n < g.n
    BY DEF RingInv, Place
  <2>2. \A j \in 0 .. (i - 1) : j + 1 \in 0 .. (i + 1 - 1) /\ At(head', j) = Place(j + 1)
    BY <1>1, <1>9
  <2>3. PICK k \in 0 .. (count - 1) : k = i + 1 BY <1>9
  <2>4. LET g == fifo[Place(k)].frame IN
        /\ g \in Curves /\ g.n > Tally(sent[g.task], TRUE)
        /\ Older(g, made[g.task], enq[g.task])
        /\ \A j \in 0 .. (k - 1) :
             fifo[Place(j)].frame.task = g.task => fifo[Place(j)].frame.n < g.n
    BY DEF RingInv
  <2>5. At(head', i) = Place(k) /\ \A j \in 0 .. (i - 1) : j + 1 \in 0 .. (k - 1)
    BY <1>9, <2>2, <2>3
  <2>. QED BY <2>2, <2>4, <2>5
<1>11. SenderInv'
  <2>1. \A i \in 1 .. (count - 1) : fifo[Place(i)].frame.task = fifo[head].frame.task =>
          fifo[Place(i)].frame.n > fifo[head].frame.n
    <3>1. SUFFICES ASSUME NEW i \in 1 .. (count - 1),
                          fifo[Place(i)].frame.task = fifo[head].frame.task
                   PROVE  fifo[Place(i)].frame.n > fifo[head].frame.n
      OBVIOUS
    <3>2. i \in 0 .. (count - 1) /\ 0 \in 0 .. (i - 1) BY <1>1
    <3>3. fifo[head].frame.n < fifo[Place(i)].frame.n
      BY <1>2, <3>1, <3>2 DEF RingInv
    <3>4. fifo[Place(i)].frame.n \in Nat /\ fifo[head].frame.n \in Nat
      BY <1>4, <3>2, CurveType DEF RingInv, Frames
    <3>. QED BY <3>3, <3>4
  <2>2. \A i \in 0 .. (count' - 1) : fifo[At(head', i)].frame.task = fifo[head].frame.task =>
          fifo[At(head', i)].frame.n > fifo[head].frame.n
    BY <1>9, <2>1
  <2>3. /\ fifo[head].frame.n > Tally(sent[fifo[head].frame.task], TRUE)
        /\ Older(fifo[head].frame, made[fifo[head].frame.task], enq[fifo[head].frame.task])
    BY <1>1, <1>2 DEF RingInv
  <2>. QED BY <1>4, <1>5, <2>2, <2>3 DEF SenderInv, Place
<1>. QED BY <1>6, <1>7, <1>8, <1>10, <1>11

LEMMA AcceptedKeeps ==
  ASSUME QueueInv, Accepted
  PROVE  QueueInv'
<1>. DEFINE f == sender.frame
            t == f.task
<1>. USE DEF QueueInv, Accepted, ringVars
<1>1. f \in Frames /\ t \in Tasks /\ f.curve \in BOOLEAN /\ f.n \in Nat BY DEF SenderInv, Frames
<1>2. sender' \in SenderType /\ sender'.frame \in Frames /\ sender'.pc # "write"
  BY NextSlotType, FrameType
<1>3. \A p \in Ports : made[p] \in Counts /\ sent[p] \in Counts BY DEF QueueTypeOK, Counts
<1>4. \A p \in Ports, c \in BOOLEAN : Tally(made[p], c) \in Nat /\ Tally(sent[p], c) \in Nat
  BY <1>3, TallyType
<1>5. t \in Ports => f.n <= Tally(made[t], f.curve) BY <1>1 DEF SenderInv, Older
<1>6. ASSUME t \in Ports
      PROVE  /\ f.curve => f.n \in 0 .. MaxCurves
             /\ ~f.curve => f.n \in 0 .. MaxRealtime
  <2>1. made[t].curve \in 0 .. MaxCurves /\ made[t].rt \in 0 .. MaxRealtime
    BY <1>3, <1>6 DEF Counts
  <2>2. CASE f.curve
    <3>1. f.n <= made[t].curve BY <1>5, <1>6, <2>2 DEF Tally
    <3>2. f.n \in 0 .. MaxCurves BY <1>1, <2>1, <3>1, QueueAssumption
    <3>. QED BY <2>2, <3>2
  <2>3. CASE ~f.curve
    <3>1. f.n <= made[t].rt BY <1>5, <1>6, <2>3 DEF Tally
    <3>2. f.n \in 0 .. MaxRealtime BY <1>1, <2>1, <3>1, QueueAssumption
    <3>. QED BY <2>3, <3>2
  <2>. QED BY <2>2, <2>3
<1>6a. /\ sent' \in [Ports -> Counts]
       /\ \A p \in Ports, c \in BOOLEAN :
            Tally(sent'[p], c) = IF p = t /\ c = f.curve THEN f.n ELSE Tally(sent[p], c)
  <2>1. sent \in [Ports -> Counts] BY DEF QueueTypeOK, Counts
  <2>2. CASE t = Control BY <2>1, <2>2, FrameType
  <2>3. CASE t # Control /\ f.curve
    <3>1. t \in Ports /\ f.curve = TRUE BY <1>1, <2>3 DEF Tasks
    <3>2. sent' = [sent EXCEPT ![t] = [sent[t] EXCEPT !.curve = f.n]] BY <2>3, Zenon
    <3>3. [sent[t] EXCEPT !.curve = f.n] \in Counts BY <1>3, <1>6, <3>1 DEF Counts
    <3>4. sent' \in [Ports -> Counts] BY <2>1, <3>1, <3>2, <3>3
    <3>5. \A p \in Ports : p # t => sent'[p] = sent[p] BY <2>1, <3>2
    <3>6. sent'[t] = [sent[t] EXCEPT !.curve = f.n] BY <2>1, <3>1, <3>2
    <3>7. sent'[t].curve = f.n /\ sent'[t].rt = sent[t].rt BY <1>3, <3>1, <3>6 DEF Counts
    <3>. QED BY <3>1, <3>4, <3>5, <3>7 DEF Tally
  <2>4. CASE t # Control /\ ~f.curve
    <3>1. t \in Ports /\ f.curve = FALSE BY <1>1, <2>4 DEF Tasks
    <3>2. sent' = [sent EXCEPT ![t] = [sent[t] EXCEPT !.rt = f.n]] BY <2>4, Zenon
    <3>3. [sent[t] EXCEPT !.rt = f.n] \in Counts BY <1>3, <1>6, <3>1 DEF Counts
    <3>4. sent' \in [Ports -> Counts] BY <2>1, <3>1, <3>2, <3>3
    <3>5. \A p \in Ports : p # t => sent'[p] = sent[p] BY <2>1, <3>2
    <3>6. sent'[t] = [sent[t] EXCEPT !.rt = f.n] BY <2>1, <3>1, <3>2
    <3>7. sent'[t].rt = f.n /\ sent'[t].curve = sent[t].curve BY <1>3, <3>1, <3>6 DEF Counts
    <3>. QED BY <3>1, <3>4, <3>5, <3>7 DEF Tally
  <2>. QED BY <1>1, <2>2, <2>3, <2>4
<1>7. \A p \in Ports, c \in BOOLEAN :
        Tally(sent'[p], c) = IF p = t /\ c = f.curve THEN f.n ELSE Tally(sent[p], c)
  BY <1>6a
<1>8. QueueTypeOK' BY <1>2, <1>6a DEF QueueTypeOK, SenderType, Counts
<1>9. LockInv' /\ IndexInv' BY DEF LockInv, IndexInv, Place, At
<1>10. EnqInv'
  <2>1. SUFFICES ASSUME NEW u \in Ports, enq[u].pc # "idle"
                 PROVE  enq[u].frame.n > Tally(sent'[u], enq[u].frame.curve)
    BY DEF EnqInv
  <2>2. u \in Tasks /\ enq[u].frame \in Frames BY FrameType DEF QueueTypeOK
  <2>3. enq[u].frame.curve \in BOOLEAN /\ enq[u].frame.n \in Nat BY <2>2 DEF Frames
  <2>4. enq[u].frame.n > Tally(sent[u], enq[u].frame.curve) BY <2>1, <2>2 DEF EnqInv
  <2>5. CASE u = t /\ enq[u].frame.curve = f.curve
    <3>1. f.n < enq[u].frame.n BY <2>1, <2>5 DEF SenderInv, Older
    <3>2. Tally(sent'[u], enq[u].frame.curve) = f.n BY <1>7, <2>3, <2>5
    <3>. QED BY <1>1, <2>3, <3>1, <3>2
  <2>6. CASE ~(u = t /\ enq[u].frame.curve = f.curve)
    <3>1. Tally(sent'[u], enq[u].frame.curve) = Tally(sent[u], enq[u].frame.curve)
      BY <1>7, <2>3, <2>6
    <3>. QED BY <2>4, <3>1
  <2>. QED BY <2>5, <2>6
<1>11. SlotInv'
  <2>1. SUFFICES ASSUME NEW u \in Ports, slots[u].ready, slots[u].frame # Partial
                 PROVE  slots[u].frame.n > Tally(sent'[u], FALSE)
    BY DEF SlotInv
  <2>2. u \in Tasks /\ slots[u].frame.n > Tally(sent[u], FALSE) BY <2>1, FrameType DEF SlotInv
  <2>3. CASE u = t /\ ~f.curve
    <3>1. slots[u].frame.n > f.n BY <2>1, <2>3 DEF SenderInv
    <3>. QED BY <1>1, <1>7, <2>3, <3>1
  <2>4. CASE ~(u = t /\ ~f.curve) BY <1>1, <1>7, <2>2, <2>4
  <2>. QED BY <2>3, <2>4
<1>12. RingInv'
  <2>1. SUFFICES ASSUME NEW i \in 0 .. (count - 1)
                 PROVE  fifo[Place(i)].frame.n > Tally(sent'[fifo[Place(i)].frame.task], TRUE)
    BY DEF RingInv, Place, At
  <2>2. /\ fifo[Place(i)].frame.n > Tally(sent[fifo[Place(i)].frame.task], TRUE)
        /\ fifo[Place(i)].frame.task \in Ports
    BY CurveType DEF RingInv
  <2>3. CASE fifo[Place(i)].frame.task = t /\ f.curve
    <3>1. fifo[Place(i)].frame.n > f.n BY <2>2, <2>3 DEF SenderInv
    <3>. QED BY <1>1, <1>7, <2>2, <2>3, <3>1
  <2>4. CASE ~(fifo[Place(i)].frame.task = t /\ f.curve) BY <1>1, <1>7, <2>2, <2>4
  <2>. QED BY <2>3, <2>4
<1>13. SenderInv' BY <1>2 DEF SenderInv
<1>14. SentInv' BY <1>5, <1>7 DEF SentInv
<1>. QED BY <1>8, <1>9, <1>10, <1>11, <1>12, <1>13, <1>14

LEMMA SendStepKeeps ==
  ASSUME QueueInv, SendStep
  PROVE  QueueInv'
<1>1. CASE PassStarts BY <1>1, SenderMoves, NextSlotType, FrameType DEF PassStarts, QueueInv
<1>2. CASE SkipSlot BY <1>2, SenderMoves, NextSlotType, FrameType DEF SkipSlot, QueueInv
<1>3. CASE TakeSlot BY <1>3, TakeSlotKeeps
<1>4. CASE TakeCurve BY <1>4, TakeCurveKeeps
<1>5. CASE PassEnds BY <1>5, SenderMoves, NextSlotType, FrameType DEF PassEnds, QueueInv
<1>6. CASE Accepted BY <1>6, AcceptedKeeps
<1>7. CASE Retried
  <2>1. sender \in SenderType /\ sender.tries + 1 \in 0 .. RetryCount /\ sender.frame \in Frames
    BY <1>7, QueueAssumption DEF QueueInv, QueueTypeOK, SenderType, SenderInv, Retried
  <2>2. sender' \in SenderType /\ sender'.frame = sender.frame /\ sender'.pc = sender.pc
    BY <1>7, <2>1 DEF Retried, SenderType
  <2>. QED BY <1>7, <2>1, <2>2, SenderMoves DEF Retried
<1>8. CASE GivenUp BY <1>8, SenderMoves, NextSlotType, FrameType DEF GivenUp, QueueInv
<1>. QED BY <1>1, <1>2, <1>3, <1>4, <1>5, <1>6, <1>7, <1>8 DEF SendStep

-------------------------------------------------------------------------------
(* The specification. *)

LEMMA MakeStepKeeps ==
  ASSUME QueueInv, MakeStep
  PROVE  QueueInv'
<1>1. PICK p \in Ports : MakeRealtime(p) \/ MakeCurve(p) BY DEF MakeStep
<1>2. /\ made \in [Ports -> Counts] /\ made[p] \in Counts
      /\ p \in Tasks /\ p # Control /\ 0 \in Nat
  BY FrameType DEF QueueInv, QueueTypeOK, Counts
<1>3. CASE MakeRealtime(p)
  <2>. DEFINE f == Frame(p, FALSE, made[p].rt + 1)
  <2>1. made[p].rt + 1 \in 0 .. MaxRealtime /\ made[p].rt + 1 \in Nat
    BY <1>2, <1>3, QueueAssumption DEF MakeRealtime, Counts
  <2>2. f \in Frames BY <1>2, <2>1, FrameType
  <2>3. f.task = p /\ f.curve = FALSE /\ f.n = made[p].rt + 1 BY DEF Frame
  <2>4. /\ made' = [made EXCEPT ![p] = [made[p] EXCEPT !.rt = made[p].rt + 1]]
        /\ Enqueue(p, f, 0) /\ enq[p].pc = "idle"
        /\ UNCHANGED <<lock, slots, ringVars, sender, sent>>
    BY <1>3 DEF MakeRealtime
  <2>5. /\ [made[p] EXCEPT !.rt = made[p].rt + 1] \in Counts
        /\ [made[p] EXCEPT !.rt = made[p].rt + 1].rt = made[p].rt + 1
        /\ [made[p] EXCEPT !.rt = made[p].rt + 1].curve = made[p].curve
    BY <1>2, <2>1 DEF Counts
  <2>6. /\ made' \in [Ports -> Counts]
        /\ \A q \in Ports, c \in BOOLEAN : Tally(made'[q], c) =
             IF q = p /\ c = f.curve THEN Tally(made[q], c) + 1 ELSE Tally(made[q], c)
    BY <1>2, <2>3, <2>4, <2>5 DEF Tally
  <2>7. f.n = Tally(made[p], f.curve) + 1 BY <2>3 DEF Tally
  <2>. HIDE DEF f
  <2>. QED BY <1>2, <2>2, <2>3, <2>4, <2>6, <2>7, MakeKeeps
<1>4. CASE MakeCurve(p)
  <2>. DEFINE f == Frame(p, TRUE, made[p].curve + 1)
  <2>1. made[p].curve + 1 \in 0 .. MaxCurves /\ made[p].curve + 1 \in Nat
    BY <1>2, <1>4, QueueAssumption DEF MakeCurve, Counts
  <2>2. f \in Frames BY <1>2, <2>1, FrameType
  <2>3. f.task = p /\ f.curve = TRUE /\ f.n = made[p].curve + 1 BY DEF Frame
  <2>4. /\ made' = [made EXCEPT ![p] = [made[p] EXCEPT !.curve = made[p].curve + 1]]
        /\ Enqueue(p, f, 0) /\ enq[p].pc = "idle"
        /\ UNCHANGED <<lock, slots, ringVars, sender, sent>>
    BY <1>4 DEF MakeCurve
  <2>5. /\ [made[p] EXCEPT !.curve = made[p].curve + 1] \in Counts
        /\ [made[p] EXCEPT !.curve = made[p].curve + 1].curve = made[p].curve + 1
        /\ [made[p] EXCEPT !.curve = made[p].curve + 1].rt = made[p].rt
    BY <1>2, <2>1 DEF Counts
  <2>6. /\ made' \in [Ports -> Counts]
        /\ \A q \in Ports, c \in BOOLEAN : Tally(made'[q], c) =
             IF q = p /\ c = f.curve THEN Tally(made[q], c) + 1 ELSE Tally(made[q], c)
    BY <1>2, <2>3, <2>4, <2>5 DEF Tally
  <2>7. f.n = Tally(made[p], f.curve) + 1 BY <2>3 DEF Tally
  <2>. HIDE DEF f
  <2>. QED BY <1>2, <2>2, <2>3, <2>4, <2>6, <2>7, MakeKeeps
<1>. QED BY <1>1, <1>3, <1>4

LEMMA MakeControlKeeps ==
  ASSUME QueueInv, NEW reset_flag \in Nat, MakeControl(reset_flag)
  PROVE  QueueInv'
<1>. DEFINE f == Frame(Control, FALSE, 0)
<1>1. f \in Frames /\ f.task = Control /\ f.curve = FALSE BY FrameType DEF Frame
<1>2. Enqueue(Control, f, reset_flag) /\ enq[Control].pc = "idle" /\ made' = made
  BY DEF MakeControl
<1>3. /\ made' \in [Ports -> Counts]
      /\ \A p \in Ports, c \in BOOLEAN : Tally(made'[p], c) =
           IF p = Control /\ c = f.curve THEN Tally(made[p], c) + 1 ELSE Tally(made[p], c)
  BY <1>2, FrameType DEF QueueInv, QueueTypeOK, Counts
<1>4. UNCHANGED <<lock, slots, ringVars, sender, sent>> BY DEF MakeControl
<1>. HIDE DEF f
<1>. QED BY <1>1, <1>2, <1>3, <1>4, FrameType, MakeKeeps

LEMMA CopyStepKeeps ==
  ASSUME QueueInv, NEW t \in Tasks, CopyStep(t)
  PROVE  QueueInv'
BY AddBeginKeeps, AddEndKeeps, AddCurveBeginKeeps, AddCurveEndKeeps DEF CopyStep

LEMMA ResetKeeps == QueueReset => QueueInv'
<1>1. QueueReset => Empty' BY DEF QueueReset, Empty
<1>2. (Empty => QueueInv)' BY EmptyInv, PTL
<1>. QED BY <1>1, <1>2

LEMMA NothingChanges ==
  ASSUME QueueInv, UNCHANGED queueVars
  PROVE  QueueInv'
<1>. USE DEF queueVars, ringVars
<1>1. QueueTypeOK' /\ LockInv' /\ EnqInv' /\ SlotInv' /\ SentInv'
  BY DEF QueueInv, QueueTypeOK, LockInv, EnqInv, SlotInv, SentInv
<1>2. IndexInv' /\ RingInv' /\ SenderInv' BY DEF QueueInv, IndexInv, RingInv, SenderInv, Place, At
<1>. QED BY <1>1, <1>2 DEF QueueInv

LEMMA QueueInitInv == QueueInit => QueueInv
BY EmptyInv DEF QueueInit, Empty

LEMMA QueueStepKeeps == QueueInv /\ [QueueNext]_queueVars => QueueInv'
<1>. SUFFICES ASSUME QueueInv, [QueueNext]_queueVars PROVE QueueInv'
  OBVIOUS
<1>1. CASE MakeStep BY <1>1, MakeStepKeeps
<1>2. CASE SendStep BY <1>2, SendStepKeeps
<1>3. CASE QueueReset BY <1>3, ResetKeeps
<1>4. ASSUME NEW t \in Tasks, CopyStep(t) PROVE QueueInv' BY <1>4, CopyStepKeeps
<1>5. ASSUME NEW reset_flag \in {0, 29}, MakeControl(reset_flag) PROVE QueueInv'
  BY <1>5, MakeControlKeeps
<1>6. CASE UNCHANGED queueVars BY <1>6, NothingChanges
<1>. QED BY <1>1, <1>2, <1>3, <1>4, <1>5, <1>6 DEF QueueNext

\* The queues, whatever is put in them and however sending goes, satisfy the
\* invariant, and so are of the right type.
THEOREM QueueTypes == QueueSpec => []QueueInv
BY QueueInitInv, QueueStepKeeps, PTL DEF QueueSpec

\* client_send_pending never has half a frame in its hands: a slot or a place of
\* the ring that a task is copying into is not read, in any interleaving.
THEOREM FramesAreWhole == QueueSpec => []OnlyWholeFrames
<1>1. QueueInv => OnlyWholeFrames BY PartialAssumption DEF QueueInv, SenderInv, OnlyWholeFrames
<1>. QED BY <1>1, QueueTypes, PTL

\* No frame of a port reaches netconn_write twice, or after a younger one of
\* its kind.
THEOREM FramesAreInOrder == QueueSpec => []WrittenInOrder
<1>1. QueueInv => WrittenInOrder
  BY FrameType DEF QueueInv, SenderInv, WrittenInOrder, LastSent, Tally, Tasks, Frames
<1>. QED BY <1>1, QueueTypes, PTL

-------------------------------------------------------------------------------
(* The ring is a bounded queue. *)

\* A curve is copied to the end of the ring.
LEMMA CopyPuts ==
  ASSUME QueueInv, QueueInv', NEW t \in Tasks, add_curve_end(t)
  PROVE  Queue!Put
<1>. USE DEF QueueInv, add_curve_end
<1>1. /\ fifo \in [0 .. (Depth - 1) -> [frame : WholeRing, reset_flag : Nat]]
      /\ head \in 0 .. (Depth - 1) /\ head' = head
      /\ count' = count + 1 /\ count \in 0 .. (Depth - 1)
  <2>1. count < Depth BY DEF IndexInv
  <2>2. fifo \in [0 .. (Depth - 1) -> [frame : WholeRing, reset_flag : Nat]]
    BY DEF QueueTypeOK, WholeRing
  <2>3. head \in 0 .. (Depth - 1) /\ count \in 0 .. Depth BY DEF QueueTypeOK
  <2>4. head' = head /\ count' = count + 1 OBVIOUS
  <2>. HIDE DEF QueueInv, add_curve_end
  <2>. QED BY <2>1, <2>2, <2>3, <2>4, QueueAssumption
<1>2. /\ Ring \in Seq(WholeRing) /\ Len(Ring) = count
      /\ Ring' \in Seq(WholeRing) /\ Len(Ring') = count + 1
      /\ \A k \in 1 .. count : Ring[k] = fifo[Place(k - 1)].frame
      /\ \A k \in 1 .. (count + 1) : Ring'[k] = fifo'[Place(k - 1)].frame
  <2>1. QueueTypeOK /\ QueueTypeOK' OBVIOUS
  <2>. HIDE DEF QueueInv, add_curve_end
  <2>. QED BY <1>1, <2>1, RingFacts, RingFactsNext DEF Place
<1>3. /\ \A k \in 1 .. count : fifo'[Place(k - 1)].frame = fifo[Place(k - 1)].frame
      /\ fifo'[Place(count)].frame = enq[t].frame
  <2>1. ASSUME NEW k \in 1 .. count
        PROVE  Place(k - 1) # Place(count) /\ Place(k - 1) \in 0 .. (Depth - 1)
    <3>1. k - 1 \in 0 .. (Depth - 1) /\ k - 1 \in 0 .. Depth /\ k - 1 # count
      BY <1>1, QueueAssumption
    <3>. QED BY <1>1, <3>1, PlaceFacts
  <2>2. Place(count) \in 0 .. (Depth - 1) /\ tail = Place(count)
    <3>1. count \in 0 .. Depth BY <1>1, QueueAssumption
    <3>. QED BY <3>1, PlaceFacts DEF IndexInv
  <2>. QED BY <1>1, <2>1, <2>2
<1>4. enq[t].frame \in Curves /\ enq[t].frame \in WholeRing
  BY CurveCopied, CurveType DEF WholeRing
<1>5. Ring' = Append(Ring, enq[t].frame)
  <2>1. /\ Append(Ring, enq[t].frame) \in Seq(WholeRing)
        /\ Len(Append(Ring, enq[t].frame)) = count + 1
        /\ \A k \in 1 .. count : Append(Ring, enq[t].frame)[k] = Ring[k]
        /\ Append(Ring, enq[t].frame)[count + 1] = enq[t].frame
    BY <1>1, <1>2, <1>4, AppendProperties
  <2>2. \A k \in 1 .. (count + 1) : Ring'[k] = Append(Ring, enq[t].frame)[k]
    <3>1. ASSUME NEW k \in 1 .. count PROVE Ring'[k] = Append(Ring, enq[t].frame)[k]
      <4>1. k \in 1 .. (count + 1) BY <1>1
      <4>. QED BY <1>2, <1>3, <2>1, <4>1
    <3>2. Ring'[count + 1] = enq[t].frame
      <4>1. count + 1 \in 1 .. (count + 1) /\ count + 1 - 1 = count BY <1>1
      <4>. QED BY <1>2, <1>3, <4>1
    <3>3. \A k \in 1 .. (count + 1) : k \in 1 .. count \/ k = count + 1 BY <1>1
    <3>. QED BY <2>1, <3>1, <3>2, <3>3
  <2>. QED BY <1>2, <2>1, <2>2, SeqEqual
<1>6. Len(Ring) < Depth BY <1>1, <1>2, QueueAssumption
<1>. QED BY <1>4, <1>5, <1>6 DEF Queue!Put

\* The send task takes the oldest curve.
LEMMA TakeGets ==
  ASSUME QueueInv, QueueInv', TakeCurve
  PROVE  Queue!Get
<1>. USE DEF QueueInv, TakeCurve
<1>1. /\ head \in 0 .. (Depth - 1) /\ head' = (head + 1) % Depth
      /\ count' = count - 1 /\ count \in 1 .. Depth /\ fifo' = fifo
  BY QueueAssumption DEF QueueTypeOK
<1>2. /\ Ring \in Seq(WholeRing) /\ Len(Ring) = count
      /\ Ring' \in Seq(WholeRing) /\ Len(Ring') = count - 1
      /\ \A k \in 1 .. count : Ring[k] = fifo[At(head, k - 1)].frame
      /\ \A k \in 1 .. (count - 1) : Ring'[k] = fifo[At(head', k - 1)].frame
  <2>1. QueueTypeOK /\ QueueTypeOK' OBVIOUS
  <2>. HIDE DEF QueueInv, TakeCurve
  <2>. QED BY <1>1, <2>1, RingFacts, RingFactsNext
<1>3. Ring # <<>> BY <1>1, <1>2, EmptySeq
<1>4. /\ Tail(Ring) \in Seq(WholeRing) /\ Len(Tail(Ring)) = count - 1
      /\ \A k \in 1 .. (count - 1) : Tail(Ring)[k] = Ring[k + 1]
  BY <1>2, <1>3, HeadTailProperties
<1>5. \A k \in 1 .. (count - 1) : Ring'[k] = Tail(Ring)[k]
  <2>1. SUFFICES ASSUME NEW k \in 1 .. (count - 1) PROVE Ring'[k] = Tail(Ring)[k]
    OBVIOUS
  <2>2. k - 1 \in 0 .. (Depth - 1) /\ k - 1 + 1 = k /\ k + 1 \in 1 .. count /\ k + 1 - 1 = k
    BY <1>1, QueueAssumption
  <2>3. At(head', k - 1) = At(head, k) BY <1>1, <2>2, AtMoves
  <2>4. Ring[k + 1] = fifo[At(head, k)].frame BY <1>2, <2>2
  <2>. QED BY <1>2, <1>4, <2>3, <2>4
<1>6. Ring' = Tail(Ring) BY <1>2, <1>4, <1>5, SeqEqual
<1>. QED BY <1>3, <1>6 DEF Queue!Get

\* A reset empties it, and the other steps leave it alone.
LEMMA ResetClears ==
  ASSUME QueueInv', count' = 0
  PROVE  Ring' = <<>>
<1>1. Ring' \in Seq(WholeRing) /\ Len(Ring') = 0 BY RingFactsNext DEF QueueInv
<1>. QED BY <1>1, EmptySeq

LEMMA RingUntouched ==
  ASSUME UNCHANGED <<head, count>>,
         \A i \in 0 .. (count - 1) : fifo'[Place(i)].frame = fifo[Place(i)].frame,
         QueueInv, QueueInv'
  PROVE  Ring' = Ring
<1>1. /\ Ring \in Seq(WholeRing) /\ Len(Ring) = count
      /\ Ring' \in Seq(WholeRing) /\ Len(Ring') = count
      /\ \A k \in 1 .. count : Ring[k] = fifo[Place(k - 1)].frame
      /\ \A k \in 1 .. count : Ring'[k] = fifo'[Place(k - 1)].frame
  <2>1. QueueTypeOK /\ QueueTypeOK' BY DEF QueueInv
  <2>. QED BY <2>1, RingFacts, RingFactsNext DEF Place
<1>2. \A k \in 1 .. count : Ring'[k] = Ring[k]
  <2>1. \A k \in 1 .. count : k - 1 \in 0 .. (count - 1)
    BY QueueAssumption DEF QueueInv, QueueTypeOK
  <2>. QED BY <1>1, <2>1
<1>. QED BY <1>1, <1>2, SeqEqual

\* The copy of a curve goes to a place that is not in the ring yet.
LEMMA CurveBeginLeavesRing ==
  ASSUME QueueInv, QueueInv', NEW t \in Tasks, add_curve_begin(t)
  PROVE  Ring' = Ring
<1>1. \A i \in 0 .. (count - 1) : fifo'[Place(i)].frame = fifo[Place(i)].frame
  <2>1. SUFFICES ASSUME NEW i \in 0 .. (count - 1) PROVE fifo'[Place(i)] = fifo[Place(i)]
    OBVIOUS
  <2>2. /\ i \in 0 .. (Depth - 1) /\ count \in 0 .. (Depth - 1) /\ i # count
        /\ i \in 0 .. Depth
    BY QueueAssumption DEF QueueInv, QueueTypeOK, add_curve_begin
  <2>3. Place(i) # Place(count) /\ Place(i) \in 0 .. (Depth - 1)
    BY <2>2, PlaceFacts DEF QueueInv
  <2>. QED BY <2>3 DEF QueueInv, IndexInv, QueueTypeOK, add_curve_begin
<1>. QED BY <1>1, RingUntouched DEF add_curve_begin

LEMMA QueueStepRefines ==
  QueueInv /\ QueueInv' /\ [QueueNext]_queueVars => [Queue!Next]_Ring
<1>. SUFFICES ASSUME QueueInv, QueueInv', [QueueNext]_queueVars PROVE Queue!Next \/ Ring' = Ring
  OBVIOUS
<1>1. ASSUME UNCHANGED ringVars PROVE Ring' = Ring
  BY <1>1, RingUntouched DEF ringVars
<1>2. CASE MakeStep BY <1>1, <1>2 DEF MakeStep, MakeRealtime, MakeCurve
<1>3. CASE SendStep
  <2>1. CASE TakeCurve BY <2>1, TakeGets DEF Queue!Next
  <2>2. CASE ~TakeCurve
    BY <1>1, <1>3, <2>2 DEF SendStep, PassStarts, SkipSlot, TakeSlot, PassEnds, Accepted,
                            Retried, GivenUp
  <2>. QED BY <2>1, <2>2
<1>4. CASE QueueReset BY <1>4, ResetClears DEF QueueReset, Queue!Next, Queue!Clear
<1>5. ASSUME NEW t \in Tasks, CopyStep(t) PROVE Queue!Next \/ Ring' = Ring
  <2>1. CASE add_begin(t) BY <1>1, <2>1 DEF add_begin
  <2>2. CASE add_end(t) BY <1>1, <2>2 DEF add_end
  <2>3. CASE add_curve_begin(t) BY <2>3, CurveBeginLeavesRing
  <2>4. CASE add_curve_end(t) BY <2>4, CopyPuts DEF Queue!Next
  <2>. QED BY <1>5, <2>1, <2>2, <2>3, <2>4 DEF CopyStep
<1>6. ASSUME NEW reset_flag \in {0, 29}, MakeControl(reset_flag) PROVE Ring' = Ring
  BY <1>1, <1>6 DEF MakeControl
<1>7. CASE UNCHANGED queueVars BY <1>1, <1>7 DEF queueVars
<1>. QED BY <1>2, <1>3, <1>4, <1>5, <1>6, <1>7 DEF QueueNext

\* curve_fifo is the bounded queue: what several tasks put in, under the mutex
\* but with head, tail and count apart, the send task takes out whole and in that
\* order, and a task that finds it full leaves it alone.
THEOREM RingImplementsQueue == QueueSpec => RingIsAQueue
<1>1. QueueInit => Queue!Init
  <2>1. SUFFICES ASSUME QueueInit PROVE Ring = <<>>
    BY DEF Queue!Init
  <2>2. QueueTypeOK /\ count = 0
    <3>1. QueueInv BY <2>1, QueueInitInv
    <3>. QED BY <2>1, <3>1 DEF QueueInv, QueueInit
  <2>3. Ring \in Seq(WholeRing) /\ Len(Ring) = 0 BY <2>2, RingFacts
  <2>. QED BY <2>3, EmptySeq
<1>. QED BY <1>1, QueueTypes, QueueStepRefines, PTL
     DEF QueueSpec, RingIsAQueue, Queue!Spec
===============================================================================
