---------------------------- MODULE TcpSystem_proof ----------------------------
(***************************************************************************)
(* Proofs about the whole TCP client, whatever the host does: its tasks    *)
(* use the queues as TcpQueue says they may, data frames never reset the   *)
(* board, and with a steady host nothing but a lost request does.          *)
(***************************************************************************)
EXTENDS TcpSystem, TcpQueue_proof, WellFoundedInduction

\* client_thread makes one frame at a time, and waits for it to be in its slot
\* before it goes on.
ThreadInv == client \in ClientSteps /\ (client # "loop" => enq[Control].pc = "idle")

\* The reset flags of frames: those of data frames are all 0.
Flags == {0, RESET_REQUEST}
FlagInv ==
  /\ \A t \in Tasks : enq[t].reset_flag \in Flags /\ slots[t].reset_flag \in Flags
  /\ \A p \in Ports : enq[p].reset_flag = 0 /\ slots[p].reset_flag = 0
  /\ \A k \in 0 .. (Depth - 1) : fifo[k].reset_flag = 0
  /\ sender.reset_flag \in Flags
  /\ sender.pc = "write" /\ sender.frame.task # Control => sender.reset_flag = 0

\* While client_thread waits for the host on a connection that works, the board
\* counts as connected, and has not had too many receive errors.
ConnInv ==
  /\ tcp_conn \in ConnStates /\ tcp_connected \in BOOLEAN
  /\ recv_err_cnt \in 0 .. RecvErrMax /\ config_req_timer \in 0 .. (RequestEvery - 1)
  /\ download_flag \in BOOLEAN
  /\ tcp_connected => recv_err_cnt < RecvErrMax
  /\ client = "recv" => recv_err_cnt < RecvErrMax
  /\ client = "recv" /\ tcp_conn \in {"open", "stuck"} => tcp_connected

\* The supervisor's counters.
CountInv ==
  /\ heartbeat \in 0 .. (HeartbeatMax + 1)
  /\ WDTUARTFLAG \in [Ports -> 0 .. (TaskMax + 1)] /\ WDTTCPSENDFLAG \in 0 .. (TaskMax + 1)
  /\ unfed \in 0 .. DogRounds /\ WTD_RESET \in Nat

\* The host, and the clocks of the connection.
HostInv ==
  /\ host \in {"up", "down"} /\ fails \in BOOLEAN /\ asked \in BOOLEAN
  /\ waited \in 0 .. WaitMax /\ quiet \in 0 .. BeatEvery /\ drops \in 0 .. MaxDrops

\* What a steady host leaves of the connection, wherever client_thread is.
StateOfConn ==
  /\ client \in {"connect", "delay"} => tcp_conn = "NULL"
  /\ client = "connecting" => tcp_conn \in {"new", "dead"}
  /\ client \in {"loop", "recv"} => tcp_conn \in {"open", "dead"}
  /\ client = "close" => tcp_conn = "dead"
  /\ client = "forget" => tcp_conn = "deleted"
  /\ tcp_conn = "open" => tcp_connected /\ recv_err_cnt <= quiet

\* The longest it may have been silent: it was heard on the connection before
\* the first of the lost ones, and each of them took PerDrop rounds at most.
Lost(n) == n * PerDrop
Silence ==
  IF tcp_conn = "open" THEN Lost(drops) + ConnectMax + quiet
  ELSE IF tcp_conn = "dead" \/ client = "forget" THEN Lost(drops) - DelayRounds
  ELSE IF client = "delay" THEN Lost(drops) - DelayRounds + waited
  ELSE IF client = "connecting" THEN Lost(drops) + waited
  ELSE Lost(drops)

\* A port task is silent only while the ring is full, which it is not when the
\* connection has lasted a round.
PortsHeard ==
  /\ \A p \in Ports : WDTUARTFLAG[p] <= HeartbeatMax
  /\ tcp_conn # "open" => \A p \in Ports : WDTUARTFLAG[p] <= heartbeat
  /\ waited > 0 /\ tcp_conn = "open" => \A p \in Ports : WDTUARTFLAG[p] = 0

Steady ==
  /\ host = "up" /\ WTD_RESET \in Flags
  /\ StateOfConn /\ heartbeat <= Silence
  /\ WDTTCPSENDFLAG = 0 /\ PortsHeard
SteadyInv == ~fails => Steady

SystemInv == QueueInv /\ ThreadInv /\ FlagInv /\ ConnInv /\ CountInv /\ HostInv /\ SteadyInv

-------------------------------------------------------------------------------
(* A set of numbers has a smallest one and, if it is bounded, a greatest.  *)

LEMMA SmallestThere ==
  ASSUME NEW T, T \subseteq Nat, T # {}
  PROVE  \E x \in T : \A y \in T : x <= y
<1>1. PICK x \in T : \A y \in T : ~(<<y, x>> \in OpToRel(<, Nat))
  BY NatLessThanWellFounded, WFMin, Zenon
<1>2. \A y \in T : ~(y < x) BY <1>1 DEF OpToRel
<1>. QED BY <1>2

LEMMA GreatestThere ==
  ASSUME NEW n \in Nat, NEW T, T \subseteq 1 .. n, T # {}
  PROVE  \E x \in T : \A y \in T : y <= x
<1>1. DEFINE U == {u \in Nat : n - u \in T}
<1>2. U \subseteq Nat /\ U # {}
  <2>1. PICK t \in T : TRUE OBVIOUS
  <2>2. n - t \in Nat /\ n - (n - t) = t BY <2>1
  <2>. QED BY <2>1, <2>2
<1>3. PICK u \in U : \A v \in U : u <= v BY <1>2, SmallestThere
<1>4. n - u \in T /\ u \in Nat BY <1>3
<1>5. \A y \in T : y <= n - u
  <2>1. SUFFICES ASSUME NEW y \in T PROVE y <= n - u OBVIOUS
  <2>2. n - y \in Nat /\ n - (n - y) = y BY <2>1
  <2>3. n - y \in U BY <2>2
  <2>4. u <= n - y BY <2>3, <1>3, Zenon
  <2>5. y \in Nat /\ u \in Nat BY <1>4
  <2>. QED BY <2>4, <2>5
<1>. QED BY <1>4, <1>5

-------------------------------------------------------------------------------
(* Every step of the system is a step of the queues, or leaves them alone. *)

\* What client_thread does to the queues when it asks for the configuration.
LEMMA RequestIsControl ==
  ASSUME enq[Control].pc = "idle", RequestConfig, ClientOnly
  PROVE  MakeControl(29)
BY DEF RequestConfig, ClientOnly, MakeControl, RESET_REQUEST

LEMMA RoundEndIsQueueStep ==
  ASSUME ThreadInv, client # "loop", RoundEnds
  PROVE  [QueueNext]_queueVars /\ ThreadInv'
<1>. USE DEF RoundEnds, RequestAgain, ThreadInv
<1>1. client' \in ClientSteps /\ client' = "loop" BY DEF ClientSteps
<1>2. CASE RequestConfig
  <2>1. MakeControl(29) BY <1>2, RequestIsControl
  <2>. QED BY <1>1, <2>1 DEF QueueNext
<1>3. CASE UNCHANGED enq
  BY <1>1, <1>3 DEF ClientOnly, queueVars
<1>. QED BY <1>2, <1>3

\* Steps that leave the queues and client_thread alone.
LEMMA AsideIsQueueStep ==
  ASSUME ThreadInv, UNCHANGED <<queueVars, client>>
  PROVE  [QueueNext]_queueVars /\ ThreadInv'
BY DEF ThreadInv, queueVars

LEMMA HostIsQueueStep ==
  ASSUME ThreadInv, Host
  PROVE  [QueueNext]_queueVars /\ ThreadInv'
<1>2. CASE GoesDown \/ Drops \/ ComesUp \/ Ignores
  <2>1. UNCHANGED <<queueVars, client>>
    BY <1>2 DEF GoesDown, Drops, ComesUp, Ignores, clientVars
  <2>. QED BY <2>1, AsideIsQueueStep
<1>3. CASE Beats \/ ResetsBoard \/ \E cfg \in {"valid", "invalid"} : Configures(cfg)
  <2>1. client # "loop" /\ RoundEnds
    BY <1>3 DEF Beats, ResetsBoard, Configures, Receive
  <2>. QED BY <2>1, RoundEndIsQueueStep
<1>. QED BY <1>2, <1>3 DEF Host

LEMMA ClientIsQueueStep ==
  ASSUME ThreadInv, Client
  PROVE  [QueueNext]_queueVars /\ ThreadInv'
<1>1. CASE netconn_new \/ LoopTest \/ netconn_delete \/ Forget \/ Delay \/ ConnectFailed
  <2>1. UNCHANGED queueVars
    BY <1>1 DEF netconn_new, LoopTest, netconn_delete, Forget, Delay, ConnectFailed,
                ClientOnly, queueVars
  <2>2. client' \in ClientSteps
    BY <1>1 DEF netconn_new, LoopTest, netconn_delete, Forget, Delay, ConnectFailed, ClientSteps
  <2>3. enq[Control].pc = "idle" /\ enq' = enq
    BY <1>1 DEF netconn_new, LoopTest, netconn_delete, Forget, Delay, ConnectFailed,
                ThreadInv, NotEnqueueing
  <2>. QED BY <2>1, <2>2, <2>3 DEF ThreadInv
<1>2. CASE ReceiveError
  <2>1. client # "loop" /\ RoundEnds BY <1>2 DEF ReceiveError
  <2>. QED BY <2>1, RoundEndIsQueueStep
<1>3. CASE Connected
  <2>1. MakeControl(29) BY <1>3, RequestIsControl DEF Connected, ThreadInv
  <2>2. client' = "loop" BY <1>3 DEF Connected
  <2>. QED BY <2>1, <2>2 DEF QueueNext, ThreadInv, ClientSteps
<1>. QED BY <1>1, <1>2, <1>3 DEF Client

LEMMA TaskIsQueueStep ==
  ASSUME QueueTypeOK, ThreadInv, Makes \/ Sends \/ \E t \in Tasks : Copies(t)
  PROVE  [QueueNext]_queueVars /\ ThreadInv'
<1>1. CASE Makes
  <2>1. MakeStep /\ client' = client BY <1>1 DEF Makes, clientVars
  <2>2. enq'[Control] = enq[Control]
    BY <2>1, FrameType DEF MakeStep, MakeRealtime, MakeCurve, Enqueue, QueueTypeOK
  <2>. QED BY <2>1, <2>2 DEF QueueNext, ThreadInv
<1>2. CASE Sends
  <2>1. SendStep BY <1>2 DEF Sends, Send, SendStep, PassStartsHere, WriteAccepted,
                             WriteRetried, WriteGivenUp
  <2>2. client' = client /\ enq' = enq
    BY <1>2 DEF Sends, Send, PassStartsHere, WriteAccepted, WriteRetried, WriteGivenUp,
                clientVars, SkipSlot, TakeSlot, TakeCurve, PassEnds, PassStarts, Accepted,
                Retried, GivenUp
  <2>. QED BY <2>1, <2>2 DEF QueueNext, ThreadInv
<1>3. CASE \E t \in Tasks : Copies(t)
  <2>1. PICK t \in Tasks : Copies(t) BY <1>3
  <2>2. CopyStep(t) /\ client' = client BY <2>1 DEF Copies, clientVars
  <2>3. enq[Control].pc = "idle" => enq'[Control].pc = "idle"
    BY <2>2, FrameType DEF CopyStep, add_begin, add_end, add_curve_begin, add_curve_end,
       CanLock, Locks, Gives, NoJob, QueueTypeOK
  <2>. QED BY <2>2, <2>3 DEF QueueNext, ThreadInv
<1>. QED BY <1>1, <1>2, <1>3

LEMMA RoundIsQueueStep ==
  ASSUME ThreadInv, Round
  PROVE  [QueueNext]_queueVars /\ ThreadInv'
<1>1. CASE client = "recv"
  <2>1. client # "loop" /\ RoundEnds BY <1>1 DEF Round, ReceiveTimeout
  <2>. QED BY <2>1, RoundEndIsQueueStep
<1>2. CASE client # "recv"
  <2>1. UNCHANGED <<queueVars, client>> BY <1>2 DEF Round, ClientOnly, queueVars
  <2>. QED BY <2>1, AsideIsQueueStep
<1>. QED BY <1>1, <1>2

LEMMA StepIsQueueStep ==
  ASSUME QueueTypeOK, ThreadInv, [Next]_vars
  PROVE  [QueueNext]_queueVars /\ ThreadInv'
<1>1. CASE HardwareReset
  <2>1. QueueReset /\ client' = "connect" /\ enq' = NoJobs
    BY <1>1 DEF HardwareReset, QueueReset, ClientReset
  <2>2. enq'[Control].pc = "idle" BY <2>1, FrameType DEF NoJobs, NoJob
  <2>. QED BY <2>1, <2>2 DEF QueueNext, ThreadInv, ClientSteps
<1>2. CASE UNCHANGED vars BY <1>2, AsideIsQueueStep DEF vars, clientVars
<1>. QED BY <1>1, <1>2, HostIsQueueStep, ClientIsQueueStep, TaskIsQueueStep, RoundIsQueueStep
         DEF Next

LEMMA ThreadInit == Init => QueueInit /\ ThreadInv
<1>. SUFFICES ASSUME Init PROVE ThreadInv
  BY DEF Init
<1>1. enq = NoJobs /\ client = "connect" BY DEF Init, QueueInit, ClientInit
<1>2. enq[Control].pc = "idle" BY <1>1, FrameType DEF NoJobs, NoJob
<1>. QED BY <1>1, <1>2 DEF ThreadInv, ClientSteps

\* The connection, the host, the supervisor and the resets use the queues in no
\* other way than TcpQueue lets anybody: what it proves of them holds here.
THEOREM SystemUsesTheQueues == Spec => QueueSpec
<1>1. Init => QueueInit /\ QueueInv /\ ThreadInv BY ThreadInit, QueueInitInv
<1>2. QueueInv /\ ThreadInv /\ [Next]_vars => [QueueNext]_queueVars /\ (QueueInv /\ ThreadInv)'
  <2>1. QueueInv => QueueTypeOK BY DEF QueueInv
  <2>. QED BY <2>1, StepIsQueueStep, QueueStepKeeps
<1>. QED BY <1>1, <1>2, PTL DEF Spec, QueueSpec

-------------------------------------------------------------------------------
(* The flags of the frames.                                                *)

LEMMA EnqueueKeepsFlags ==
  ASSUME QueueTypeOK, FlagInv, NEW t \in Tasks, NEW f, NEW flag \in Flags,
         t \in Ports => flag = 0, Enqueue(t, f, flag), UNCHANGED <<slots, fifo, sender>>
  PROVE  FlagInv'
<1>1. \A u \in Tasks : enq'[u].reset_flag = IF u = t THEN flag ELSE enq[u].reset_flag
  BY DEF Enqueue, QueueTypeOK
<1>. QED BY <1>1, FrameType DEF FlagInv

LEMMA CopyKeepsFlags ==
  ASSUME QueueInv, FlagInv, NEW t \in Tasks, CopyStep(t)
  PROVE  FlagInv'
<1>. USE DEF QueueInv
<1>1. sender' = sender
  BY DEF CopyStep, add_begin, add_end, add_curve_begin, add_curve_end
<1>2. \A u \in Tasks : enq'[u].reset_flag \in {0, enq[u].reset_flag}
  <2>1. Locks(t) \/ Gives(t)
    BY Zenon DEF CopyStep, add_begin, add_end, add_curve_begin, add_curve_end
  <2>2. CASE Locks(t) BY <2>2 DEF Locks, QueueTypeOK
  <2>3. CASE Gives(t) BY <2>3 DEF Gives, NoJob, QueueTypeOK
  <2>. QED BY <2>1, <2>2, <2>3
<1>3. \A u \in Tasks : slots'[u].reset_flag \in {slots[u].reset_flag, enq[u].reset_flag}
  <2>1. CASE add_begin(t)
    BY <2>1 DEF add_begin, QueueTypeOK, Slot
  <2>2. CASE add_end(t)
    BY <2>2 DEF add_end, QueueTypeOK, Slot
  <2>3. CASE add_curve_begin(t) \/ add_curve_end(t)
    BY <2>3 DEF add_curve_begin, add_curve_end
  <2>. QED BY <2>1, <2>2, <2>3 DEF CopyStep
<1>4. \A k \in 0 .. (Depth - 1) : fifo'[k].reset_flag = 0
  <2>1. CASE add_begin(t) \/ add_end(t) BY <2>1 DEF add_begin, add_end, FlagInv, ringVars
  <2>2. CASE add_curve_begin(t)
    <3>1. t \in Ports BY <2>2 DEF add_curve_begin, CanLock, EnqInv, Tasks
    <3>2. enq[t].reset_flag = 0 BY <3>1 DEF FlagInv
    <3>. QED BY <2>2, <3>2 DEF add_curve_begin, QueueTypeOK, FlagInv
  <2>3. CASE add_curve_end(t)
    BY <2>3 DEF add_curve_end, QueueTypeOK, FlagInv
  <2>. QED BY <2>1, <2>2, <2>3 DEF CopyStep
<1>5. \A u \in Tasks : enq'[u].reset_flag \in Flags /\ slots'[u].reset_flag \in Flags
  BY <1>2, <1>3 DEF FlagInv, Flags
<1>6. \A p \in Ports : enq'[p].reset_flag = 0 /\ slots'[p].reset_flag = 0
  BY <1>2, <1>3, FrameType DEF FlagInv
<1>. QED BY <1>1, <1>4, <1>5, <1>6 DEF FlagInv

LEMMA SendKeepsFlags ==
  ASSUME QueueInv, FlagInv, SendStep
  PROVE  FlagInv'
<1>. USE DEF QueueInv
<1>1. CASE TakeSlot
  <2>1. sender.slot \in Tasks /\ slots[sender.slot].frame \in Frames \cup {Partial}
    BY DEF QueueTypeOK, Slot
  <2>2. /\ sender'.reset_flag = slots[sender.slot].reset_flag
        /\ sender'.frame = slots[sender.slot].frame
    BY <1>1 DEF TakeSlot, QueueTypeOK
  <2>3. \A u \in Tasks : slots'[u].reset_flag = slots[u].reset_flag
    BY <1>1, <2>1 DEF TakeSlot, QueueTypeOK, Slot
  <2>4. sender'.frame.task = sender.slot
    <3>1. slots[sender.slot].frame # Partial
      BY <1>1, <2>1, FrameType DEF TakeSlot, SlotInv, LockInv
    <3>. QED BY <1>1, <2>1, <2>2, <3>1 DEF TakeSlot, SlotInv
  <2>5. sender'.frame.task # Control => sender'.reset_flag = 0
    BY <2>1, <2>2, <2>4 DEF FlagInv, Tasks
  <2>6. enq' = enq /\ fifo' = fifo BY <1>1 DEF TakeSlot, ringVars
  <2>7. sender'.reset_flag \in Flags BY <2>1, <2>2 DEF FlagInv
  <2>. QED BY <2>3, <2>5, <2>6, <2>7, FrameType DEF FlagInv
<1>2. CASE TakeCurve
  <2>1. head \in 0 .. (Depth - 1) BY DEF QueueTypeOK
  <2>2. sender'.reset_flag = fifo[head].reset_flag BY <1>2 DEF TakeCurve, QueueTypeOK
  <2>3. sender'.reset_flag = 0 BY <2>1, <2>2 DEF FlagInv
  <2>4. UNCHANGED <<enq, slots, fifo>> BY <1>2 DEF TakeCurve
  <2>. QED BY <2>3, <2>4 DEF FlagInv, Flags
<1>3. CASE PassStarts \/ SkipSlot \/ PassEnds \/ Accepted \/ GivenUp
  <2>1. sender'.pc # "write" /\ sender'.reset_flag \in {0, sender.reset_flag}
    <3>1. sender' \in {[Idle EXCEPT !.pc = "scan"], Idle, NextSlot, [HandsEmpty EXCEPT !.pc = "fifo"]}
      BY <1>3, Zenon DEF PassStarts, SkipSlot, PassEnds, Accepted, GivenUp
    <3>2. NextSlot.pc # "write" /\ NextSlot.reset_flag = sender.reset_flag
      BY DEF NextSlot, HandsEmpty, QueueTypeOK
    <3>3. /\ [HandsEmpty EXCEPT !.pc = "fifo"].pc = "fifo"
          /\ [HandsEmpty EXCEPT !.pc = "fifo"].reset_flag = sender.reset_flag
      BY DEF HandsEmpty, QueueTypeOK
    <3>4. /\ [Idle EXCEPT !.pc = "scan"].pc = "scan" /\ [Idle EXCEPT !.pc = "scan"].reset_flag = 0
          /\ Idle.pc = "idle" /\ Idle.reset_flag = 0
      BY DEF Idle
    <3>5. "scan" # "write" /\ "fifo" # "write" /\ "idle" # "write" OBVIOUS
    <3>. QED BY <3>1, <3>2, <3>3, <3>4, <3>5, Zenon
  <2>2. UNCHANGED <<enq, slots, fifo>>
    BY <1>3 DEF PassStarts, SkipSlot, PassEnds, Accepted, GivenUp, ringVars
  <2>. QED BY <2>1, <2>2 DEF FlagInv, Flags
<1>4. CASE Retried
  <2>1. /\ sender'.pc = sender.pc /\ sender'.frame = sender.frame
        /\ sender'.reset_flag = sender.reset_flag
    BY <1>4 DEF Retried, QueueTypeOK
  <2>. QED BY <1>4, <2>1 DEF Retried, FlagInv, ringVars
<1>. QED BY <1>1, <1>2, <1>3, <1>4 DEF SendStep

LEMMA EmptyFlags ==
  ASSUME enq = NoJobs, slots = NoSlots, fifo = EmptyFifo, sender = Idle
  PROVE  FlagInv
<1>1. \A t \in Tasks : enq[t].reset_flag = 0 /\ slots[t].reset_flag = 0
  BY DEF NoJobs, NoJob, NoSlots
<1>2. \A k \in 0 .. (Depth - 1) : fifo[k].reset_flag = 0 BY DEF EmptyFifo
<1>3. sender.reset_flag = 0 /\ sender.pc = "idle" BY DEF Idle
<1>. QED BY <1>1, <1>2, <1>3, FrameType DEF FlagInv, Flags

LEMMA FlagsKept ==
  ASSUME QueueInv, FlagInv, [QueueNext]_queueVars
  PROVE  FlagInv'
<1>1. CASE MakeStep
  <2>1. PICK p \in Ports : MakeRealtime(p) \/ MakeCurve(p) BY <1>1 DEF MakeStep
  <2>2. PICK f : Enqueue(p, f, 0) BY <2>1 DEF MakeRealtime, MakeCurve
  <2>3. UNCHANGED <<slots, fifo, sender>> BY <2>1 DEF MakeRealtime, MakeCurve, ringVars
  <2>. QED BY <2>2, <2>3, EnqueueKeepsFlags, FrameType DEF Flags, QueueInv
<1>2. CASE \E reset_flag \in {0, 29} : MakeControl(reset_flag)
  <2>1. PICK flag \in Flags : MakeControl(flag) BY <1>2 DEF Flags, RESET_REQUEST
  <2>2. Enqueue(Control, Frame(Control, FALSE, 0), flag) /\ UNCHANGED <<slots, fifo, sender>>
    BY <2>1 DEF MakeControl, ringVars
  <2>. QED BY <2>2, EnqueueKeepsFlags, FrameType DEF QueueInv
<1>3. CASE SendStep BY <1>3, SendKeepsFlags
<1>4. CASE \E t \in Tasks : CopyStep(t) BY <1>4, CopyKeepsFlags
<1>5. CASE QueueReset
  <2>1. enq' = NoJobs /\ slots' = NoSlots /\ fifo' = EmptyFifo /\ sender' = Idle
    BY <1>5 DEF QueueReset
  <2>2. \A t \in Tasks : enq'[t].reset_flag = 0 /\ slots'[t].reset_flag = 0
    BY <2>1 DEF NoJobs, NoJob, NoSlots
  <2>3. \A k \in 0 .. (Depth - 1) : fifo'[k].reset_flag = 0 BY <2>1 DEF EmptyFifo
  <2>4. sender'.reset_flag = 0 /\ sender'.pc = "idle" BY <2>1 DEF Idle
  <2>. QED BY <2>2, <2>3, <2>4, FrameType DEF FlagInv, Flags
<1>6. CASE UNCHANGED queueVars BY <1>6 DEF queueVars, ringVars, FlagInv
<1>. QED BY <1>1, <1>2, <1>3, <1>4, <1>5, <1>6 DEF QueueNext

-------------------------------------------------------------------------------
(* The connection.                                                         *)

\* The end of a round of client_thread, which comes from "recv".
LEMMA RoundEndConn ==
  ASSUME ConnInv, RoundEnds, tcp_connected' \in BOOLEAN, recv_err_cnt' \in 0 .. RecvErrMax,
         download_flag' \in BOOLEAN,
         tcp_connected' => recv_err_cnt' < RecvErrMax
  PROVE  ConnInv'
<1>1. client' = "loop" /\ tcp_conn' = tcp_conn BY DEF RoundEnds
<1>2. config_req_timer' \in 0 .. (RequestEvery - 1)
  BY ClientAssumption DEF RoundEnds, RequestAgain, ConnInv
<1>. QED BY <1>1, <1>2 DEF ConnInv

LEMMA ReceiveConn ==
  ASSUME ConnInv, client = "recv", recv_err_cnt' = 0, UNCHANGED tcp_connected, RoundEnds,
         download_flag' \in BOOLEAN
  PROVE  ConnInv'
<1>1. /\ tcp_connected' \in BOOLEAN /\ recv_err_cnt' \in 0 .. RecvErrMax
      /\ recv_err_cnt' < RecvErrMax
  BY ClientAssumption DEF ConnInv
<1>. QED BY <1>1, RoundEndConn

LEMMA HostConn ==
  ASSUME ConnInv, Host
  PROVE  ConnInv'
<1>1. CASE GoesDown \/ Drops \/ ComesUp
  <2>1. UNCHANGED <<client, tcp_connected, recv_err_cnt, config_req_timer, download_flag>>
    BY <1>1 DEF GoesDown, Drops, ComesUp
  <2>2. tcp_conn' \in ConnStates
    BY <1>1 DEF GoesDown, Drops, ComesUp, ConnInv, ConnStates
  <2>3. tcp_conn' \in {"open", "stuck"} => tcp_conn \in {"open", "stuck"}
    BY <1>1 DEF GoesDown, Drops, ComesUp
  <2>. QED BY <2>1, <2>2, <2>3 DEF ConnInv
<1>2. CASE Beats
  <2>1. download_flag' = download_flag
    BY <1>2 DEF Beats, Receive, HandleHeartbeat
  <2>. QED BY <1>2, <2>1, ReceiveConn DEF Beats, Receive, ConnInv
<1>3. CASE ResetsBoard
  <2>1. download_flag' = download_flag
    BY <1>3 DEF ResetsBoard, Receive, HandleReset
  <2>. QED BY <1>3, <2>1, ReceiveConn DEF ResetsBoard, Receive, ConnInv
<1>4. CASE \E cfg \in {"valid", "invalid"} : Configures(cfg)
  <2>1. PICK cfg \in {"valid", "invalid"} : Configures(cfg) BY <1>4
  <2>2. download_flag' \in BOOLEAN
    BY <2>1 DEF Configures, Receive, HandleConfig, ConnInv
  <2>. QED BY <2>1, <2>2, ReceiveConn DEF Configures, Receive
<1>5. CASE Ignores BY <1>5 DEF Ignores, clientVars, ConnInv
<1>. QED BY <1>1, <1>2, <1>3, <1>4, <1>5 DEF Host

LEMMA ClientConn ==
  ASSUME ConnInv, Client
  PROVE  ConnInv'
<1>. USE DEF ConnInv, ConnStates
<1>1. CASE netconn_new BY <1>1 DEF netconn_new
<1>2. CASE LoopTest BY <1>2 DEF LoopTest
<1>3. CASE ReceiveError BY <1>3, RoundEndConn DEF ReceiveError
<1>4. CASE netconn_delete BY <1>4 DEF netconn_delete
<1>5. CASE Forget BY <1>5 DEF Forget
<1>6. CASE Delay BY <1>6 DEF Delay
<1>7. CASE Connected BY <1>7, ClientAssumption DEF Connected
<1>8. CASE ConnectFailed BY <1>8 DEF ConnectFailed
<1>. QED BY <1>1, <1>2, <1>3, <1>4, <1>5, <1>6, <1>7, <1>8 DEF Client

\* A send that is given up found the connection gone, so that client_thread,
\* wherever it is, was not waiting on one that works.
LEMMA SendConn ==
  ASSUME ConnInv, Sends
  PROVE  ConnInv'
<1>1. CASE WriteGivenUp BY <1>1 DEF WriteGivenUp, WriteFails, ConnInv
<1>2. CASE UNCHANGED clientVars BY <1>2 DEF clientVars, ConnInv
<1>. QED BY <1>1, <1>2 DEF Sends, Send, PassStartsHere, WriteAccepted, WriteRetried

LEMMA RoundConn ==
  ASSUME ConnInv, Round
  PROVE  ConnInv'
<1>1. CASE client = "recv"
  <2>1. ReceiveTimeout BY <1>1 DEF Round
  <2>2. recv_err_cnt' \in 0 .. RecvErrMax
    <3>1. recv_err_cnt \in 0 .. RecvErrMax /\ recv_err_cnt < RecvErrMax BY <1>1 DEF ConnInv
    <3>. QED BY <2>1, <3>1, ClientAssumption DEF ReceiveTimeout
  <2>3. tcp_connected' = (tcp_connected /\ recv_err_cnt' < RecvErrMax)
    BY <2>1 DEF ReceiveTimeout
  <2>5. tcp_connected' \in BOOLEAN /\ (tcp_connected' => recv_err_cnt' < RecvErrMax)
    BY <2>3, Zenon
  <2>4. /\ download_flag' \in BOOLEAN
        /\ RoundEnds
    BY <2>1 DEF ReceiveTimeout, ConnInv
  <2>. QED BY <2>2, <2>4, <2>5, RoundEndConn
<1>2. CASE client # "recv" BY <1>2 DEF Round, ConnInv
<1>. QED BY <1>1, <1>2

LEMMA ConnKept ==
  ASSUME ConnInv, [Next]_vars
  PROVE  ConnInv'
<1>1. CASE HardwareReset
  <2>1. 0 \in 0 .. RecvErrMax /\ 0 < RecvErrMax /\ 0 \in 0 .. (RequestEvery - 1)
    BY ClientAssumption
  <2>2. ClientReset BY <1>1 DEF HardwareReset
  <2>. QED BY <2>1, <2>2 DEF ClientReset, ConnInv, ConnStates
<1>2. CASE Makes \/ \E t \in Tasks : Copies(t)
  BY <1>2 DEF Makes, Copies, clientVars, ConnInv
<1>3. CASE UNCHANGED vars BY <1>3 DEF vars, clientVars, ConnInv
<1>. QED BY <1>1, <1>2, <1>3, HostConn, ClientConn, SendConn, RoundConn DEF Next

-------------------------------------------------------------------------------
(* The supervisor and its host.                                            *)

LEMMA CountedType ==
  ASSUME NEW limit \in Nat, NEW rounds \in 0 .. (limit + 1)
  PROVE  Counted(rounds, limit) \in 0 .. (limit + 1)
BY DEF Counted

LEMMA RoundCounts ==
  ASSUME CountInv, Round
  PROVE  CountInv'
<1>. USE SupervisorAssumption
<1>1. heartbeat' \in 0 .. (HeartbeatMax + 1)
  BY CountedType DEF CountInv, Round, SupervisorRound
<1>2. WDTTCPSENDFLAG' \in 0 .. (TaskMax + 1)
  <2>1. Counted(WDTTCPSENDFLAG, TaskMax) \in 0 .. (TaskMax + 1) BY CountedType DEF CountInv
  <2>2. WDTTCPSENDFLAG' \in {0, Counted(WDTTCPSENDFLAG, TaskMax)} BY DEF Round, SupervisorRound
  <2>. QED BY <2>1, <2>2
<1>3. WDTUARTFLAG' \in [Ports -> 0 .. (TaskMax + 1)]
  <2>1. \A p \in Ports : Counted(WDTUARTFLAG[p], TaskMax) \in 0 .. (TaskMax + 1)
    BY CountedType DEF CountInv
  <2>. QED BY <2>1 DEF Round, SupervisorRound
<1>4. WTD_RESET' \in Nat
  <2>1. ASSUME PortsSilent # {}
        PROVE  20 + (CHOOSE p \in PortsSilent : \A q \in PortsSilent : q <= p) \in Nat
    <3>1. PortsSilent \subseteq 1 .. NPorts BY DEF PortsSilent, Ports
    <3>2. \E p \in PortsSilent : \A q \in PortsSilent : q <= p
      BY <2>1, <3>1, GreatestThere, QueueAssumption
    <3>. DEFINE last == CHOOSE p \in PortsSilent : \A q \in PortsSilent : q <= p
    <3>3. last \in PortsSilent BY <3>2, Zenon
    <3>. HIDE DEF last
    <3>4. last \in Nat BY <3>1, <3>3
    <3>5. 20 + last \in Nat BY <3>4
    <3>. QED BY <3>5 DEF last
  <2>2. WTD_RESET' = NewReset /\ WTD_RESET \in Nat BY DEF Round, SupervisorRound, CountInv
  <2>. QED BY <2>1, <2>2 DEF NewReset
<1>5. unfed' \in 0 .. DogRounds BY DEF Round, SupervisorRound, CountInv
<1>. QED BY <1>1, <1>2, <1>3, <1>4, <1>5 DEF CountInv

\* Who else writes what the supervisor counts, or the reason for a reset.
LEMMA OtherCounts ==
  ASSUME Host \/ Client \/ Makes \/ Sends \/ (\E t \in Tasks : Copies(t)) \/ UNCHANGED vars
  PROVE  /\ UNCHANGED supervisorVars
         /\ heartbeat' \in {0, heartbeat}
         /\ \/ WTD_RESET' = WTD_RESET
            \/ ResetsBoard /\ WTD_RESET' = RESET_BY_HOST
            \/ WriteGivenUp /\ WTD_RESET' = sender.reset_flag
<1>1. CASE Host
  <2>1. CASE GoesDown \/ Drops \/ ComesUp \/ Ignores
    BY <2>1 DEF GoesDown, Drops, ComesUp, Ignores, clientVars
  <2>2. CASE Beats BY <2>2 DEF Beats, Receive, HandleHeartbeat
  <2>3. CASE ResetsBoard BY <2>3 DEF ResetsBoard, Receive, HandleReset
  <2>4. CASE \E cfg \in {"valid", "invalid"} : Configures(cfg)
    BY <2>4 DEF Configures, Receive, HandleConfig
  <2>. QED BY <1>1, <2>1, <2>2, <2>3, <2>4 DEF Host
<1>2. CASE Client
  BY <1>2 DEF Client, netconn_new, LoopTest, ReceiveError, netconn_delete, Forget, Delay,
              Connected, ConnectFailed
<1>3. CASE Makes \/ (\E t \in Tasks : Copies(t)) \/ UNCHANGED vars
  BY <1>3 DEF Makes, Copies, vars, clientVars
<1>4. CASE Sends
  <2>1. UNCHANGED supervisorVars BY <1>4 DEF Sends
  <2>2. CASE WriteGivenUp BY <2>1, <2>2 DEF WriteGivenUp
  <2>3. CASE UNCHANGED clientVars BY <2>1, <2>3 DEF clientVars
  <2>. QED BY <1>4, <2>2, <2>3 DEF Sends, Send, PassStartsHere, WriteAccepted, WriteRetried
<1>. QED BY <1>1, <1>2, <1>3, <1>4

LEMMA CountsKept ==
  ASSUME QueueTypeOK, CountInv, [Next]_vars
  PROVE  CountInv'
<1>1. CASE HardwareReset
  BY <1>1, SupervisorAssumption
  DEF HardwareReset, ClientReset, SupervisorReset, CountInv
<1>2. CASE Host \/ Client \/ Makes \/ Sends \/ (\E t \in Tasks : Copies(t)) \/ UNCHANGED vars
  <2>1. sender.reset_flag \in Nat BY DEF QueueTypeOK
  <2>2. WTD_RESET' \in Nat BY <1>2, <2>1, OtherCounts DEF CountInv, RESET_BY_HOST
  <2>3. heartbeat' \in 0 .. (HeartbeatMax + 1)
    BY <1>2, OtherCounts, SupervisorAssumption DEF CountInv
  <2>4. UNCHANGED supervisorVars BY <1>2, OtherCounts
  <2>. QED BY <2>2, <2>3, <2>4 DEF CountInv, supervisorVars
<1>. QED BY <1>1, <1>2, RoundCounts DEF Next

\* The bounds on time, without the product.
LEMMA RoundsAreNat ==
  /\ DelayRounds \in Nat \ {0} /\ ConnectMax \in Nat \ {0} /\ BeatEvery \in Nat \ {0}
  /\ MaxDrops \in Nat /\ HeartbeatMax \in Nat \ {0} /\ TaskMax \in Nat \ {0}
  /\ HeartbeatMax <= TaskMax /\ BeatEvery < RecvErrMax
BY TimeAssumption, SupervisorAssumption

\* What happens to the host itself, and to the clocks.
LEMMA WaitsAtMost ==
  /\ WaitMax \in Nat \ {0}
  /\ client = "delay" => WaitMax = DelayRounds
  /\ client = "connecting" => WaitMax = ConnectMax
  /\ client \notin {"delay", "connecting"} => WaitMax = 1
BY RoundsAreNat DEF WaitMax

LEMMA WaitsNext ==
  /\ WaitMax' \in Nat \ {0}
  /\ client' = client => WaitMax' = WaitMax
  /\ client' \notin {"delay", "connecting"} => WaitMax' = 1
BY RoundsAreNat DEF WaitMax

LEMMA HostTypes ==
  ASSUME HostInv, [Next]_vars
  PROVE  HostInv'
<1>. USE DEF HostInv
<1>1. CASE Host
  <2>1. CASE GoesDown \/ Drops \/ ComesUp \/ Ignores
    <3>1. client' = client /\ waited' = waited
      BY <2>1 DEF GoesDown, Drops, ComesUp, Ignores, clientVars
    <3>2. waited' \in 0 .. WaitMax' BY <3>1, WaitsNext
    <3>3. host' \in {"up", "down"} /\ fails' \in BOOLEAN /\ asked' \in BOOLEAN
      BY <2>1 DEF GoesDown, Drops, ComesUp, Ignores
    <3>4. quiet' \in 0 .. BeatEvery /\ drops' \in 0 .. MaxDrops
      BY <2>1, RoundsAreNat DEF GoesDown, Drops, ComesUp, Ignores
    <3>. QED BY <3>2, <3>3, <3>4
  <2>2. CASE Beats \/ ResetsBoard \/ \E cfg \in {"valid", "invalid"} : Configures(cfg)
    <3>1. client = "recv" /\ client' = "loop" /\ waited' = waited
      BY <2>2 DEF Beats, ResetsBoard, Configures, Receive, RoundEnds, hostVars
    <3>2. waited' \in 0 .. WaitMax' BY <3>1, WaitsAtMost, WaitsNext
    <3>3. /\ host' = host /\ fails' = fails /\ asked' \in {FALSE, asked}
          /\ quiet' \in {0, quiet} /\ drops' \in {0, drops}
      BY <2>2 DEF Beats, ResetsBoard, Configures, hostVars
    <3>4. asked' \in BOOLEAN BY <3>3
    <3>5. quiet' \in 0 .. BeatEvery /\ drops' \in 0 .. MaxDrops BY <3>3, RoundsAreNat
    <3>. QED BY <3>2, <3>3, <3>4, <3>5, Zenon
  <2>. QED BY <1>1, <2>1, <2>2 DEF Host
<1>2. CASE Client
  <2>1. /\ host' = host /\ fails' = fails /\ asked' = asked /\ drops' = drops
        /\ quiet' \in {0, quiet}
    BY <1>2 DEF Client
  <2>2. waited' \in 0 .. WaitMax'
    <3>1. CASE client = "loop"
      <4>1. LoopTest /\ waited' = waited
        BY <1>2, <3>1 DEF Client, netconn_new, ReceiveError, netconn_delete, Forget, Delay,
                          Connected, ConnectFailed
      <4>2. client' \in {"recv", "close"} BY <4>1 DEF LoopTest
      <4>. QED BY <3>1, <4>1, <4>2, WaitsAtMost, WaitsNext
    <3>2. CASE client # "loop"
      <4>1. waited' = 0 BY <1>2, <3>2 DEF Client
      <4>. QED BY <4>1, WaitsNext
    <3>. QED BY <3>1, <3>2
  <2>. QED BY <2>1, <2>2, RoundsAreNat
<1>3. CASE Makes \/ (\E t \in Tasks : Copies(t)) \/ UNCHANGED vars
  <2>1. UNCHANGED hostVars /\ client' = client
    BY <1>3 DEF Makes, Copies, vars, clientVars
  <2>. QED BY <2>1, WaitsNext DEF hostVars
<1>4. CASE Sends
  <2>1. UNCHANGED <<host, fails, waited, quiet, drops>> /\ asked' \in BOOLEAN BY <1>4 DEF Sends
  <2>2. client' = client
    BY <1>4 DEF Sends, Send, PassStartsHere, WriteAccepted, WriteRetried, WriteGivenUp, clientVars
  <2>. QED BY <2>1, <2>2, WaitsNext
<1>5. CASE Round
  <2>1. UNCHANGED <<host, fails, asked, drops>> BY <1>5 DEF Round
  <2>2. quiet' \in 0 .. BeatEvery
    <3>1. client = "recv" /\ host = "up" => quiet < BeatEvery BY <1>5 DEF Round, Quiet, Waits
    <3>2. quiet' = IF client = "recv" /\ host = "up" THEN quiet + 1 ELSE quiet
      BY <1>5 DEF Round
    <3>. QED BY <3>1, <3>2, RoundsAreNat
  <2>3. waited' \in 0 .. WaitMax
    <3>1. waited' = IF waited < WaitMax THEN waited + 1 ELSE waited BY <1>5 DEF Round
    <3>. QED BY <3>1, WaitsAtMost
  <2>4. WaitMax' = WaitMax
    <3>1. CASE client = "recv"
      <4>1. client' = "loop" BY <1>5, <3>1 DEF Round, ReceiveTimeout, RoundEnds
      <4>. QED BY <3>1, <4>1, WaitsAtMost, WaitsNext
    <3>2. CASE client # "recv"
      <4>1. client' = client BY <1>5, <3>2 DEF Round
      <4>. QED BY <4>1, WaitsNext
    <3>. QED BY <3>1, <3>2
  <2>. QED BY <2>1, <2>2, <2>3, <2>4
<1>6. CASE HardwareReset
  <2>1. /\ host' = host /\ fails' = fails /\ asked' = FALSE
        /\ waited' = 0 /\ quiet' = 0 /\ drops' = 0
    BY <1>6 DEF HardwareReset
  <2>2. 0 \in 0 .. WaitMax' /\ 0 \in 0 .. BeatEvery /\ 0 \in 0 .. MaxDrops
    BY WaitsNext, RoundsAreNat
  <2>3. FALSE \in BOOLEAN OBVIOUS
  <2>. QED BY <2>1, <2>2, <2>3, Zenon
<1>. QED BY <1>1, <1>2, <1>3, <1>4, <1>5, <1>6 DEF Next

-------------------------------------------------------------------------------
(* A steady host.                                                          *)

\* What the lost connections cost, and the most they may cost.
LEMMA LostMore ==
  ASSUME NEW n \in Nat
  PROVE  Lost(n) \in Nat /\ Lost(0) = 0 /\ Lost(n + 1) = Lost(n) + PerDrop /\ PerDrop \in Nat
BY RoundsAreNat DEF Lost, PerDrop

LEMMA LostLimit ==
  ASSUME NEW n \in 0 .. MaxDrops
  PROVE  ConnectMax + BeatEvery + Lost(n) <= HeartbeatMax
<1>1. Lost(n) <= MaxDrops * PerDrop
  <2>1. PerDrop \in Nat /\ MaxDrops - n \in Nat /\ MaxDrops \in Nat BY RoundsAreNat DEF PerDrop
  <2>2. (MaxDrops - n) * PerDrop \in Nat BY <2>1
  <2>3. MaxDrops * PerDrop = n * PerDrop + (MaxDrops - n) * PerDrop BY <2>1
  <2>. QED BY <2>1, <2>2, <2>3 DEF Lost
<1>2. Lost(n) \in Nat BY LostMore
<1>3. MaxDrops * PerDrop \in Nat /\ ConnectMax + BeatEvery + MaxDrops * PerDrop <= HeartbeatMax
  BY TimeAssumption DEF PerDrop
<1>. DEFINE All == MaxDrops * PerDrop
<1>4. All \in Nat /\ Lost(n) <= All /\ ConnectMax + BeatEvery + All <= HeartbeatMax
  BY <1>1, <1>3
<1>. HIDE DEF All
<1>. QED BY <1>2, <1>4, RoundsAreNat

\* So it is never silent for too long.
LEMMA HeardInTime ==
  ASSUME HostInv, client \in ClientSteps
  PROVE  Silence <= HeartbeatMax
<1>1. ConnectMax + BeatEvery + Lost(drops) <= HeartbeatMax /\ Lost(drops) \in Nat
  BY LostLimit, LostMore DEF HostInv
<1>2. /\ client = "delay" => waited <= DelayRounds
      /\ client # "delay" => waited <= ConnectMax
      /\ waited \in Nat /\ quiet \in 0 .. BeatEvery
  BY WaitsAtMost, RoundsAreNat DEF HostInv
<1>. QED BY <1>1, <1>2, RoundsAreNat DEF Silence

\* Steps that leave the connection and the counters alone, or find the connection
\* gone already.
LEMMA SteadyAside ==
  ASSUME Steady, WTD_RESET' \in Flags,
         UNCHANGED <<supervisorVars, client, tcp_conn, recv_err_cnt, heartbeat,
                     host, waited, quiet, drops>>,
         tcp_conn = "open" => tcp_connected'
  PROVE  Steady'
<1>1. StateOfConn' BY DEF Steady, StateOfConn
<1>2. Silence' = Silence BY DEF Silence, Lost
<1>3. PortsHeard' BY DEF Steady, PortsHeard, supervisorVars
<1>. QED BY <1>1, <1>2, <1>3 DEF Steady, supervisorVars

\* A heartbeat, or the configuration: client_thread has been in a round.
LEMMA SteadyReceive ==
  ASSUME HostInv, ConnInv, CountInv, ThreadInv, Steady,
         client = "recv", tcp_conn \in {"open", "stuck"}, tcp_connected' = tcp_connected,
         recv_err_cnt' = 0, client' = "loop", heartbeat' \in {0, heartbeat},
         quiet' \in {0, quiet}, drops' \in {0, drops},
         heartbeat' = 0 \/ (quiet' = quiet /\ drops' = drops),
         UNCHANGED <<supervisorVars, tcp_conn, WTD_RESET, host, waited>>
  PROVE  Steady'
<1>0. tcp_conn = "open" BY DEF Steady, StateOfConn
<1>1. quiet' \in Nat /\ drops' \in Nat /\ heartbeat \in Nat BY DEF HostInv, CountInv
<1>2. StateOfConn' BY <1>0, <1>1 DEF Steady, StateOfConn
<1>3. heartbeat' <= Silence'
  <2>1. Silence' = Lost(drops') + ConnectMax + quiet' BY <1>0 DEF Silence, Lost
  <2>2. Silence = Lost(drops) + ConnectMax + quiet BY <1>0 DEF Silence
  <2>3. Lost(drops') \in Nat BY <1>1, LostMore
  <2>4. CASE heartbeat' = 0 BY <2>1, <2>3, <2>4, <1>1, RoundsAreNat
  <2>5. CASE quiet' = quiet /\ drops' = drops
    BY <2>1, <2>2, <2>3, <2>5, <1>1, RoundsAreNat DEF Steady
  <2>. QED BY <2>4, <2>5
<1>4. PortsHeard' BY <1>0 DEF Steady, PortsHeard, supervisorVars
<1>. QED BY <1>2, <1>3, <1>4 DEF Steady, supervisorVars

LEMMA SteadyDrops ==
  ASSUME HostInv, ConnInv, CountInv, ThreadInv, Steady, ~fails, Drops
  PROVE  Steady'
<1>1. /\ tcp_conn' = "dead" /\ drops' = drops + 1 /\ (tcp_conn = "open" => waited > 0)
      /\ UNCHANGED <<supervisorVars, client, heartbeat, WTD_RESET, host, waited, quiet>>
      /\ tcp_conn = "open" \/ (client = "connecting" /\ tcp_conn = "new")
  BY DEF Drops
<1>2. StateOfConn' BY <1>1 DEF Steady, StateOfConn
<1>3. heartbeat' <= Silence'
  <2>1. Lost(drops) \in Nat /\ Lost(drops + 1) = Lost(drops) + PerDrop
    BY LostMore DEF HostInv
  <2>2. Silence <= Lost(drops) + ConnectMax + BeatEvery /\ Silence \in Int
    <3>1. client = "connecting" => waited \in 0 .. ConnectMax BY WaitsAtMost DEF HostInv
    <3>. QED BY <1>1, <2>1, <3>1, RoundsAreNat DEF Silence, HostInv
  <2>3. Silence' = Lost(drops + 1) - DelayRounds BY <1>1 DEF Silence, Lost
  <2>4. heartbeat <= Silence /\ heartbeat' = heartbeat /\ heartbeat \in Nat
    BY <1>1 DEF Steady, CountInv
  <2>5. Silence' = Lost(drops) + ConnectMax + BeatEvery
    BY <2>1, <2>3, RoundsAreNat DEF PerDrop
  <2>. QED BY <2>1, <2>2, <2>4, <2>5, RoundsAreNat
<1>4. PortsHeard'
  <2>1. WDTUARTFLAG' = WDTUARTFLAG /\ heartbeat' = heartbeat /\ heartbeat \in Nat
    BY <1>1 DEF supervisorVars, CountInv
  <2>. QED BY <1>1, <2>1 DEF Steady, PortsHeard
<1>. QED BY <1>1, <1>2, <1>3, <1>4 DEF Steady, supervisorVars

LEMMA SteadyHost ==
  ASSUME HostInv, ConnInv, CountInv, ThreadInv, Steady, ~fails, Host
  PROVE  Steady'
<1>1. ~GoesDown /\ ~ComesUp /\ ~ResetsBoard BY DEF GoesDown, ComesUp, ResetsBoard, Steady
<1>2. CASE Ignores
  BY <1>2, SteadyAside DEF Ignores, clientVars, Steady, StateOfConn
<1>3. CASE Beats
  BY <1>3, SteadyReceive DEF Beats, Receive, HandleHeartbeat, RoundEnds
<1>4. CASE \E cfg \in {"valid", "invalid"} : Configures(cfg)
  BY <1>4, SteadyReceive DEF Configures, Receive, HandleConfig, RoundEnds
<1>. QED BY <1>1, <1>2, <1>3, <1>4, SteadyDrops DEF Host

\* client_thread connects again, with the delay before it behind it.
LEMMA SteadyClient ==
  ASSUME HostInv, ConnInv, CountInv, ThreadInv, Steady, ~fails, Client
  PROVE  Steady'
<1>1. UNCHANGED <<supervisorVars, host, drops, heartbeat, WTD_RESET>>
  BY DEF Client, netconn_new, LoopTest, ReceiveError, netconn_delete, Forget, Delay,
         Connected, ConnectFailed
<1>2. /\ Lost(drops) \in Nat /\ Lost(drops)' = Lost(drops) /\ heartbeat \in Nat
      /\ heartbeat <= Silence /\ StateOfConn /\ PortsHeard /\ WaitMax \in Nat
      /\ waited \in 0 .. WaitMax /\ quiet \in Nat
  BY <1>1, LostMore, WaitsAtMost DEF HostInv, CountInv, Steady, Lost
<1>3. WDTUARTFLAG' = WDTUARTFLAG /\ WDTTCPSENDFLAG' = WDTTCPSENDFLAG
  BY <1>1 DEF supervisorVars
<1>4. client # "loop" => waited' = 0 /\ quiet' = 0 BY DEF Client
<1>5. StateOfConn' /\ heartbeat' <= Silence' /\ PortsHeard'
  <2>. USE <1>1, <1>2, <1>3, <1>4, RoundsAreNat DEF StateOfConn, Silence, PortsHeard
  <2>1. CASE netconn_new
    <3>1. client = "connect" /\ client' = "connecting" /\ tcp_conn' = "new"
      BY <2>1 DEF netconn_new
    <3>. QED BY <3>1
  <2>2. CASE LoopTest
    <3>1. /\ client = "loop" /\ client' = IF tcp_connected THEN "recv" ELSE "close"
          /\ UNCHANGED <<tcp_conn, tcp_connected, recv_err_cnt, waited, quiet>>
      BY <2>2 DEF LoopTest, Client
    <3>. QED BY <3>1
  <2>3. CASE ReceiveError
    <3>1. client = "recv" /\ client' = "loop" /\ tcp_conn = "dead" /\ tcp_conn' = "dead"
      BY <2>3 DEF ReceiveError, RoundEnds
    <3>. QED BY <3>1
  <2>4. CASE netconn_delete
    <3>1. client = "close" /\ client' = "forget" /\ tcp_conn' = "deleted"
      BY <2>4 DEF netconn_delete
    <3>. QED BY <3>1
  <2>5. CASE Forget
    <3>1. client = "forget" /\ client' = "delay" /\ tcp_conn' = "NULL" BY <2>5 DEF Forget
    <3>. QED BY <3>1
  <2>6. CASE waited = DelayRounds /\ Delay
    <3>1. client = "delay" /\ client' = "connect" /\ tcp_conn' = tcp_conn /\ waited = DelayRounds
      BY <2>6 DEF Delay
    <3>. QED BY <3>1
  <2>7. CASE Connected
    <3>1. /\ client = "connecting" /\ client' = "loop" /\ tcp_conn' = "open" /\ tcp_connected'
          /\ recv_err_cnt' = 0 /\ tcp_conn = "new"
      BY <2>7 DEF Connected, Client, Steady, netconn_new, LoopTest, ReceiveError, netconn_delete,
                  Forget, Delay, ConnectFailed
    <3>2. waited <= ConnectMax BY <3>1, WaitsAtMost
    <3>. QED BY <3>1, <3>2
  <2>8. CASE (host = "down" \/ tcp_conn = "dead") /\ ConnectFailed
    <3>1. client = "connecting" /\ client' = "delay" /\ tcp_conn = "dead" /\ tcp_conn' = "NULL"
      BY <2>8 DEF ConnectFailed, Steady
    <3>. QED BY <3>1
  <2>. QED BY <2>1, <2>2, <2>3, <2>4, <2>5, <2>6, <2>7, <2>8 DEF Client
<1>. QED BY <1>1, <1>3, <1>5 DEF Steady

\* In a round with a steady host nobody is blocked on a connection: a port task
\* may be waiting for the ring while there is none.
LEMMA NobodyIsBlocked ==
  ASSUME QueueInv, ConnInv, HostInv, Steady, Quiet
  PROVE  /\ ~SendBlocked
         /\ client = "recv" => \A p \in Ports : ~PortBlocked(p)
<1>1. sender.pc = "idle" /\ ~(tcp_connected /\ SomethingToSend)
  BY DEF Quiet, Steady, StateOfConn, Waits
<1>2. ASSUME client = "recv" PROVE \A p \in Ports : ~PortBlocked(p)
  <2>1. tcp_connected BY <1>2 DEF Quiet, Waits, Steady, StateOfConn
  <2>2. count = 0 BY <1>1, <2>1 DEF SomethingToSend, QueueInv, QueueTypeOK
  <2>3. count # Depth BY <2>2, QueueAssumption
  <2>4. \A p \in Ports : enq[p].pc = "idle" BY <2>3, FrameType DEF Quiet
  <2>. QED BY <2>4 DEF PortBlocked
<1>. QED BY <1>1, <1>2 DEF SendBlocked

\* What a round does to the connection of a steady host and to the counters.
LEMMA RoundCountsOn ==
  ASSUME CountInv, Steady, HostInv, Round, ThreadInv
  PROVE  /\ host' = "up" /\ drops' = drops /\ tcp_conn' = tcp_conn
         /\ heartbeat' \in Nat /\ heartbeat' = heartbeat + 1
         /\ \A p \in Ports : WDTUARTFLAG[p] \in Nat /\ WDTUARTFLAG'[p] \in 0 .. (WDTUARTFLAG[p] + 1)
<1>1. host' = "up" /\ drops' = drops BY DEF Round, Steady
<1>2. tcp_conn' = tcp_conn BY DEF Round, ReceiveTimeout, RoundEnds
<1>3. heartbeat' = heartbeat + 1 /\ heartbeat' \in Nat
  <2>1. Silence \in Int
    BY LostMore, WaitsAtMost, RoundsAreNat DEF Silence, HostInv
  <2>2. heartbeat <= HeartbeatMax /\ heartbeat \in Nat
    BY <2>1, HeardInTime, SupervisorAssumption DEF Steady, ThreadInv, CountInv
  <2>. QED BY <2>2, SupervisorAssumption DEF Round, SupervisorRound, Counted
<1>4. \A p \in Ports : WDTUARTFLAG[p] \in Nat /\ WDTUARTFLAG'[p] \in 0 .. (WDTUARTFLAG[p] + 1)
  BY DEF CountInv, Round, SupervisorRound, Counted
<1>. QED BY <1>1, <1>2, <1>3, <1>4

\* The silence grows by the round, and stays within its bound.
LEMMA SilenceGrows ==
  ASSUME HostInv, ConnInv, Steady, Round
  PROVE  StateOfConn' /\ Silence' = Silence + 1 /\ Silence \in Int
<1>. USE RoundsAreNat
<1>1. /\ tcp_conn' = tcp_conn /\ drops' = drops /\ Lost(drops) \in Nat /\ Lost(drops)' = Lost(drops)
      /\ waited \in Nat /\ quiet \in Nat /\ StateOfConn /\ host = "up" /\ Waits
      /\ waited' = (IF waited < WaitMax THEN waited + 1 ELSE waited)
      /\ quiet' = (IF client = "recv" /\ host = "up" THEN quiet + 1 ELSE quiet)
  <2>1. tcp_conn' = tcp_conn /\ drops' = drops BY DEF Round, ReceiveTimeout, RoundEnds
  <2>2. Lost(drops) \in Nat BY LostMore DEF HostInv
  <2>3. Lost(drops)' = Lost(drops) BY <2>1 DEF Lost
  <2>4. waited \in Nat /\ quiet \in Nat BY WaitsAtMost DEF HostInv
  <2>5. StateOfConn /\ host = "up" /\ Waits BY DEF Steady, Round, Quiet
  <2>6. /\ waited' = (IF waited < WaitMax THEN waited + 1 ELSE waited)
        /\ quiet' = (IF client = "recv" /\ host = "up" THEN quiet + 1 ELSE quiet)
    BY DEF Round
  <2>. QED BY <2>1, <2>2, <2>3, <2>4, <2>5, <2>6
<1>2. CASE client = "recv"
  <2>1. tcp_conn = "open" BY <1>1, <1>2 DEF Waits, StateOfConn
  <2>2. /\ client' = "loop" /\ recv_err_cnt' = recv_err_cnt + 1 /\ recv_err_cnt \in Nat
        /\ tcp_connected' = (tcp_connected /\ recv_err_cnt' < RecvErrMax)
    BY <1>2 DEF Round, ReceiveTimeout, RoundEnds, ConnInv
  <2>3. quiet' = quiet + 1 /\ quiet < BeatEvery BY <1>1, <1>2 DEF Waits
  <2>4. tcp_connected /\ recv_err_cnt <= quiet BY <1>1, <2>1 DEF StateOfConn
  <2>5. recv_err_cnt' < RecvErrMax /\ recv_err_cnt' <= quiet'
    BY <2>2, <2>3, <2>4, <1>1, ClientAssumption
  <2>6. StateOfConn' BY <1>1, <2>1, <2>2, <2>4, <2>5 DEF StateOfConn
  <2>. QED BY <1>1, <2>1, <2>3, <2>6 DEF Silence
<1>3. CASE client # "recv"
  <2>1. /\ client \in {"delay", "connecting"} /\ waited < WaitMax
        /\ client = "connecting" => tcp_conn = "new"
    BY <1>1, <1>3 DEF Waits
  <2>2. UNCHANGED <<client, tcp_connected, recv_err_cnt>> /\ waited' = waited + 1 /\ quiet' = quiet
    BY <1>1, <1>3, <2>1 DEF Round
  <2>3. client = "delay" => tcp_conn = "NULL" BY <1>1 DEF StateOfConn
  <2>4. StateOfConn' BY <1>1, <2>1, <2>2, <2>3 DEF StateOfConn
  <2>. QED BY <1>1, <2>1, <2>2, <2>3, <2>4 DEF Silence
<1>. QED BY <1>2, <1>3

LEMMA SteadyRound ==
  ASSUME SystemInv, HostInv', ThreadInv', ~fails, Round
  PROVE  Steady'
<1>. USE DEF SystemInv, SteadyInv
<1>1. /\ StateOfConn' /\ heartbeat' <= Silence'
  <2>1. heartbeat <= Silence /\ heartbeat \in Nat BY DEF Steady, CountInv
  <2>. QED BY <2>1, SilenceGrows, RoundCountsOn
<1>2. heartbeat' <= HeartbeatMax
  <2>1. Silence' <= HeartbeatMax /\ Silence' \in Int /\ heartbeat' \in Nat
    <3>1. (HostInv /\ client \in ClientSteps => Silence <= HeartbeatMax)' 
      BY HeardInTime, PTL
    <3>. QED BY <3>1, SilenceGrows, RoundCountsOn DEF ThreadInv
  <2>. QED BY <1>1, <2>1, SupervisorAssumption
<1>3. WDTTCPSENDFLAG' = 0
  BY NobodyIsBlocked DEF Round, SupervisorRound
<1>4. PortsHeard'
  <2>1. CASE client = "recv"
    <3>1. \A p \in Ports : WDTUARTFLAG'[p] = 0
      BY <2>1, NobodyIsBlocked DEF Round, SupervisorRound
    <3>. QED BY <3>1, RoundCountsOn, SupervisorAssumption DEF PortsHeard
  <2>2. CASE client # "recv"
    <3>1. tcp_conn # "open" /\ tcp_conn' = tcp_conn
      BY <2>2, RoundCountsOn DEF Round, Quiet, Waits, Steady, StateOfConn
    <3>2. \A p \in Ports : WDTUARTFLAG'[p] <= heartbeat'
      BY <3>1, RoundCountsOn DEF Steady, PortsHeard, CountInv
    <3>3. \A p \in Ports : WDTUARTFLAG'[p] <= HeartbeatMax
      BY <3>2, <1>2, RoundCountsOn, SupervisorAssumption
    <3>. QED BY <3>1, <3>2, <3>3 DEF PortsHeard
  <2>. QED BY <2>1, <2>2
<1>5. WTD_RESET' = WTD_RESET
  <2>1. PortsSilent = {}
    BY <1>4, RoundCountsOn, SupervisorAssumption, RoundsAreNat DEF PortsSilent, PortsHeard
  <2>2. ~(heartbeat' > HeartbeatMax) BY <1>2, RoundCountsOn, SupervisorAssumption
  <2>3. ~(WDTTCPSENDFLAG' > TaskMax) BY <1>3, SupervisorAssumption
  <2>4. WTD_RESET' = NewReset BY DEF Round, SupervisorRound
  <2>. QED BY <2>1, <2>2, <2>3, <2>4 DEF NewReset
<1>. QED BY <1>1, <1>3, <1>4, <1>5, RoundCountsOn DEF Steady

LEMMA SteadyFresh ==
  ASSUME client = "connect", tcp_conn = "NULL", heartbeat = 0, WTD_RESET = 0, host = "up",
         waited = 0, quiet = 0, drops = 0, SupervisorInit
  PROVE  Steady
<1>1. Silence = 0 BY LostMore DEF Silence
<1>2. StateOfConn BY DEF StateOfConn
<1>3. PortsHeard BY SupervisorAssumption DEF PortsHeard, SupervisorInit
<1>. QED BY <1>1, <1>2, <1>3 DEF Steady, SupervisorInit, Flags

LEMMA SteadyKept ==
  ASSUME SystemInv, HostInv', ThreadInv', [Next]_vars
  PROVE  SteadyInv'
<1>1. SUFFICES ASSUME ~fails' PROVE Steady' BY DEF SteadyInv
<1>2. fails' = fails /\ Steady
  <2>1. fails' = fails
    BY DEF Next, Host, GoesDown, Drops, ComesUp, Beats, Ignores, ResetsBoard, Configures, hostVars,
           Client, Makes, Copies, Sends, Round, HardwareReset, vars
  <2>. QED BY <1>1, <2>1 DEF SystemInv, SteadyInv
<1>. USE DEF SystemInv
<1>3. CASE Makes \/ (\E t \in Tasks : Copies(t)) \/ UNCHANGED vars
  <2>1. UNCHANGED <<clientVars, supervisorVars, hostVars>>
    BY <1>3 DEF Makes, Copies, vars
  <2>. QED BY <1>2, <2>1, SteadyAside DEF clientVars, hostVars, Steady, StateOfConn
<1>4. CASE Sends
  <2>1. /\ UNCHANGED <<supervisorVars, client, tcp_conn, recv_err_cnt, heartbeat, host, waited,
                       quiet, drops>>
        /\ WTD_RESET' \in {WTD_RESET, sender.reset_flag}
        /\ tcp_conn = "open" => tcp_connected' = tcp_connected
    BY <1>4 DEF Sends, Send, PassStartsHere, WriteAccepted, WriteRetried, WriteGivenUp, WriteFails,
                clientVars
  <2>2. WTD_RESET' \in Flags BY <1>2, <2>1 DEF Steady, FlagInv
  <2>. QED BY <1>2, <2>1, <2>2, SteadyAside DEF Steady, StateOfConn
<1>5. CASE HardwareReset
  <2>1. /\ client' = "connect" /\ tcp_conn' = "NULL" /\ heartbeat' = 0 /\ WTD_RESET' = 0
        /\ host' = "up" /\ waited' = 0 /\ quiet' = 0 /\ drops' = 0 /\ SupervisorInit'
    BY <1>2, <1>5 DEF HardwareReset, ClientReset, SupervisorReset, SupervisorInit, Steady
  <2>2. (client = "connect" /\ tcp_conn = "NULL" /\ heartbeat = 0 /\ WTD_RESET = 0 /\ host = "up"
         /\ waited = 0 /\ quiet = 0 /\ drops = 0 /\ SupervisorInit => Steady)'
    BY SteadyFresh, PTL
  <2>. QED BY <2>1, <2>2
<1>. QED BY <1>1, <1>2, <1>3, <1>4, <1>5, SteadyHost, SteadyClient, SteadyRound DEF Next

-------------------------------------------------------------------------------
(* The theorems.                                                           *)

LEMMA SystemInit == Init => SystemInv
<1>. SUFFICES ASSUME Init PROVE SystemInv
  OBVIOUS
<1>. USE DEF Init
<1>1. QueueInv /\ ThreadInv BY ThreadInit, QueueInitInv
<1>2. FlagInv BY EmptyFlags DEF QueueInit
<1>3. ConnInv
  <2>1. 0 \in 0 .. RecvErrMax /\ 0 < RecvErrMax /\ 0 \in 0 .. (RequestEvery - 1)
    BY ClientAssumption
  <2>. QED BY <2>1 DEF ClientInit, ConnInv, ConnStates
<1>4. CountInv BY SupervisorAssumption DEF ClientInit, SupervisorInit, CountInv
<1>5. HostInv
  <2>1. /\ host = "up" /\ fails \in BOOLEAN /\ asked = FALSE /\ waited = 0 /\ quiet = 0 /\ drops = 0
    OBVIOUS
  <2>2. 0 \in 0 .. WaitMax /\ 0 \in 0 .. BeatEvery /\ 0 \in 0 .. MaxDrops
    BY WaitsAtMost, RoundsAreNat
  <2>. QED BY <2>1, <2>2 DEF HostInv
<1>6. SteadyInv BY SteadyFresh DEF ClientInit, SteadyInv
<1>. QED BY <1>1, <1>2, <1>3, <1>4, <1>5, <1>6 DEF SystemInv

LEMMA SystemKept == SystemInv /\ [Next]_vars => SystemInv'
<1>. SUFFICES ASSUME SystemInv, [Next]_vars PROVE SystemInv'
  OBVIOUS
<1>1. QueueInv /\ QueueTypeOK /\ ThreadInv /\ FlagInv /\ ConnInv /\ CountInv
  BY DEF SystemInv, QueueInv
<1>2. [QueueNext]_queueVars /\ ThreadInv' BY <1>1, StepIsQueueStep
<1>3. QueueInv' BY <1>1, <1>2, QueueStepKeeps
<1>4. FlagInv' BY <1>1, <1>2, FlagsKept
<1>5. HostInv' BY HostTypes DEF SystemInv
<1>6. SteadyInv' BY <1>2, <1>5, SteadyKept
<1>. QED BY <1>1, <1>2, <1>3, <1>4, <1>5, <1>6, ConnKept, CountsKept DEF SystemInv

LEMMA SystemInvariant == Spec => []SystemInv
BY SystemInit, SystemKept, PTL DEF Spec

\* Every variable of the client, its tasks, the supervisor and the host keeps to
\* its range: the receive errors to TCP_RECV_ERR_MAX (client.c:716-735) although
\* the count is raised without a test, and the supervisor's to their limits.
THEOREM SystemTypes == Spec => []TypeOK
<1>1. SystemInv => TypeOK
  BY DEF SystemInv, QueueInv, ThreadInv, ConnInv, CountInv, HostInv, TypeOK
<1>. QED BY <1>1, SystemInvariant, PTL

\* With a steady host WTD_RESET is set for one reason only, a request for the
\* configuration that could not be sent.  The supervisor goes on counting while
\* the board waits and connects again (client.c:773, main.c:546); it does not come
\* to its limit because every connection but MaxDrops in a row brings a heartbeat,
\* whatever the ring and the send task do meanwhile (main.c:548-589).
THEOREM OnlyLostRequestsReset == Spec => []OnlyRequestsReset
<1>1. SystemInv => OnlyRequestsReset
  BY DEF SystemInv, SteadyInv, Steady, Flags, OnlyRequestsReset
<1>. QED BY <1>1, SystemInvariant, PTL

\* The comment above client_add_to_tcp_send_buf (client.c:226-239): a data frame
\* that cannot be sent costs the connection, never the board.
THEOREM DataNeverResets == Spec => DataFramesNeverReset
<1>1. SystemInv /\ [Next]_vars =>
        [GivenUp /\ sender.frame.task # Control => WTD_RESET' = WTD_RESET]_vars
  <2>1. SUFFICES ASSUME SystemInv, [Next]_vars, GivenUp, sender.frame.task # Control,
                        ~ UNCHANGED vars
                 PROVE  WTD_RESET' = WTD_RESET
    OBVIOUS
  <2>2. sender.pc = "write" /\ sender' = Idle /\ made' = made BY <2>1 DEF GivenUp
  <2>3. sender' # sender BY <2>2 DEF Idle
  <2>4. sender.reset_flag = 0 BY <2>1, <2>2 DEF SystemInv, FlagInv
  <2>5. ~HardwareReset
    <3>1. /\ sender.frame \in Frames /\ sender.frame.task \in Ports
          /\ sender.frame.n > Tally(sent[sender.frame.task], sender.frame.curve)
          /\ Older(sender.frame, made[sender.frame.task], enq[sender.frame.task])
      <4>1. sender.frame \in Frames BY <2>1 DEF SystemInv, QueueInv, SenderInv
      <4>2. sender.frame.task \in Ports BY <2>1, <4>1 DEF Frames, Tasks
      <4>. QED BY <2>1, <2>2, <4>1, <4>2 DEF SystemInv, QueueInv, SenderInv
    <3>2. sender.frame.curve \in BOOLEAN /\ sender.frame.n \in Nat BY <3>1 DEF Frames
    <3>3. Tally(sent[sender.frame.task], sender.frame.curve) \in Nat
      BY <2>1, <3>1, <3>2, TallyType DEF SystemInv, QueueInv, QueueTypeOK, Counts
    <3>4. Tally(made[sender.frame.task], sender.frame.curve) # 0
      BY <3>1, <3>2, <3>3 DEF Older
    <3>5. ASSUME HardwareReset PROVE FALSE
      <4>1. made = NothingMade BY <2>2, <3>5 DEF HardwareReset, QueueReset
      <4>. QED BY <3>1, <3>4, <4>1 DEF NothingMade, Tally
    <3>. QED BY <3>5
  <2>6. ~Round /\ ~Client /\ ~Makes /\ ~Host /\ \A t \in Tasks : ~Copies(t)
    <3>1. ~Round BY <2>3 DEF Round, ReceiveTimeout, RoundEnds, ClientOnly
    <3>2. ~Client
      BY <2>3 DEF Client, netconn_new, LoopTest, ReceiveError, netconn_delete, Forget, Delay,
                  Connected, ConnectFailed, RoundEnds, ClientOnly
    <3>3. ~Makes BY <2>3 DEF Makes, MakeStep, MakeRealtime, MakeCurve
    <3>4. ~Host
      BY <2>3 DEF Host, GoesDown, Drops, ComesUp, Ignores, Beats, ResetsBoard, Configures, Receive,
                  RoundEnds, ClientOnly, queueVars
    <3>5. \A t \in Tasks : ~Copies(t)
      BY <2>3 DEF Copies, CopyStep, add_begin, add_end, add_curve_begin, add_curve_end
    <3>. QED BY <3>1, <3>2, <3>3, <3>4, <3>5
  <2>7. Sends BY <2>1, <2>5, <2>6 DEF Next
  <2>8. CASE WriteGivenUp BY <2>4, <2>8 DEF WriteGivenUp
  <2>9. CASE UNCHANGED clientVars BY <2>9 DEF clientVars
  <2>. QED BY <2>7, <2>8, <2>9 DEF Sends, Send, PassStartsHere, WriteAccepted, WriteRetried
<1>. QED BY <1>1, SystemInvariant, PTL DEF Spec, DataFramesNeverReset

\* With the connection, the host, the supervisor and its resets around them, the
\* queues still hand the send task whole frames, in order, and the ring of curves
\* is still a bounded queue (client.c:241-390).
THEOREM QueuesInTheSystem == Spec => []OnlyWholeFrames /\ []WrittenInOrder /\ RingIsAQueue
BY SystemUsesTheQueues, FramesAreWhole, FramesAreInOrder, RingImplementsQueue
===============================================================================
