------------------------------ MODULE Supervisor ------------------------------
(***************************************************************************)
(* App_TaskStart (User/main.c): every WDT_TASK_PERIOD_MS it counts, for    *)
(* each task it watches, the rounds since the task last reported, and      *)
(* feeds the SP706S only while WTD_RESET is 0.  Once it stops, the board   *)
(* is reset within three rounds.                                           *)
(*                                                                         *)
(* A port task and the send task report each time they come round, so a    *)
(* counter that grows is that of a task blocked in a call.  The OTA task   *)
(* reports to a watchdog of its own and is left out here.                  *)
(***************************************************************************)
EXTENDS TcpClient

CONSTANTS
  HeartbeatMax,  \* WDT_HEARTBEAT_TIMEOUT_MS, in rounds
  TaskMax,       \* 500 rounds: how long a task may stay silent
  DogRounds      \* rounds without feeding until the SP706S resets the board

ASSUME SupervisorAssumption ==
  HeartbeatMax \in Nat \ {0} /\ TaskMax \in Nat \ {0} /\ DogRounds \in Nat \ {0}

VARIABLES
  WDTUARTFLAG, WDTTCPSENDFLAG,  \* rounds since the tasks reported
  unfed                         \* rounds since the SP706S was fed

supervisorVars == <<WDTUARTFLAG, WDTTCPSENDFLAG, unfed>>

SupervisorInit ==
  /\ WDTUARTFLAG = [p \in Ports |-> 0] /\ WDTTCPSENDFLAG = 0 /\ unfed = 0

SupervisorReset ==
  /\ WDTUARTFLAG' = [p \in Ports |-> 0] /\ WDTTCPSENDFLAG' = 0 /\ unfed' = 0

\* The tasks that wait for something other than their next turn.
PortBlocked(p) == enq[p].pc = "lock"
SendBlocked    == sender.pc = "write"

\* One more round; beyond its limit a counter says nothing more, and stays.
Counted(rounds, limit) == IF rounds > limit THEN rounds ELSE rounds + 1

PortsSilent == {p \in Ports : WDTUARTFLAG'[p] > TaskMax}

\* Mutation: the send task is not watched.
NewReset_send_unwatched ==
  IF heartbeat' > HeartbeatMax THEN 27
  ELSE IF PortsSilent # {}
       THEN 20 + (CHOOSE p \in PortsSilent : \A q \in PortsSilent : q <= p)
       ELSE WTD_RESET

\* Mutation: the limit is reached one round early.
NewReset_early ==
  IF WDTTCPSENDFLAG' > TaskMax THEN 28
  ELSE IF heartbeat' >= HeartbeatMax THEN 27
  ELSE IF PortsSilent # {}
       THEN 20 + (CHOOSE p \in PortsSilent : \A q \in PortsSilent : q <= p)
       ELSE WTD_RESET

\* What the round finds wrong; the later tests overwrite the earlier ones.
NewReset ==
  IF WDTTCPSENDFLAG' > TaskMax THEN 28
  ELSE IF heartbeat' > HeartbeatMax THEN 27
  ELSE IF PortsSilent # {}
       THEN 20 + (CHOOSE p \in PortsSilent : \A q \in PortsSilent : q <= p)
       ELSE WTD_RESET

SupervisorRound ==
  /\ unfed < DogRounds
  /\ heartbeat' = Counted(heartbeat, HeartbeatMax)
  /\ WDTUARTFLAG' = [p \in Ports |-> IF PortBlocked(p) THEN Counted(WDTUARTFLAG[p], TaskMax) ELSE 0]
  /\ WDTTCPSENDFLAG' = IF SendBlocked THEN Counted(WDTTCPSENDFLAG, TaskMax) ELSE 0
  /\ WTD_RESET' = NewReset
  /\ unfed' = IF WTD_RESET' = 0 THEN 0 ELSE unfed + 1
===============================================================================
