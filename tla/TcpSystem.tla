------------------------------- MODULE TcpSystem -------------------------------
(***************************************************************************)
(* The board's tasks and the host at the other end of the TCP connection.  *)
(*                                                                         *)
(* Time passes in rounds of the supervisor (500 ms), and only when every   *)
(* task waits: for the second before it connects again, for the connection *)
(* to be made, or for the host.  The tasks themselves run in milliseconds. *)
(* Receive timeouts are counted in rounds too.                             *)
(*                                                                         *)
(* A host that is up sends a heartbeat at least every BeatEvery rounds of  *)
(* a connection, and lets the board connect within ConnectMax.  When it    *)
(* goes down it stops, and leaves its connection open, closed, or open and *)
(* no longer read from.                                                    *)
(***************************************************************************)
EXTENDS Supervisor

CONSTANTS
  DelayRounds,  \* vTaskDelay(1000) before the board connects again, in rounds
  ConnectMax,   \* rounds a connection takes to be made, at most
  BeatEvery,    \* rounds between two heartbeats, at most
  MaxDrops      \* connections a steady host loses between two heartbeats, at most

\* What each lost connection adds to the time without a heartbeat.
PerDrop == DelayRounds + ConnectMax + BeatEvery

\* A steady host is heard in time however its connections fall; with 60 s and a
\* heartbeat every 5 s (main.c:528-532) it may lose five in a row.
ASSUME TimeAssumption ==
  /\ DelayRounds \in Nat \ {0} /\ ConnectMax \in Nat \ {0}
  /\ BeatEvery \in Nat \ {0} /\ MaxDrops \in Nat
  /\ ConnectMax + BeatEvery + MaxDrops * PerDrop <= HeartbeatMax
  /\ HeartbeatMax <= TaskMax /\ BeatEvery < RecvErrMax

VARIABLES
  host,    \* "up" or "down"
  fails,   \* FALSE: the host is steady.  It never changes
  asked,   \* the host has a request for the configuration to answer
  waited,  \* rounds client_thread has waited where it is now, as far as they matter
  quiet,   \* rounds of this connection since the last heartbeat
  drops    \* connections a steady host has lost since then

hostVars == <<host, fails, asked, waited, quiet, drops>>
vars == <<queueVars, clientVars, supervisorVars, hostVars>>

Init ==
  /\ QueueInit /\ ClientInit /\ SupervisorInit
  /\ host = "up" /\ fails \in BOOLEAN /\ asked = FALSE
  /\ waited = 0 /\ quiet = 0 /\ drops = 0

-------------------------------------------------------------------------------
(* The host. *)

GoesDown ==
  /\ fails /\ host = "up" /\ host' = "down"
  /\ tcp_conn' \in IF tcp_conn = "open" THEN {"open", "stuck", "dead"} ELSE {tcp_conn}
  /\ asked' = FALSE /\ quiet' = 0
  /\ UNCHANGED <<queueVars, supervisorVars, client, tcp_connected, recv_err_cnt,
                 config_req_timer, download_flag, heartbeat, WTD_RESET,
                 fails, waited, drops>>

\* The link fails for a moment, the host closes this connection, or refuses it.
\* A steady host does so a few times only, to connections of a round or more.
Drops ==
  /\ (tcp_conn = "open" \/ (client = "connecting" /\ tcp_conn = "new"))
  /\ tcp_conn' = "dead"
  /\ IF fails THEN drops' = drops
     ELSE /\ drops < MaxDrops /\ drops' = drops + 1
          /\ tcp_conn = "open" => waited > 0
  /\ UNCHANGED <<queueVars, supervisorVars, client, tcp_connected, recv_err_cnt,
                 config_req_timer, download_flag, heartbeat, WTD_RESET,
                 host, fails, asked, waited, quiet>>

\* It comes back: to a connection it kept it listens again, or it resets it.
ComesUp ==
  /\ host = "down" /\ host' = "up"
  /\ tcp_conn' \in IF tcp_conn \in {"open", "stuck"} THEN {"open", "dead"} ELSE {tcp_conn}
  /\ UNCHANGED <<queueVars, supervisorVars, client, tcp_connected, recv_err_cnt,
                 config_req_timer, download_flag, heartbeat, WTD_RESET,
                 fails, asked, waited, quiet, drops>>

\* A host that no longer reads may still send.  More than one heartbeat in a
\* round would change nothing.
Beats ==
  /\ host = "up" \/ tcp_conn = "stuck"
  /\ heartbeat > 0 /\ Receive(HandleHeartbeat)
  /\ quiet' = 0 /\ drops' = 0
  /\ UNCHANGED <<supervisorVars, host, fails, asked, waited>>

Configures(cfg) ==
  /\ host = "up" /\ asked
  /\ Receive(HandleConfig(cfg))
  /\ asked' = FALSE
  /\ UNCHANGED <<supervisorVars, host, fails, waited, quiet, drops>>

\* It does not answer, or the connection it was asked on is gone.
Ignores ==
  /\ asked /\ asked' = FALSE
  /\ client = "recv" \/ tcp_conn # "open"
  /\ UNCHANGED <<queueVars, clientVars, supervisorVars, host, fails, waited, quiet, drops>>

ResetsBoard ==
  /\ fails /\ host = "up" /\ WTD_RESET = 0
  /\ Receive(HandleReset)
  /\ UNCHANGED <<supervisorVars, hostVars>>

Host ==
  \/ GoesDown \/ Drops \/ ComesUp \/ Beats \/ Ignores \/ ResetsBoard
  \/ \E cfg \in {"valid", "invalid"} : Configures(cfg)

-------------------------------------------------------------------------------
(* The board. *)

Client ==
  /\ \/ netconn_new \/ LoopTest \/ ReceiveError \/ netconn_delete \/ Forget
     \/ waited = DelayRounds /\ Delay
     \/ host = "up" /\ tcp_conn = "new" /\ Connected
     \/ (host = "down" \/ tcp_conn = "dead") /\ ConnectFailed
  /\ IF client = "loop" THEN UNCHANGED <<waited, quiet>> ELSE waited' = 0 /\ quiet' = 0
  /\ UNCHANGED <<supervisorVars, host, fails, asked, drops>>

\* The port tasks start once the configuration has come.
Makes == download_flag /\ MakeStep /\ UNCHANGED <<clientVars, supervisorVars, hostVars>>

Copies(t) == CopyStep(t) /\ UNCHANGED <<clientVars, supervisorVars, hostVars>>

Sends ==
  /\ Send
  /\ asked' = (asked \/ (sender.pc = "write" /\ sender.frame.task = Control
                         /\ tcp_conn = "open" /\ host = "up"))
  /\ UNCHANGED <<supervisorVars, host, fails, waited, quiet, drops>>

\* The rounds client_thread waits before it connects, and for the connection.
\* A connection counts as settled after a round.
WaitMax == IF client = "delay" THEN DelayRounds
           ELSE IF client = "connecting" THEN ConnectMax ELSE 1

Waits ==
  \/ client = "delay" /\ waited < WaitMax
  \/ client = "connecting" /\ (host = "up" => tcp_conn = "new" /\ waited < WaitMax)
  \/ client = "recv" /\ tcp_conn \in {"open", "stuck"} /\ (host = "up" => quiet < BeatEvery)

\* Nobody but the host and the clock can make a difference.
Quiet ==
  /\ lock = Free
  /\ \A t \in Tasks : \/ enq[t].pc = "idle"
                      \/ enq[t].frame.curve /\ count = Depth
  /\ \/ sender.pc = "idle" /\ ~(tcp_connected /\ SomethingToSend)
     \/ sender.pc = "write" /\ tcp_conn = "stuck"
  /\ Waits

Round ==
  /\ Quiet /\ SupervisorRound
  /\ IF client = "recv" THEN ReceiveTimeout
     ELSE UNCHANGED <<enq, client, tcp_conn, tcp_connected, recv_err_cnt, config_req_timer,
                      download_flag>> /\ ClientOnly
  /\ waited' = IF waited < WaitMax THEN waited + 1 ELSE waited
  /\ quiet' = IF client = "recv" /\ host = "up" THEN quiet + 1 ELSE quiet
  /\ UNCHANGED <<host, fails, asked, drops>>

\* The SP706S resets the board: RAM and the ring in SDRAM start over.
HardwareReset ==
  /\ unfed = DogRounds
  /\ QueueReset /\ ClientReset /\ SupervisorReset
  /\ asked' = FALSE /\ waited' = 0 /\ quiet' = 0 /\ drops' = 0
  /\ UNCHANGED <<host, fails>>

Next == \/ Host \/ Client \/ Makes \/ Sends \/ Round \/ HardwareReset
        \/ \E t \in Tasks : Copies(t)

Spec == Init /\ [][Next]_vars

\* Tasks run when they can and time passes.  A host that is up goes on sending
\* heartbeats; of the requests it is asked again and again it answers one.
Fairness ==
  /\ WF_vars(Client) /\ WF_vars(Sends) /\ WF_vars(Round) /\ WF_vars(HardwareReset)
  /\ \A t \in Tasks : WF_vars(Copies(t))
  /\ WF_vars(host = "up" /\ Beats)
  /\ SF_vars(Configures("valid"))

FairSpec == Spec /\ Fairness

-------------------------------------------------------------------------------
TypeOK ==
  /\ QueueTypeOK
  /\ client \in ClientSteps /\ tcp_conn \in ConnStates /\ tcp_connected \in BOOLEAN
  /\ recv_err_cnt \in 0 .. RecvErrMax /\ config_req_timer \in 0 .. (RequestEvery - 1)
  /\ download_flag \in BOOLEAN
  /\ heartbeat \in 0 .. (HeartbeatMax + 1) /\ WTD_RESET \in Nat
  /\ WDTUARTFLAG \in [Ports -> 0 .. (TaskMax + 1)]
  /\ WDTTCPSENDFLAG \in 0 .. (TaskMax + 1) /\ unfed \in 0 .. DogRounds
  /\ host \in {"up", "down"} /\ fails \in BOOLEAN /\ asked \in BOOLEAN
  /\ waited \in 0 .. WaitMax /\ quiet \in 0 .. BeatEvery /\ drops \in 0 .. MaxDrops

(***************************************************************************)
(* The comment above client_add_to_tcp_send_buf (client.c:226-239): a data *)
(* frame that cannot be sent costs the connection, never the board.        *)
(***************************************************************************)
DataFramesNeverReset ==
  [][GivenUp /\ sender.frame.task # Control => WTD_RESET' = WTD_RESET]_vars

(***************************************************************************)
(* With a host that stays up, heard on every connection within BeatEvery   *)
(* rounds, and at most MaxDrops connections lost between two heartbeats,   *)
(* the board is reset only because a request for the configuration could   *)
(* not be sent: neither the time it takes to connect again, in which the   *)
(* supervisor goes on counting, nor what the tasks do to each other (a     *)
(* full ring, a busy send task) ends in a reset.                           *)
(***************************************************************************)
OnlyRequestsReset == ~fails => WTD_RESET \in {0, RESET_REQUEST}

(***************************************************************************)
(* A send task blocked for ever in netconn_write, by a host that no longer *)
(* reads but still sends heartbeats, is got out of there by a reset.       *)
(***************************************************************************)
BlockedSendEnds ==
  (sender.pc = "write" /\ tcp_conn = "stuck") ~> (sender.pc # "write" \/ tcp_conn # "stuck")

(***************************************************************************)
(* Whatever the outages, resets and lost requests before: once the host    *)
(* stays up the board ends connected to it, and configured.                *)
(***************************************************************************)
ConnectedForGood ==
  \/ []<>(host = "down") \/ []<>(tcp_conn = "dead") \/ []<><<ResetsBoard>>_vars
  \/ <>[](tcp_connected /\ download_flag)

(***************************************************************************)
(* client.c:98-101 and 276-282: no curve frame is lost between the ring    *)
(* and the connection, short of a reset.                                   *)
(***************************************************************************)
Held(f) == \/ \E k \in DOMAIN Ring : Ring[k] = f
           \/ \E t \in Tasks : enq[t].frame = f
           \/ f.n <= LastSent(f)
           \/ sender.pc = "write" /\ sender.frame = f
NoCurveLost == \A f \in Curves : f.n <= made[f.task].curve => Held(f)

(***************************************************************************)
(* LWIP_NETCONN_FULLDUPLEX is 0, so lwIP does not allow one thread to      *)
(* close a connection while another is writing to it (opt.h:1913).         *)
(***************************************************************************)
NoWriteOnDeletedConn == sender.pc = "write" => tcp_conn # "deleted"
===============================================================================
