------------------------------- MODULE TcpClient -------------------------------
(***************************************************************************)
(* The connection to the host (User/client.c): client_thread opens it,     *)
(* asks for the board configuration, receives commands and closes it;      *)
(* App_Task_TcpSend writes to it.  The two share tcp_conn and              *)
(* tcp_connected without a lock.                                           *)
(*                                                                         *)
(* The host may close the connection, stop reading from it (netconn_write  *)
(* then blocks: no send timeout is set on this connection) or refuse it.   *)
(* Time synchronisation, and the logs that checkSendLog no longer sends,   *)
(* are left out: nothing here depends on them.                             *)
(***************************************************************************)
EXTENDS TcpQueue

CONSTANTS
  RecvErrMax,     \* TCP_RECV_ERR_MAX
  RequestEvery    \* CONFIG_REQ_RETRY_INTERVAL

ASSUME ClientAssumption == RecvErrMax \in Nat \ {0} /\ RequestEvery \in Nat \ {0}

VARIABLES
  client,         \* where client_thread is
  tcp_conn,       \* NULL, or the state of the netconn it points to
  tcp_connected,
  recv_err_cnt, config_req_timer,
  download_flag,  \* a valid configuration has been received
  heartbeat,      \* supervisor rounds since the host's last heartbeat
  WTD_RESET       \* 0, or why the watchdog is no longer fed

clientVars == <<client, tcp_conn, tcp_connected, recv_err_cnt, config_req_timer,
                download_flag, heartbeat, WTD_RESET>>

ConnStates   == {"NULL", "new", "open", "stuck", "dead", "deleted"}
ClientSteps  == {"connect", "connecting", "loop", "recv", "close", "forget", "delay"}
RESET_BY_HOST == 2
RESET_REQUEST == 29   \* the request for the configuration could not be sent

ClientInit ==
  /\ client = "connect" /\ tcp_conn = "NULL" /\ tcp_connected = FALSE
  /\ recv_err_cnt = 0 /\ config_req_timer = 0
  /\ download_flag = FALSE
  /\ heartbeat = 0 /\ WTD_RESET = 0

ClientReset ==
  /\ client' = "connect" /\ tcp_conn' = "NULL" /\ tcp_connected' = FALSE
  /\ recv_err_cnt' = 0 /\ config_req_timer' = 0
  /\ download_flag' = FALSE
  /\ heartbeat' = 0 /\ WTD_RESET' = 0

RequestConfig == Enqueue(Control, Frame(Control, FALSE, 0), RESET_REQUEST)
NotEnqueueing == enq[Control].pc = "idle"

-------------------------------------------------------------------------------
(* The send task writes. *)

PassStartsHere == tcp_conn # "NULL" /\ tcp_connected /\ PassStarts /\ UNCHANGED clientVars

WriteAccepted == tcp_conn = "open" /\ Accepted /\ UNCHANGED clientVars

WriteFails == tcp_conn \notin {"open", "stuck"}

WriteRetried == WriteFails /\ Retried /\ UNCHANGED clientVars

\* With the frame goes the connection, and for some frames the board.
WriteGivenUp ==
  /\ WriteFails /\ GivenUp
  /\ WTD_RESET' = IF sender.reset_flag # 0 THEN sender.reset_flag ELSE WTD_RESET
  /\ tcp_connected' = FALSE
  /\ UNCHANGED <<client, tcp_conn, recv_err_cnt, config_req_timer, download_flag, heartbeat>>

Send ==
  \/ (SkipSlot \/ TakeSlot \/ TakeCurve \/ PassEnds) /\ UNCHANGED clientVars
  \/ PassStartsHere \/ WriteAccepted \/ WriteRetried \/ WriteGivenUp

-------------------------------------------------------------------------------
(* client_thread: connecting. *)

ClientOnly == UNCHANGED <<lock, slots, ringVars, made, sender, sent>>

netconn_new ==
  /\ client = "connect" /\ client' = "connecting" /\ tcp_conn' = "new"
  /\ ClientOnly
  /\ UNCHANGED <<enq, tcp_connected, recv_err_cnt, config_req_timer,
                 download_flag, heartbeat, WTD_RESET>>

Connected ==
  /\ client = "connecting" /\ tcp_conn' = "open"
  /\ tcp_connected' = TRUE /\ recv_err_cnt' = 0 /\ config_req_timer' = 0
  /\ RequestConfig
  /\ client' = "loop"
  /\ ClientOnly
  /\ UNCHANGED <<download_flag, heartbeat, WTD_RESET>>

ConnectFailed ==
  /\ client = "connecting" /\ tcp_conn' = "NULL" /\ client' = "delay"
  /\ ClientOnly
  /\ UNCHANGED <<enq, tcp_connected, recv_err_cnt, config_req_timer,
                 download_flag, heartbeat, WTD_RESET>>

-------------------------------------------------------------------------------
(* client_thread: the receive loop. *)

LoopTest ==
  /\ client = "loop" /\ NotEnqueueing
  /\ client' = IF tcp_connected THEN "recv" ELSE "close"
  /\ ClientOnly
  /\ UNCHANGED <<enq, tcp_conn, tcp_connected, recv_err_cnt, config_req_timer,
                 download_flag, heartbeat, WTD_RESET>>

\* Mutation: the request is not repeated.
RequestAgain_never == UNCHANGED <<config_req_timer, enq>>

\* Mutation: the request is repeated one round late.
RequestAgain_late ==
  IF download_flag' THEN UNCHANGED <<config_req_timer, enq>>
  ELSE IF config_req_timer >= RequestEvery
       THEN config_req_timer' = 0 /\ RequestConfig
       ELSE config_req_timer' = config_req_timer + 1 /\ UNCHANGED enq

\* The end of a round: until the configuration has come, it is asked for again.
RequestAgain ==
  IF download_flag' THEN UNCHANGED <<config_req_timer, enq>>
  ELSE IF config_req_timer + 1 >= RequestEvery
       THEN config_req_timer' = 0 /\ RequestConfig
       ELSE config_req_timer' = config_req_timer + 1 /\ UNCHANGED enq

RoundEnds == client' = "loop" /\ RequestAgain /\ ClientOnly /\ UNCHANGED tcp_conn

ReceiveTimeout ==
  /\ client = "recv" /\ tcp_conn \in {"open", "stuck"}
  /\ recv_err_cnt' = recv_err_cnt + 1
  /\ tcp_connected' = (tcp_connected /\ recv_err_cnt' < RecvErrMax)
  /\ UNCHANGED download_flag
  /\ RoundEnds

ReceiveError ==
  /\ client = "recv" /\ tcp_conn = "dead"
  /\ tcp_connected' = FALSE
  /\ UNCHANGED <<recv_err_cnt, download_flag, heartbeat, WTD_RESET>>
  /\ RoundEnds

\* client_handle_rx.  BoardCfgTab is overwritten before the frame is validated;
\* nothing here reads it.
HandleConfig(cfg) ==
  /\ download_flag' = (download_flag \/ cfg = "valid")
  /\ UNCHANGED <<heartbeat, WTD_RESET>>

HandleHeartbeat ==
  heartbeat' = 0 /\ UNCHANGED <<download_flag, WTD_RESET>>

HandleReset ==
  WTD_RESET' = RESET_BY_HOST /\ UNCHANGED <<download_flag, heartbeat>>

Receive(Command) ==
  /\ client = "recv" /\ tcp_conn \in {"open", "stuck"}
  /\ recv_err_cnt' = 0
  /\ Command
  /\ UNCHANGED tcp_connected
  /\ RoundEnds

-------------------------------------------------------------------------------
(* client_thread: closing.  The netconn is gone before tcp_conn says so.   *)

netconn_delete ==
  /\ client = "close" /\ tcp_conn' = "deleted" /\ client' = "forget"
  /\ ClientOnly
  /\ UNCHANGED <<enq, tcp_connected, recv_err_cnt, config_req_timer,
                 download_flag, heartbeat, WTD_RESET>>

Forget ==
  /\ client = "forget" /\ tcp_conn' = "NULL" /\ client' = "delay"
  /\ ClientOnly
  /\ UNCHANGED <<enq, tcp_connected, recv_err_cnt, config_req_timer,
                 download_flag, heartbeat, WTD_RESET>>

\* The second before the next connection is over.
Delay ==
  /\ client = "delay" /\ client' = "connect"
  /\ ClientOnly
  /\ UNCHANGED <<enq, tcp_conn, tcp_connected, recv_err_cnt, config_req_timer,
                 download_flag, heartbeat, WTD_RESET>>
===============================================================================
