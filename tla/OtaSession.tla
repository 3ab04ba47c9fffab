------------------------------ MODULE OtaSession ------------------------------
(***************************************************************************)
(* An update as it really happens: the board's client task                 *)
(* (User/ota/ota_client.c) on one end of a TCP connection, the PC tool on  *)
(* the other, and under the client the manager, the flash and the          *)
(* bootloader of OtaSystem.  Each step of the client that works on the     *)
(* update is its own part and the manager's action at once, so the free    *)
(* commands of OtaSystem are here the ones the protocol leads to.          *)
(*                                                                         *)
(* A send fails only on a connection that has ended; on one whose other    *)
(* end is gone it may also seem to succeed.  HELLO goes out every 60 s,    *)
(* longer than any exchange of frames takes.                               *)
(***************************************************************************)
EXTENDS OtaSystem, PcServer

CONSTANTS
  MaxBreaks,   \* bound: connections that break in a behaviour
  MaxLoads     \* bound: times the user loads other firmware

ASSUME SessionAssumption ==
  /\ MaxBreaks \in Nat /\ MaxLoads \in Nat
  /\ Chunk <= MaxLen /\ 0 .. MaxSize \subseteq Offsets

\* The tool names both images of a release after one version (it warns otherwise)
\* and refuses an image that is not linked for its slot or does not fit.
ASSUME ReleasesAssumption ==
  \A r \in Releases :
    /\ r.version \in Nat
    /\ \A s \in Slots : r.image[s] # NoImage =>
         /\ r.image[s] \in Images /\ r.image[s].slot = s
         /\ r.image[s].version = r.version /\ r.image[s].size <= MaxSize

VARIABLES
  sess,      \* g_sess, without its SESS_ prefix
  step,      \* where the client task is; an operation on the flash has a step
  breaks, loads

clientVars  == <<sess, step>>
sessionAll  == <<vars, pcVars, clientVars, breaks, loads>>
systemOther == <<bootVars, losses, lastRun>>

\* "connect": no socket.  "session": between two frames.  "confirm", "ready",
\* "verified": a frame is owed to the PC.  "erasing", "writing", "committing": the
\* flash is at work.  "leave": the session is given up.  "reboot": it succeeded.
Steps == {"connect", "session", "confirm", "erasing", "ready", "writing", "verified",
          "committing", "leave", "reboot"}

SessionInit ==
  /\ Init /\ ServerInit
  /\ sess = "IDLE" /\ step = "connect" /\ breaks = 0 /\ loads = 0

-------------------------------------------------------------------------------
(* Sending. *)

\* send() took the frame: it reaches the PC if the connection still stands.
Sent(f) == toPc' = IF link = "up" THEN Append(toPc, f) ELSE toPc

\* Mutation: the client stays in the session after an error.
client_report_error_stays ==
  Sent(Plain("ERROR")) /\ sess' = "IDLE" /\ step' = "session"

\* The session is given up whether or not the PC can be told.
client_report_error ==
  Sent(Plain("ERROR")) /\ sess' = "IDLE" /\ step' = "leave"

\* The manager's part of a client step.
Manager(A) == A /\ UNCHANGED systemOther
LinkKept   == UNCHANGED <<release, sessionVars, link, breaks, loads>>

-------------------------------------------------------------------------------
(* Connecting and leaving. *)

\* Mutation: a new connection does not abort what the last one left.
StartClean_kept == UNCHANGED vars

\* ota_abort on a manager that is idle changes nothing.
StartClean == IF state = "IDLE" THEN UNCHANGED vars ELSE Manager(ClientAborts)

ota_net_connect ==
  /\ running \in Images /\ step = "connect"
  /\ link' = "up" /\ NewSession
  /\ toPc' = <<Hello(running.version, target_slot)>> /\ toBoard' = <<>>
  /\ sess' = "IDLE" /\ step' = "session"
  /\ StartClean
  /\ UNCHANGED <<release, breaks, loads>>

ota_net_disconnect ==
  /\ step = "leave" /\ step' = "connect"
  /\ link' = "down" /\ toBoard' = <<>> /\ toPc' = <<>>
  /\ UNCHANGED <<vars, release, sessionVars, sess, breaks, loads>>

\* recv() finds the connection ended, or keepalive finds nobody at its end.
Disconnected ==
  /\ step = "session" /\ link # "up" /\ toBoard = <<>>
  /\ step' = "leave"
  /\ UNCHANGED <<vars, pcVars, sess, breaks, loads>>

\* No byte for OTA_DOWNLOAD_STALL_MS.
Stalled ==
  /\ step = "session" /\ sess = "DOWNLOADING"
  /\ link = "broken" /\ toBoard = <<>>
  /\ Manager(ClientAborts)
  /\ client_report_error
  /\ LinkKept /\ UNCHANGED toBoard

Heartbeat ==
  /\ step = "session" /\ sess # "DOWNLOADING"
  /\ link = "up" /\ toPc = <<>>
  /\ Sent(Hello(running.version, target_slot))
  /\ LinkKept /\ UNCHANGED <<vars, toBoard, clientVars>>

-------------------------------------------------------------------------------
(* Frames. *)

NextFrame(cmd) ==
  /\ step = "session" /\ toBoard # <<>> /\ Head(toBoard).cmd = cmd
  /\ toBoard' = Tail(toBoard)
  /\ LinkKept

\* ota_handle_push_update_request returns -1: the size cannot be right.
SizeRefused(i) == state = "IDLE" /\ (i.size = 0 \/ i.size > download_size)

client_handle_push ==
  LET i == Head(toBoard).image IN
  /\ NextFrame("PUSH")
  /\ IF SizeRefused(i) THEN client_report_error /\ UNCHANGED vars
     ELSE IF PushRefused(i, i.size)
     THEN Sent(Plain("REJECT")) /\ UNCHANGED <<vars, clientVars>>
     ELSE /\ Manager(ota_handle_push_update_request(i, i.size))
          /\ step' = "confirm"
          /\ UNCHANGED <<toPc, sess>>

SendFails ==
  /\ step \in {"confirm", "ready", "verified"} /\ link # "up"
  /\ client_report_error
  /\ LinkKept /\ UNCHANGED <<vars, toBoard>>

\* CONFIRM goes out; if the span may not be erased, an error right after it.
ConfirmAndErase ==
  /\ step = "confirm"
  /\ Manager(ota_start_download)
  /\ IF op' = NoOp
     THEN /\ toPc' = IF link = "up" THEN toPc \o <<Plain("CONFIRM"), Plain("ERROR")>> ELSE toPc
          /\ step' = "leave"
     ELSE Sent(Plain("CONFIRM")) /\ step' = "erasing"
  /\ LinkKept /\ UNCHANGED <<toBoard, sess>>

SendReady ==
  /\ step = "ready"
  /\ Sent(Plain("READY"))
  /\ sess' = "DOWNLOADING" /\ step' = "session"
  /\ LinkKept /\ UNCHANGED <<vars, toBoard>>

client_handle_data ==
  LET f == Head(toBoard) IN
  /\ NextFrame("DATA")
  /\ IF sess # "DOWNLOADING" THEN UNCHANGED <<vars, toPc, clientVars>>
     ELSE /\ Manager(ota_write_data_block(f.offset, f.len, f.image))
          /\ IF op' = NoOp THEN client_report_error
             ELSE step' = "writing" /\ UNCHANGED <<toPc, sess>>

client_handle_end ==
  /\ NextFrame("END")
  /\ IF sess # "DOWNLOADING" THEN UNCHANGED <<vars, toPc, clientVars>>
     ELSE /\ Manager(ota_finish_download)
          /\ IF state' # "SUCCESS" THEN client_report_error
             ELSE step' = "verified" /\ UNCHANGED <<toPc, sess>>

\* The PC hears of the success before BootInfo is written.
AckAndCommit ==
  /\ step = "verified"
  /\ Sent(Plain("SUCCESS"))
  /\ Manager(ota_prepare_update)
  /\ step' = "committing"
  /\ LinkKept /\ UNCHANGED <<toBoard, sess>>

-------------------------------------------------------------------------------
(* The flash at work inside a frame's handler. *)

AfterOperation ==
  \/ step = "erasing" /\ step' = "ready" /\ UNCHANGED <<sess, toPc>>
  \/ step = "writing" /\ step' = "session" /\ UNCHANGED <<sess, toPc>>
  \/ /\ step = "committing"
     /\ IF state' = "COMMITTED"
        THEN step' = "reboot" /\ sess' = "DONE" /\ UNCHANGED toPc
        ELSE client_report_error

FlashWorks ==
  /\ Manager(EraseSector \/ ProgramCell \/ EraseInfo \/ ProgramInfo)
  /\ IF op' = NoOp THEN AfterOperation ELSE UNCHANGED <<clientVars, toPc>>
  /\ LinkKept /\ UNCHANGED toBoard

FlashFails ==
  /\ Manager(OperationFails)
  /\ client_report_error
  /\ LinkKept /\ UNCHANGED toBoard

-------------------------------------------------------------------------------
(* The board as a whole. *)

\* The socket goes with the board; the task starts over.
ClientRestarts ==
  /\ sess' = "IDLE" /\ step' = "connect"
  /\ link' = "down" /\ toBoard' = <<>> /\ toPc' = <<>>
  /\ UNCHANGED <<release, sessionVars, breaks, loads>>

\* Mutation: the board is reset once the PC has been told of the success.
Reboot_unchecked ==
  /\ step \in {"committing", "reboot"} /\ Restart /\ ClientRestarts
  /\ UNCHANGED <<flash, bootInfo, losses>>

Reboot    == step = "reboot" /\ SystemReset /\ ClientRestarts
LosePower == PowerLoss /\ ClientRestarts
Boots     == Boot /\ UNCHANGED <<pcVars, clientVars, breaks, loads>>

ClientStep ==
  \/ ota_net_connect \/ ota_net_disconnect \/ Disconnected \/ Stalled
  \/ client_handle_push \/ SendFails \/ ConfirmAndErase \/ SendReady
  \/ client_handle_data \/ client_handle_end \/ AckAndCommit
  \/ FlashWorks

Server ==
  ServerStep /\ UNCHANGED <<vars, clientVars, breaks, loads>>
Loads ==
  /\ loads < MaxLoads /\ loads' = loads + 1
  /\ load_firmware /\ UNCHANGED <<vars, clientVars, breaks>>
Breaks ==
  /\ breaks < MaxBreaks /\ breaks' = breaks + 1
  /\ LinkBreaks /\ UNCHANGED <<vars, clientVars, loads>>

SessionNext ==
  \/ Boots \/ Reboot \/ LosePower
  \/ ClientStep \/ Heartbeat \/ FlashFails
  \/ Server \/ Loads \/ Breaks

SessionSpec == SessionInit /\ [][SessionNext]_sessionAll

\* Every task of the board runs, and the PC tool serves its sockets.
SessionFairness ==
  /\ WF_sessionAll(Boots) /\ WF_sessionAll(Reboot)
  /\ WF_sessionAll(ClientStep) /\ WF_sessionAll(Heartbeat)
  /\ WF_sessionAll(Server)
FairSessionSpec == SessionSpec /\ SessionFairness

-------------------------------------------------------------------------------
Frames ==
  [cmd : {"PUSH"}, image : {i \in Images : i.size <= MaxSize}]
    \cup [cmd : {"DATA"}, image : Images, offset : 0 .. MaxSize, len : 1 .. MaxLen]
    \cup [cmd : {"END"}]
Replies ==
  [cmd : {"HELLO"}, version : Nat, slot : Slots]
    \cup [cmd : {"CONFIRM", "REJECT", "READY", "SUCCESS", "ERROR"}]

SessionTypeOK ==
  /\ TypeOK
  /\ release \in Releases /\ phase \in Phases
  /\ push_slot \in Slots \cup {0} /\ fw \in Images \cup {NoImage}
  /\ next_off \in 0 .. MaxSize
  /\ link \in {"down", "up", "closed", "broken"}
  /\ toBoard \in Seq(Frames) /\ toPc \in Seq(Replies)
  /\ sess \in {"IDLE", "DOWNLOADING", "DONE"} /\ step \in Steps
  /\ breaks \in 0 .. MaxBreaks /\ loads \in 0 .. MaxLoads

(***************************************************************************)
(* g_sess and the manager's state are two records of one update, changed   *)
(* by different lines of different files.  Wherever the client task is,    *)
(* they agree: no frame is judged by one while the other has moved on.     *)
(***************************************************************************)
ClientAgrees ==
  /\ step = "session" => \/ sess = "DOWNLOADING" /\ state = "DOWNLOADING"
                         \/ sess = "IDLE" /\ state = "IDLE"
  /\ step = "confirm" => sess = "IDLE" /\ state = "REQUEST_RECEIVED"
  /\ step \in {"erasing", "ready"} => sess = "IDLE" /\ state = "DOWNLOADING"
  /\ step = "writing" => sess = "DOWNLOADING" /\ state = "DOWNLOADING"
  /\ step = "verified" => sess = "DOWNLOADING" /\ state = "SUCCESS"
  /\ step = "committing" => sess = "DOWNLOADING" /\ state = "UPDATING"
  /\ step = "reboot" <=> state = "COMMITTED"

(***************************************************************************)
(* On a live connection the board has got, or is about to get, exactly     *)
(* what the PC has sent of the image: no block is dropped, repeated or     *)
(* written out of place while the two phases follow each other.            *)
(***************************************************************************)
BlocksUnderWay ==
  LET upto[n \in 0 .. Len(toBoard)] ==
        IF n = 0 THEN 0
        ELSE upto[n - 1] + IF toBoard[n].cmd = "DATA" THEN toBoard[n].len ELSE 0
  IN  upto[Len(toBoard)]

BlocksConserved ==
  link = "up" /\ phase \in {"PUSHING", "WAIT_FINAL"} /\ step = "session" =>
    /\ sess = "DOWNLOADING"
    /\ downloaded_size + BlocksUnderWay = next_off
    /\ fw = remote => download_crc = downloaded_size

(***************************************************************************)
(* A push never meets a board busy with another update, and an END never   *)
(* one that was not told to download: the refusals of                      *)
(* ota_handle_push_update_request and client_handle_end are never needed.  *)
(***************************************************************************)
FramesMeetTheirState ==
  \A k \in DOMAIN toBoard :
    /\ toBoard[k].cmd = "PUSH" => step = "session" /\ ~PushRefused(toBoard[k].image, toBoard[k].image.size)
    /\ toBoard[k].cmd \in {"DATA", "END"} => sess = "DOWNLOADING" \/ step = "leave"

(***************************************************************************)
(* The protocol asks the manager for nothing OtaSystem does not allow, so  *)
(* what is proved of OtaSystem holds of the board in the field.            *)
(***************************************************************************)
ImplementsSystem == Spec

(***************************************************************************)
(* Whatever breaks in between (connections, the power or one HAL call, but *)
(* not both of these), the board in the end runs the release the PC offers *)
(* for the slot it can write: nobody has to press a button on the board.   *)
(***************************************************************************)
UpToDate == running \in Images /\ ~WouldPush(running.version, target_slot)

UpdateArrives == <>(faults > 0 /\ losses > 0) \/ <>[]UpToDate
===============================================================================
