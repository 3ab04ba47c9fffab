--------------------------- MODULE OtaSession_proof ---------------------------
(***************************************************************************)
(* Proofs about OtaSession: the protocol implements OtaSystem, and the two *)
(* records of an update agree, for every set of releases and bound.        *)
(***************************************************************************)
EXTENDS OtaSession, OtaSystem_proof, WellFoundedInduction

\* The image and the offset the PC sends from are of the image it pushes.
PhaseInv ==
  /\ phase \in {"WAIT_CONFIRM", "WAIT_READY"} => push_slot \in Slots
  /\ phase = "PUSHING" => fw \in Images /\ fw.size <= MaxSize /\ next_off <= fw.size

SessionInv == BaseInv /\ SessionTypeOK /\ PhaseInv

-------------------------------------------------------------------------------
(* Sequences of frames. *)

LEMMA SeqFacts ==
  ASSUME NEW S, NEW q \in Seq(S)
  PROVE  /\ <<>> \in Seq(S)
         /\ \A f \in S : Append(q, f) \in Seq(S)
         /\ q # <<>> => Head(q) \in S /\ Tail(q) \in Seq(S)
OBVIOUS

LEMMA ReplyFacts ==
  /\ \A c \in {"CONFIRM", "REJECT", "READY", "SUCCESS", "ERROR"} : Plain(c) \in Replies
  /\ \A i \in Images, s \in Slots : Hello(i.version, s) \in Replies
BY ImageAssumption DEF Plain, Hello, Replies

LEMMA FrameFacts ==
  /\ \A i \in Images : i.size <= MaxSize => Push(i) \in Frames
  /\ \A i \in Images, o \in 0 .. MaxSize, n \in 1 .. MaxLen : Data(i, o, n) \in Frames
  /\ Plain("END") \in Frames
BY DEF Push, Data, Plain, Frames

\* What the handlers take out of a frame.
LEMMA FrameFields ==
  ASSUME NEW f \in Frames
  PROVE  /\ f.cmd = "PUSH" => f.image \in Images /\ f.image.size \in 0 .. MaxSize
         /\ f.cmd = "DATA" => /\ f.image \in Images /\ f.offset \in Offsets
                              /\ f.len \in 1 .. MaxLen
<1>1. \A i \in Images : i.size \in Nat BY ImageAssumption, SlotFacts
<1>. QED BY <1>1, SessionAssumption, BoundsAssumption DEF Frames

-------------------------------------------------------------------------------
(* The board's part of a session step is a step of OtaSystem. *)

LEMMA ManagerStep ==
  ASSUME UNCHANGED systemOther, Commands \/ FlashSteps
  PROVE  Next
BY DEF systemOther, Next, App

LEMMA StepRefines ==
  ASSUME SessionTypeOK, [SessionNext]_sessionAll
  PROVE  [Next]_vars
<1>1. CASE Boots \/ Reboot \/ LosePower
  BY <1>1 DEF Boots, Reboot, LosePower, Next
<1>2. CASE ota_net_connect
  BY <1>2, ManagerStep DEF ota_net_connect, StartClean, Manager, Commands
<1>3. CASE ota_net_disconnect \/ Disconnected \/ Heartbeat \/ SendFails \/ SendReady
           \/ Server \/ Loads \/ Breaks
  BY <1>3 DEF ota_net_disconnect, Disconnected, Heartbeat, SendFails, SendReady, Server,
              Loads, Breaks
<1>4. CASE Stalled
  BY <1>4, ManagerStep DEF Stalled, Manager, Commands
<1>5. CASE client_handle_push
  <2>. DEFINE f == Head(toBoard)
  <2>1. f \in Frames /\ f.cmd = "PUSH"
    BY <1>5, SeqFacts DEF client_handle_push, NextFrame, SessionTypeOK
  <2>2. f.image \in Images /\ f.image.size \in 0 .. MaxSize
    BY <2>1, FrameFields
  <2>3. \/ UNCHANGED vars
        \/ UNCHANGED systemOther /\ ota_handle_push_update_request(f.image, f.image.size)
    BY <1>5 DEF client_handle_push, Manager
  <2>. QED BY <2>2, <2>3, ManagerStep DEF Commands
<1>6. CASE ConfirmAndErase
  BY <1>6, ManagerStep DEF ConfirmAndErase, Manager, Commands
<1>7. CASE client_handle_data
  <2>. DEFINE f == Head(toBoard)
  <2>1. f \in Frames /\ f.cmd = "DATA"
    BY <1>7, SeqFacts DEF client_handle_data, NextFrame, SessionTypeOK
  <2>2. f.image \in Images /\ f.offset \in Offsets /\ f.len \in 1 .. MaxLen
    BY <2>1, FrameFields
  <2>3. \/ UNCHANGED vars
        \/ UNCHANGED systemOther /\ ota_write_data_block(f.offset, f.len, f.image)
    BY <1>7 DEF client_handle_data, Manager
  <2>. QED BY <2>2, <2>3, ManagerStep DEF Commands
<1>8. CASE client_handle_end
  BY <1>8, ManagerStep DEF client_handle_end, Manager, Commands
<1>9. CASE AckAndCommit
  BY <1>9, ManagerStep DEF AckAndCommit, Manager, Commands
<1>10. CASE FlashWorks \/ FlashFails
  BY <1>10, ManagerStep DEF FlashWorks, FlashFails, Manager, FlashSteps
<1>11. CASE UNCHANGED sessionAll
  BY <1>11 DEF sessionAll
<1>. QED
  BY <1>1, <1>2, <1>3, <1>4, <1>5, <1>6, <1>7, <1>8, <1>9, <1>10, <1>11
     DEF SessionNext, ClientStep

-------------------------------------------------------------------------------
(* The connection and the PC tool keep their types. *)

\* What is in the conjuncts of SessionTypeOK besides TypeOK.
ServerTypes ==
  /\ release \in Releases /\ phase \in Phases
  /\ push_slot \in Slots \cup {0} /\ fw \in Images \cup {NoImage}
  /\ next_off \in 0 .. MaxSize
WireTypes ==
  /\ link \in {"down", "up", "closed", "broken"}
  /\ toBoard \in Seq(Frames) /\ toPc \in Seq(Replies)
ClientTypes ==
  /\ sess \in {"IDLE", "DOWNLOADING", "DONE"} /\ step \in Steps
  /\ breaks \in 0 .. MaxBreaks /\ loads \in 0 .. MaxLoads

LEMMA SessionTypes ==
  SessionTypeOK <=> TypeOK /\ ServerTypes /\ WireTypes /\ ClientTypes
BY DEF SessionTypeOK, ServerTypes, WireTypes, ClientTypes

LEMMA SentKeepsType ==
  ASSUME WireTypes, NEW c \in {"CONFIRM", "REJECT", "READY", "SUCCESS", "ERROR"}, Sent(Plain(c))
  PROVE  toPc' \in Seq(Replies)
BY ReplyFacts, SeqFacts DEF WireTypes, Sent

\* The bound of the images a release has for its slots.
LEMMA ReleaseImage ==
  ASSUME NEW r \in Releases, NEW s \in Slots, r.image[s] # NoImage
  PROVE  r.image[s] \in Images /\ r.image[s].size \in Nat /\ r.image[s].size <= MaxSize
BY ReleasesAssumption, ImageAssumption, SlotFacts

LEMMA ServerTypesKept ==
  ASSUME SessionTypeOK, PhaseInv, ServerStep \/ load_firmware \/ LinkBreaks
  PROVE  ServerTypes' /\ WireTypes' /\ PhaseInv'
<1>. USE DEF SessionTypeOK, ServerTypes, WireTypes, PhaseInv, Phases
<1>1. ASSUME NEW c, Arrived(c)
      PROVE  Head(toPc) \in Replies /\ Head(toPc).cmd = c /\ Tail(toPc) \in Seq(Replies)
  BY <1>1, SeqFacts DEF Arrived
<1>2. CASE _on_hello
  <2>. DEFINE f == Head(toPc)
  <2>1. f.slot \in Slots /\ Tail(toPc) \in Seq(Replies)
    BY <1>1, <1>2 DEF _on_hello, Replies
  <2>2. /\ UNCHANGED <<release, link, fw, next_off>> /\ toPc' = Tail(toPc)
        /\ \/ UNCHANGED <<toBoard, phase, push_slot>>
           \/ /\ WouldPush(f.version, f.slot) /\ phase' = "WAIT_CONFIRM"
              /\ push_slot' = f.slot
              /\ toBoard' = Append(toBoard, Push(release.image[f.slot]))
    BY <1>2 DEF _on_hello, Taken, Queue
  <2>3. WouldPush(f.version, f.slot) => Push(release.image[f.slot]) \in Frames
    BY <2>1, ReleaseImage, FrameFacts DEF WouldPush
  <2>4. toBoard' \in Seq(Frames) BY <2>2, <2>3, SeqFacts
  <2>. QED BY <2>1, <2>2, <2>4
<1>3. CASE _on_confirm
  <2>1. Tail(toPc) \in Seq(Replies) BY <1>1, <1>3 DEF _on_confirm
  <2>. QED BY <1>3, <2>1 DEF _on_confirm, Taken
<1>4. CASE _on_ack_downloading
  <2>1. Tail(toPc) \in Seq(Replies) BY <1>1, <1>4 DEF _on_ack_downloading
  <2>2. /\ UNCHANGED <<release, link, toBoard, push_slot>> /\ toPc' = Tail(toPc)
        /\ \/ UNCHANGED <<phase, fw, next_off>>
           \/ /\ phase = "WAIT_READY" /\ fw' = release.image[push_slot] /\ next_off' = 0
              /\ phase' = IF fw' = NoImage THEN "DONE" ELSE "PUSHING"
    BY <1>4 DEF _on_ack_downloading, Taken
  <2>3. CASE UNCHANGED <<phase, fw, next_off>> BY <2>1, <2>2, <2>3
  <2>4. CASE phase = "WAIT_READY" /\ fw' = release.image[push_slot] /\ next_off' = 0
             /\ phase' = IF fw' = NoImage THEN "DONE" ELSE "PUSHING"
    <3>1. push_slot \in Slots BY <2>4
    <3>2. fw' # NoImage => fw' \in Images /\ fw'.size \in Nat /\ fw'.size <= MaxSize
      BY <2>4, <3>1, ReleaseImage
    <3>. QED BY <2>1, <2>2, <2>4, <3>2, BoundsAssumption
  <2>. QED BY <2>2, <2>3, <2>4
<1>5. CASE SessionEnds
  <2>1. Tail(toPc) \in Seq(Replies) BY <1>1, <1>5 DEF SessionEnds
  <2>. QED BY <1>5, <2>1 DEF SessionEnds, Taken
<1>6. CASE _enqueue_next
  <2>. DEFINE take == Smaller(Chunk, fw.size - next_off)
  <2>1. fw \in Images /\ fw.size \in Nat /\ fw.size <= MaxSize /\ next_off <= fw.size
        /\ next_off \in Nat /\ MaxSize \in Nat
    BY <1>6, ImageAssumption, SlotFacts, BoundsAssumption DEF _enqueue_next
  <2>2. UNCHANGED <<release, push_slot, fw, link, toPc>> BY <1>6 DEF _enqueue_next
  <2>3. CASE next_off < fw.size
    <3>1. /\ toBoard' = Append(toBoard, Data(fw, next_off, take))
          /\ next_off' = next_off + take /\ phase' = phase
      BY <1>6, <2>3 DEF _enqueue_next, Queue
    <3>2. take \in 1 .. MaxLen /\ next_off + take <= fw.size
      BY <2>1, <2>3, SessionAssumption, ServerAssumption, BoundsAssumption DEF Smaller
    <3>3. Data(fw, next_off, take) \in Frames BY <2>1, <3>2, FrameFacts
    <3>. QED BY <2>1, <2>2, <3>1, <3>2, <3>3, SeqFacts
  <2>4. CASE ~(next_off < fw.size)
    <3>1. toBoard' = Append(toBoard, Plain("END")) /\ phase' = "WAIT_FINAL" /\ next_off' = next_off
      BY <1>6, <2>4 DEF _enqueue_next, Queue
    <3>. QED BY <2>1, <2>2, <3>1, FrameFacts, SeqFacts
  <2>. QED BY <2>3, <2>4
<1>7. CASE Close
  BY <1>7, SeqFacts DEF Close, sessionVars
<1>8. CASE load_firmware BY <1>8 DEF load_firmware, sessionVars
<1>9. CASE LinkBreaks BY <1>9, SeqFacts DEF LinkBreaks, sessionVars
<1>. QED BY <1>2, <1>3, <1>4, <1>5, <1>6, <1>7, <1>8, <1>9 DEF ServerStep

\* Which operation the flash is at in each of the client's steps.
OpAgrees ==
  /\ running \notin Images => step = "connect"
  /\ step \notin {"erasing", "writing", "committing"} /\ running \in Images => op = NoOp
  /\ step = "erasing" => op.kind = "erase"
  /\ step = "writing" => op.kind = "program"
  /\ step = "committing" => op.kind \in {"info_erase", "info_program"}

\* An operation of the application ends in the client's step it belongs to.
LEMMA FlashWorksIn ==
  ASSUME TypeOK, OpAgrees, FlashWorks
  PROVE  /\ running \in Images /\ op # NoOp
         /\ \/ step = "erasing" /\ EraseSector
            \/ step = "writing" /\ ProgramCell
            \/ step = "committing" /\ (EraseInfo \/ ProgramInfo)
<1>1. /\ running \in Images
      /\ \/ EraseSector /\ op.kind = "erase"
         \/ ProgramCell /\ op.kind = "program"
         \/ EraseInfo /\ op.kind = "info_erase"
         \/ ProgramInfo /\ op.kind = "info_program"
  BY DEF FlashWorks, Manager, EraseSector, ProgramCell, EraseInfo, ProgramInfo
<1>. QED BY <1>1, NoOpType DEF OpAgrees

\* The client's steps leave the PC's session alone and put only replies on the wire.
LEMMA ClientTypesKept ==
  ASSUME SessionTypeOK, PhaseInv, OpAgrees, ClientStep \/ Heartbeat \/ FlashFails
  PROVE  ServerTypes' /\ WireTypes' /\ ClientTypes' /\ PhaseInv'
<1>. USE DEF ServerTypes, WireTypes, ClientTypes
<1>0. ServerTypes /\ WireTypes /\ ClientTypes BY SessionTypes
<1>1. ASSUME LinkKept PROVE ServerTypes' /\ PhaseInv' /\ link' = link
                            /\ breaks' \in 0 .. MaxBreaks /\ loads' \in 0 .. MaxLoads
  BY <1>0, <1>1 DEF LinkKept, sessionVars, PhaseInv
<1>2. ASSUME client_report_error
      PROVE  toPc' \in Seq(Replies) /\ sess' = "IDLE" /\ step' \in Steps
  BY <1>0, <1>2, SentKeepsType DEF client_report_error, Steps
<1>3. ASSUME NEW c, NextFrame(c)
      PROVE  LinkKept /\ toBoard' \in Seq(Frames)
  BY <1>0, <1>3, SeqFacts DEF NextFrame
<1>4. CASE ota_net_connect
  <2>1. running \in Images /\ target_slot \in Slots
    BY <1>4, SlotFacts DEF ota_net_connect, SessionTypeOK, TypeOK, target_slot
  <2>2. toPc' \in Seq(Replies)
    BY <1>4, <2>1, ReplyFacts DEF ota_net_connect
  <2>. QED
    BY <1>0, <1>4, <2>2, BoundsAssumption
       DEF ota_net_connect, NewSession, Phases, PhaseInv, Steps
<1>5. CASE ota_net_disconnect
  BY <1>0, <1>5 DEF ota_net_disconnect, sessionVars, PhaseInv, Steps
<1>6. CASE Disconnected
  BY <1>0, <1>6 DEF Disconnected, pcVars, sessionVars, PhaseInv, Steps
<1>7. CASE Stalled
  BY <1>0, <1>1, <1>2, <1>7 DEF Stalled
<1>8. CASE client_handle_push
  <2>1. ServerTypes' /\ PhaseInv' /\ link' = link /\ toBoard' \in Seq(Frames)
        /\ breaks' \in 0 .. MaxBreaks /\ loads' \in 0 .. MaxLoads
    BY <1>1, <1>3, <1>8 DEF client_handle_push
  <2>2. \/ client_report_error
        \/ Sent(Plain("REJECT")) /\ UNCHANGED clientVars
        \/ step' = "confirm" /\ UNCHANGED <<toPc, sess>>
    BY <1>8 DEF client_handle_push
  <2>. QED BY <1>0, <1>2, <2>1, <2>2, SentKeepsType DEF clientVars, Steps
<1>9. CASE SendFails
  BY <1>0, <1>1, <1>2, <1>9 DEF SendFails
<1>10. CASE ConfirmAndErase
  <2>1. toPc \o <<Plain("CONFIRM"), Plain("ERROR")>> \in Seq(Replies)
    BY <1>0, ReplyFacts
  <2>2. toPc' \in Seq(Replies)
    BY <1>0, <1>10, <2>1, SentKeepsType DEF ConfirmAndErase
  <2>. QED BY <1>0, <1>1, <1>10, <2>2 DEF ConfirmAndErase, Steps
<1>11. CASE SendReady
  BY <1>0, <1>1, <1>11, SentKeepsType DEF SendReady, Steps
<1>12. CASE client_handle_data
  <2>1. ServerTypes' /\ PhaseInv' /\ link' = link /\ toBoard' \in Seq(Frames)
        /\ breaks' \in 0 .. MaxBreaks /\ loads' \in 0 .. MaxLoads
    BY <1>1, <1>3, <1>12 DEF client_handle_data
  <2>2. \/ client_report_error
        \/ UNCHANGED <<toPc, clientVars>>
        \/ step' = "writing" /\ UNCHANGED <<toPc, sess>>
    BY <1>12 DEF client_handle_data
  <2>. QED BY <1>0, <1>2, <2>1, <2>2 DEF clientVars, Steps
<1>13. CASE client_handle_end
  <2>1. ServerTypes' /\ PhaseInv' /\ link' = link /\ toBoard' \in Seq(Frames)
        /\ breaks' \in 0 .. MaxBreaks /\ loads' \in 0 .. MaxLoads
    BY <1>1, <1>3, <1>13 DEF client_handle_end
  <2>2. \/ client_report_error
        \/ UNCHANGED <<toPc, clientVars>>
        \/ step' = "verified" /\ UNCHANGED <<toPc, sess>>
    BY <1>13 DEF client_handle_end
  <2>. QED BY <1>0, <1>2, <2>1, <2>2 DEF clientVars, Steps
<1>14. CASE AckAndCommit
  BY <1>0, <1>1, <1>14, SentKeepsType DEF AckAndCommit, Steps
<1>15. CASE Heartbeat
  <2>1. Sent(Hello(running.version, target_slot)) /\ LinkKept /\ UNCHANGED <<toBoard, clientVars>>
        /\ running \in Images
    BY <1>15 DEF Heartbeat, OpAgrees
  <2>2. target_slot \in Slots BY SlotFacts DEF SessionTypeOK, TypeOK, target_slot
  <2>3. toPc' \in Seq(Replies) BY <1>0, <2>1, <2>2, ReplyFacts DEF Sent
  <2>. QED BY <1>0, <1>1, <2>1, <2>3 DEF clientVars
<1>16. CASE FlashFails
  BY <1>0, <1>1, <1>2, <1>16 DEF FlashFails
<1>17. CASE FlashWorks
  <2>1. LinkKept /\ UNCHANGED toBoard
        /\ (UNCHANGED <<clientVars, toPc>> \/ AfterOperation)
    BY <1>17 DEF FlashWorks
  <2>2. step \in {"erasing", "writing", "committing"}
    BY <1>17, FlashWorksIn DEF SessionTypeOK
  <2>3. AfterOperation => \/ client_report_error
                          \/ step' \in Steps /\ sess' \in {sess, "DONE"} /\ UNCHANGED toPc
    BY <2>2 DEF AfterOperation, Steps
  <2>. QED BY <1>0, <1>1, <1>2, <2>1, <2>3 DEF clientVars
<1>. QED
  BY <1>4, <1>5, <1>6, <1>7, <1>8, <1>9, <1>10, <1>11, <1>12, <1>13, <1>14, <1>15, <1>16, <1>17
     DEF ClientStep

-------------------------------------------------------------------------------
(* The client's state agrees with the manager's. *)

AgreeInv == ClientAgrees /\ OpAgrees

\* An error leaves a manager that is between two operations and has not committed.
LEMMA ErrorAgrees ==
  ASSUME client_report_error \/ (step' = "leave" /\ UNCHANGED sess),
         running' \in Images, op' = NoOp, state' # "COMMITTED"
  PROVE  AgreeInv'
BY DEF client_report_error, AgreeInv, ClientAgrees, OpAgrees

LEMMA CommandAgrees ==
  ASSUME BaseInv, AgreeInv,
         \/ ota_net_connect \/ ota_net_disconnect \/ Disconnected \/ Stalled
         \/ client_handle_push \/ SendFails \/ ConfirmAndErase \/ SendReady
         \/ client_handle_data \/ client_handle_end \/ AckAndCommit \/ Heartbeat
  PROVE  AgreeInv'
<1>. USE DEF AgreeInv, ClientAgrees, OpAgrees
<1>0. step \notin {"erasing", "writing", "committing"} /\ step # "connect"
        => running \in Images /\ op = NoOp
  OBVIOUS
<1>1. CASE ota_net_connect
  <2>1. step = "connect" /\ running \in Images /\ op = NoOp /\ state # "COMMITTED"
    BY <1>1 DEF ota_net_connect
  <2>2. running' = running /\ op' = op /\ state' = "IDLE"
    BY <1>1, <2>1
       DEF ota_net_connect, StartClean, Manager, ClientAborts, ota_abort, flashVars, vars, appVars,
           managerVars
  <2>. QED BY <1>1, <2>1, <2>2 DEF ota_net_connect
<1>2. CASE ota_net_disconnect
  BY <1>0, <1>2 DEF ota_net_disconnect, vars, flashVars, appVars, managerVars
<1>3. CASE Disconnected
  BY <1>0, <1>3 DEF Disconnected, vars, flashVars, appVars, managerVars
<1>4. CASE Stalled
  BY <1>0, <1>4, ErrorAgrees DEF Stalled, Manager, ClientAborts, ota_abort, flashVars
<1>5. CASE client_handle_push
  <2>1. step = "session" BY <1>5 DEF client_handle_push, NextFrame
  <2>2. CASE UNCHANGED vars /\ (client_report_error \/ UNCHANGED clientVars)
    BY <1>0, <2>1, <2>2, ErrorAgrees DEF vars, clientVars, flashVars, appVars, managerVars
  <2>3. ASSUME NEW i, Manager(ota_handle_push_update_request(i, i.size)),
               step' = "confirm", UNCHANGED sess
        PROVE  AgreeInv'
    BY <1>0, <2>1, <2>3
       DEF Manager, ota_handle_push_update_request, PushRefused, flashVars
  <2>. QED BY <1>5, <2>2, <2>3 DEF client_handle_push
<1>6. CASE SendFails
  BY <1>0, <1>6, ErrorAgrees DEF SendFails, vars, flashVars, appVars, managerVars
<1>7. CASE ConfirmAndErase
  <2>1. running' = running /\ (op' = NoOp => state' = "IDLE")
    BY <1>7, NoOpType DEF ConfirmAndErase, Manager, ota_start_download, ota_abort, Op
  <2>2. op' # NoOp => op'.kind = "erase" /\ state' = "DOWNLOADING"
    BY <1>0, <1>7 DEF ConfirmAndErase, Manager, ota_start_download, ota_abort, Op
  <2>. QED BY <1>0, <1>7, <2>1, <2>2, ErrorAgrees DEF ConfirmAndErase
<1>8. CASE SendReady
  BY <1>0, <1>8 DEF SendReady, vars, flashVars, appVars, managerVars
<1>9. CASE client_handle_data
  <2>1. step = "session" BY <1>9 DEF client_handle_data, NextFrame
  <2>2. CASE UNCHANGED vars /\ UNCHANGED clientVars
    BY <1>0, <2>1, <2>2 DEF vars, clientVars, flashVars, appVars, managerVars
  <2>3. ASSUME NEW o, NEW n, NEW i, Manager(ota_write_data_block(o, n, i)),
               sess = "DOWNLOADING",
               IF op' = NoOp THEN client_report_error
               ELSE step' = "writing" /\ UNCHANGED sess
        PROVE  AgreeInv'
    <3>1. running' = running /\ (op' = NoOp => state' = "IDLE")
      BY <2>3, NoOpType DEF Manager, ota_write_data_block, ota_abort, Op
    <3>2. op' # NoOp => op'.kind = "program" /\ state' = "DOWNLOADING"
      BY <1>0, <2>1, <2>3 DEF Manager, ota_write_data_block, ota_abort, managerVars, Op
    <3>. QED BY <1>0, <2>1, <2>3, <3>1, <3>2, ErrorAgrees
  <2>. QED BY <1>9, <2>2, <2>3 DEF client_handle_data
<1>10. CASE client_handle_end
  <2>1. step = "session" BY <1>10 DEF client_handle_end, NextFrame
  <2>2. CASE UNCHANGED vars /\ UNCHANGED clientVars
    BY <1>0, <2>1, <2>2 DEF vars, clientVars, flashVars, appVars, managerVars
  <2>3. CASE /\ sess = "DOWNLOADING" /\ Manager(ota_finish_download)
             /\ IF state' # "SUCCESS" THEN client_report_error
                ELSE step' = "verified" /\ UNCHANGED sess
    <3>1. running' = running /\ op' = op /\ (state' # "SUCCESS" => state' = "IDLE")
      BY <2>3 DEF Manager, ota_finish_download, ota_abort, flashVars
    <3>. QED BY <1>0, <2>1, <2>3, <3>1, ErrorAgrees
  <2>. QED BY <1>10, <2>2, <2>3 DEF client_handle_end
<1>11. CASE AckAndCommit
  <2>1. running' = running /\ state' = "UPDATING" /\ op'.kind = "info_erase"
    BY <1>11 DEF AckAndCommit, Manager, ota_prepare_update, Op
  <2>. QED BY <1>0, <1>11, <2>1 DEF AckAndCommit
<1>12. CASE Heartbeat
  BY <1>0, <1>12 DEF Heartbeat, vars, clientVars, flashVars, appVars, managerVars
<1>. QED BY <1>1, <1>2, <1>3, <1>4, <1>5, <1>6, <1>7, <1>8, <1>9, <1>10, <1>11, <1>12

\* The flash finishes a cell, a word or the whole operation of the client's step.
LEMMA FlashAgrees ==
  ASSUME BaseInv, AgreeInv, FlashWorks \/ FlashFails
  PROVE  AgreeInv'
<1>1. CASE FlashFails
  <2>1. running' \in Images /\ op' = NoOp /\ state' = "IDLE"
    BY <1>1 DEF FlashFails, Manager, OperationFails, OpEnds, ota_abort
  <2>. QED BY <1>1, <2>1, ErrorAgrees DEF FlashFails
<1>2. CASE FlashWorks
  <2>0. TypeOK /\ OpAgrees BY DEF BaseInv, AgreeInv
  <2>1. running \in Images /\ op # NoOp BY <2>0, <1>2, FlashWorksIn
  <2>2. IF op' = NoOp THEN AfterOperation ELSE UNCHANGED <<clientVars, toPc>>
    BY <1>2 DEF FlashWorks
  <2>3. op.addr \in Nat /\ op.addr + 1 \in Nat BY <2>0 DEF TypeOK
  <2>4. CASE step = "erasing" /\ EraseSector
    <3>0. ASSUME NEW n, OpGoesOn(n) PROVE op'.kind = op.kind
      BY <2>0, <3>0 DEF TypeOK, OpGoesOn
    <3>1. running' = running /\ state' = state /\ (op' # NoOp => op'.kind = "erase")
      BY <2>4, <3>0 DEF EraseSector, appVars, managerVars, OpEnds
    <3>. QED BY <2>1, <2>2, <2>4, <3>1
            DEF AfterOperation, AgreeInv, ClientAgrees, OpAgrees, clientVars
  <2>5. CASE step = "writing" /\ ProgramCell
    <3>1. running' = running /\ state' = state
      BY <2>5 DEF ProgramCell
    <3>2. op' # NoOp => op'.kind = "program"
      BY <2>0, <2>3, <2>5, OpMoves DEF ProgramCell, OpEnds
    <3>. QED BY <2>1, <2>2, <2>5, <3>1, <3>2
            DEF AfterOperation, AgreeInv, ClientAgrees, OpAgrees, clientVars
  <2>6. CASE step = "committing" /\ EraseInfo
    <3>1. running' = running /\ state' = state
      BY <2>6 DEF EraseInfo, appVars, managerVars
    <3>2. op'.kind = "info_program" /\ op' # NoOp
      BY <2>6, NoOpType DEF EraseInfo, Op
    <3>. QED BY <2>1, <2>2, <2>6, <3>1, <3>2
            DEF AgreeInv, ClientAgrees, OpAgrees, clientVars
  <2>7. CASE step = "committing" /\ ProgramInfo
    <3>1. running' = running BY <2>7 DEF ProgramInfo
    <3>2. CASE OpGoesOn(op.addr + 1) /\ UNCHANGED managerVars
      <4>1. op'.kind = "info_program" /\ op' # NoOp
        BY <2>0, <2>3, <2>7, <3>2, OpMoves, NoOpType DEF ProgramInfo
      <4>. QED BY <2>1, <2>2, <2>7, <3>1, <3>2, <4>1
              DEF AgreeInv, ClientAgrees, OpAgrees, clientVars, managerVars
    <3>3. CASE OpEnds /\ state' \in {"COMMITTED", "IDLE"}
      <4>1. op' = NoOp /\ AfterOperation BY <2>2, <3>3 DEF OpEnds
      <4>2. CASE state' = "COMMITTED"
        BY <2>1, <2>7, <3>1, <4>1, <4>2 DEF AfterOperation, AgreeInv, ClientAgrees, OpAgrees
      <4>3. CASE state' = "IDLE"
        <5>1. client_report_error BY <2>7, <4>1, <4>3 DEF AfterOperation
        <5>. QED BY <2>1, <3>1, <4>1, <4>3, <5>1, ErrorAgrees
      <4>. QED BY <3>3, <4>2, <4>3
    <3>. QED BY <2>7, <3>2, <3>3 DEF ProgramInfo, ota_abort
  <2>. QED BY <1>2, <2>0, <2>4, <2>5, <2>6, <2>7, FlashWorksIn
<1>. QED BY <1>1, <1>2

\* The board starts over, starts an application, or the step is not the board's.
LEMMA OthersAgree ==
  ASSUME BaseInv, BaseInv', AgreeInv,
         \/ Boots \/ Reboot \/ LosePower \/ Server \/ Loads \/ Breaks
         \/ UNCHANGED sessionAll
  PROVE  AgreeInv'
<1>. USE DEF AgreeInv, ClientAgrees, OpAgrees
<1>1. CASE Reboot \/ LosePower
  <2>1. running' = Blank /\ state' = "IDLE" /\ step' = "connect"
    BY <1>1 DEF Reboot, LosePower, SystemReset, PowerLoss, Restart, ManagerReset, ClientRestarts
  <2>. QED BY <2>1, ImageAssumption
<1>2. CASE Boots
  <2>1. running \notin Images /\ Boot /\ UNCHANGED clientVars
    BY <1>2, BootloaderIsOver DEF Boots
  <2>2. step = "connect" /\ step' = "connect" /\ state # "COMMITTED"
    BY <2>1 DEF clientVars
  <2>3. state' # "COMMITTED"
    BY <2>1, <2>2 DEF Boot, AppStarts, ManagerReset, appVars, managerVars
  <2>4. running' \in Images => op' = NoOp
    <3>1. CASE UNCHANGED appVars BY <2>1, <3>1 DEF appVars
    <3>2. CASE \E slot \in Slots : AppStarts(slot)
      <4>1. state' = "IDLE" BY <3>2 DEF AppStarts, ManagerReset
      <4>2. /\ op'.kind = "none" => op' = NoOp
            /\ op'.kind \in {"erase", "program"} => state' = "DOWNLOADING"
            /\ running' \in Images /\ op'.kind \in {"info_erase", "info_program"}
                 => state' = "UPDATING"
            /\ op'.kind \in OpKinds
        BY DEF BaseInv, OpInv, TypeOK
      <4>. QED BY <4>1, <4>2 DEF OpKinds
    <3>. QED BY <2>1, <3>1, <3>2 DEF Boot
  <2>. QED BY <2>2, <2>3, <2>4
<1>3. CASE Server \/ Loads \/ Breaks \/ UNCHANGED sessionAll
  BY <1>3
     DEF Server, Loads, Breaks, sessionAll, vars, flashVars, appVars, managerVars, clientVars
<1>. QED BY <1>1, <1>2, <1>3

\* These steps leave the types of the session as they are.
LEMMA OthersKeepTypes ==
  ASSUME SessionTypeOK, PhaseInv,
         \/ Boots \/ Reboot \/ LosePower \/ Server \/ Loads \/ Breaks
         \/ UNCHANGED sessionAll
  PROVE  ServerTypes' /\ WireTypes' /\ ClientTypes' /\ PhaseInv'
<1>0. ServerTypes /\ WireTypes /\ ClientTypes BY SessionTypes
<1>1. CASE Boots \/ UNCHANGED sessionAll
  BY <1>0, <1>1
     DEF Boots, sessionAll, pcVars, sessionVars, clientVars, ServerTypes, WireTypes, ClientTypes,
         PhaseInv
<1>2. CASE Reboot \/ LosePower
  <2>1. ClientRestarts BY <1>2 DEF Reboot, LosePower
  <2>. QED BY <1>0, <2>1, SeqFacts
           DEF ClientRestarts, sessionVars, ServerTypes, WireTypes, ClientTypes, PhaseInv, Steps
<1>3. CASE Server
  BY <1>0, <1>3, ServerTypesKept DEF Server, ClientTypes, clientVars
<1>4. CASE Loads
  BY <1>0, <1>4, ServerTypesKept, SessionAssumption DEF Loads, ClientTypes, clientVars
<1>5. CASE Breaks
  BY <1>0, <1>5, ServerTypesKept, SessionAssumption DEF Breaks, ClientTypes, clientVars
<1>. QED BY <1>1, <1>2, <1>3, <1>4, <1>5

-------------------------------------------------------------------------------
(* The inductive invariant. *)

FullInv == SessionInv /\ AgreeInv

LEMMA SessionStarts == SessionInit => FullInv
<1>. SUFFICES ASSUME SessionInit PROVE FullInv
  OBVIOUS
<1>1. BaseInv BY InitBase DEF SessionInit
<1>2. PICK i \in Images : Shipped(i) BY DEF SessionInit, Init
<1>3. running = Blank /\ state = "IDLE" BY <1>2 DEF Shipped, ManagerInit
<1>4. ServerTypes /\ WireTypes /\ PhaseInv
  BY BoundsAssumption, SeqFacts
     DEF SessionInit, ServerInit, ServerTypes, WireTypes, PhaseInv, Phases
<1>5. ClientTypes BY SessionAssumption DEF SessionInit, ClientTypes, Steps
<1>6. AgreeInv
  BY <1>3, ImageAssumption DEF SessionInit, AgreeInv, ClientAgrees, OpAgrees
<1>. QED BY <1>1, <1>4, <1>5, <1>6, SessionTypes DEF FullInv, SessionInv, BaseInv

LEMMA SessionStep == FullInv /\ [SessionNext]_sessionAll => FullInv'
<1>. SUFFICES ASSUME FullInv, [SessionNext]_sessionAll PROVE FullInv'
  OBVIOUS
<1>0. BaseInv /\ SessionTypeOK /\ PhaseInv /\ AgreeInv /\ OpAgrees
  BY DEF FullInv, SessionInv, AgreeInv
<1>1. BaseInv' BY <1>0, StepRefines, BaseStep
<1>2. CASE ClientStep \/ Heartbeat \/ FlashFails
  <2>1. ServerTypes' /\ WireTypes' /\ ClientTypes' /\ PhaseInv'
    BY <1>0, <1>2, ClientTypesKept
  <2>2. AgreeInv' BY <1>0, <1>2, CommandAgrees, FlashAgrees DEF ClientStep
  <2>. QED BY <1>1, <2>1, <2>2, SessionTypes DEF FullInv, SessionInv, BaseInv, SessionTypeOK,
              ServerTypes, WireTypes, ClientTypes
<1>3. CASE \/ Boots \/ Reboot \/ LosePower \/ Server \/ Loads \/ Breaks
           \/ UNCHANGED sessionAll
  <2>1. ServerTypes' /\ WireTypes' /\ ClientTypes' /\ PhaseInv'
    BY <1>0, <1>3, OthersKeepTypes
  <2>2. AgreeInv' BY <1>0, <1>1, <1>3, OthersAgree
  <2>. QED BY <1>1, <2>1, <2>2, SessionTypes DEF FullInv, SessionInv, BaseInv, SessionTypeOK,
              ServerTypes, WireTypes, ClientTypes
<1>. QED BY <1>2, <1>3 DEF SessionNext

(***************************************************************************)
(* The client, the protocol and the PC tool move the board only as         *)
(* OtaSystem lets it move, whatever releases there are, however frames and *)
(* connections are lost: User/ota/ota_client.c never calls the manager     *)
(* with what PUSH, DATA and END of OtaSystem do not cover.                 *)
(***************************************************************************)
THEOREM SessionRefines == SessionSpec => ImplementsSystem
<1>1. SessionInit => Init BY DEF SessionInit
<1>2. FullInv /\ [SessionNext]_sessionAll => [Next]_vars
  BY StepRefines DEF FullInv, SessionInv
<1>. QED BY <1>1, <1>2, SessionStarts, SessionStep, PTL DEF SessionSpec, ImplementsSystem, Spec

(***************************************************************************)
(* Every variable of the session keeps its type, and the PC never sends    *)
(* past the end of an image.                                               *)
(***************************************************************************)
THEOREM SessionTypeCorrect == SessionSpec => []SessionTypeOK
<1>1. FullInv => SessionTypeOK BY DEF FullInv, SessionInv
<1>. QED BY <1>1, SessionStarts, SessionStep, PTL DEF SessionSpec

(***************************************************************************)
(* g_sess and the manager's state never drift apart: whichever call fails  *)
(* in whichever frame's handler, both are back at the start together.      *)
(***************************************************************************)
THEOREM ClientAndManagerAgree == SessionSpec => []ClientAgrees
<1>1. FullInv => ClientAgrees BY DEF FullInv, AgreeInv
<1>. QED BY <1>1, SessionStarts, SessionStep, PTL DEF SessionSpec

(***************************************************************************)
(* Carried over from OtaSystem along the refinement: no update, complete   *)
(* or broken off, changes a cell of the slot that runs.                    *)
(***************************************************************************)
THEOREM RunningSlotSafeInTheField == SessionSpec => RunningSlotUntouched
BY SessionRefines, RunningSlotSafe, PTL DEF ImplementsSystem
-------------------------------------------------------------------------------
(* What is on the wire, and where the client is when it is.                *)

\* The client takes the frames of a download, or has given the session up.
Taking == step = "leave" \/ (sess = "DOWNLOADING" /\ step \in {"session", "writing"})
AfterEnd == step \in {"verified", "committing", "reboot"}

OnlyHellos == \A k \in 1 .. Len(toPc) : toPc[k].cmd = "HELLO"

\* A push is alone on the wire, on its way to a client that waits for it.
PushInv ==
  \A k \in 1 .. Len(toBoard) : toBoard[k].cmd = "PUSH" =>
    /\ link = "up" /\ phase = "WAIT_CONFIRM" /\ Len(toBoard) = 1
    /\ step = "session" /\ sess = "IDLE" /\ OnlyHellos
    /\ ~PushRefused(toBoard[k].image, toBoard[k].image.size)

\* The frames of a download meet a client that takes them; END is the last.
DataInv ==
  \A k \in 1 .. Len(toBoard) :
    /\ toBoard[k].cmd \in {"DATA", "END"} => Taking
    /\ toBoard[k].cmd = "END" => k = Len(toBoard) /\ (link = "up" => phase \in {"WAIT_FINAL", "DONE"})

\* What the PC's phase says of the board, as long as they are connected.
PhasesInv ==
  link = "up" =>
    /\ phase = "WAIT_HELLO" => toBoard = <<>> /\ step = "session" /\ sess = "IDLE" /\ OnlyHellos
    /\ phase = "WAIT_CONFIRM" => \A k \in 1 .. Len(toBoard) : toBoard[k].cmd = "PUSH"
    /\ phase = "WAIT_READY" => toBoard = <<>>
    /\ phase \in {"WAIT_CONFIRM", "WAIT_READY"} =>
         \A k \in 1 .. Len(toPc) : toPc[k].cmd = "READY" => sess = "DOWNLOADING" /\ step = "session"
    /\ phase = "PUSHING" => Taking
    /\ phase = "WAIT_FINAL" => Taking \/ AfterEnd

\* A HELLO under way tells what still holds.
HelloInv ==
  /\ link # "up" => toPc = <<>>
  /\ step = "connect" => link = "down"
  /\ \A k \in 1 .. Len(toPc) : toPc[k].cmd = "HELLO" =>
       toPc[k].version = running.version /\ toPc[k].slot = target_slot

WireInv == PushInv /\ DataInv /\ PhasesInv /\ HelloInv

LEMMA TailParts ==
  ASSUME NEW S, NEW q \in Seq(S), q # <<>>
  PROVE  /\ Len(q) \in Nat /\ Len(q) > 0 /\ Head(q) = q[1] /\ Tail(q) \in Seq(S)
         /\ Len(Tail(q)) = Len(q) - 1
         /\ \A k \in 1 .. Len(Tail(q)) : k + 1 \in 1 .. Len(q) /\ Tail(q)[k] = q[k + 1]
OBVIOUS

LEMMA AppendParts ==
  ASSUME NEW S, NEW q \in Seq(S), NEW f \in S
  PROVE  /\ Append(q, f) \in Seq(S) /\ Len(q) \in Nat /\ Len(Append(q, f)) = Len(q) + 1
         /\ \A k \in 1 .. Len(q) : Append(q, f)[k] = q[k]
         /\ \A k \in 1 .. Len(Append(q, f)) : k \in 1 .. Len(q) \/ k = Len(q) + 1
         /\ Append(q, f)[Len(q) + 1] = f
OBVIOUS

LEMMA LastOne == ASSUME NEW S, NEW q \in Seq(S), Len(q) = 1 PROVE Tail(q) = <<>>
<1>0. q # <<>> OBVIOUS
<1>4. Tail(q) \in Seq(S) /\ Len(Tail(q)) = 0 BY <1>0, TailParts
<1>1. PICK t \in Seq(S) : t = Tail(q) BY <1>4
<1>2. Len(t) = 0 BY <1>1, <1>4
<1>3. t = <<>> BY <1>2
<1>. QED BY <1>1, <1>3

LEMMA TwoMore ==
  ASSUME NEW S, NEW q \in Seq(S), NEW f \in S, NEW g \in S
  PROVE  /\ Len(q) \in Nat /\ Len(q \o <<f, g>>) = Len(q) + 2
         /\ \A k \in 1 .. Len(q) : (q \o <<f, g>>)[k] = q[k]
         /\ (q \o <<f, g>>)[Len(q) + 1] = f /\ (q \o <<f, g>>)[Len(q) + 2] = g
<1>1. <<f, g>> \in Seq(S) /\ Len(<<f, g>>) = 2 /\ <<f, g>>[1] = f /\ <<f, g>>[2] = g
  OBVIOUS
<1>2. PICK t \in Seq(S) : t = <<f, g>> BY <1>1
<1>3. Len(t) = 2 /\ t[1] = f /\ t[2] = g BY <1>1, <1>2
<1>0. Len(q \o t) = Len(q) + Len(t) /\ Len(q) \in Nat OBVIOUS
<1>4. Len(q) \in Nat /\ Len(q \o t) = Len(q) + 2 BY <1>0, <1>3
<1>5. \A k \in 1 .. Len(q) : (q \o t)[k] = q[k] OBVIOUS
<1>6. (q \o t)[Len(q) + 1] = f /\ (q \o t)[Len(q) + 2] = g BY <1>3, <1>4
<1>. QED BY <1>2, <1>4, <1>5, <1>6

\* What the PC has still to read after a step of the client, which tells it C.
Told(C) ==
  /\ link # "up" => toPc' = toPc
  /\ \A k \in 1 .. Len(toPc') :
       \/ \E j \in 1 .. Len(toPc) : toPc'[k] = toPc[j]
       \/ toPc'[k].cmd \in C

\* What the board has still to read.
Shrinks ==
  \/ toBoard' = toBoard
  \/ toBoard # <<>> /\ toBoard' = Tail(toBoard)

LEMMA ToldNothing == ASSUME UNCHANGED toPc, NEW C PROVE Told(C)
BY DEF Told

LEMMA SentTells ==
  ASSUME toPc \in Seq(Replies), NEW c \in {"CONFIRM", "REJECT", "READY", "SUCCESS", "ERROR"},
         Sent(Plain(c)), NEW C, c \in C
  PROVE  Told(C)
<1>1. Plain(c) \in Replies /\ Plain(c).cmd = c BY ReplyFacts DEF Plain
<1>2. CASE link = "up"
  <2>1. toPc' = Append(toPc, Plain(c)) BY <1>2 DEF Sent
  <2>. QED BY <1>1, <1>2, <2>1, AppendParts DEF Told
<1>3. CASE link # "up" BY <1>3 DEF Sent, Told
<1>. QED BY <1>2, <1>3

LEMMA ShrinkParts ==
  ASSUME toBoard \in Seq(Frames), Shrinks
  PROVE  \A k \in 1 .. Len(toBoard') : \E j \in 1 .. Len(toBoard) :
           toBoard'[k] = toBoard[j] /\ (j = Len(toBoard) => k = Len(toBoard'))
<1>1. CASE toBoard' = toBoard BY <1>1
<1>2. CASE toBoard # <<>> /\ toBoard' = Tail(toBoard) BY <1>2, TailParts
<1>. QED BY <1>1, <1>2 DEF Shrinks

\* How a step of the client may change where it is, seen from the PC.
Moves ==
  \/ Taking'
  \/ ~Taking /\ (AfterEnd => AfterEnd')
  \/ AfterEnd' /\ toBoard' = <<>> /\ (link = "up" => phase # "PUSHING")

\* The client has something to do besides waiting on a live connection.
Busy == step # "session" \/ link # "up" \/ (toBoard # <<>> /\ toBoard' = Tail(toBoard))

Answers == {"CONFIRM", "REJECT", "READY", "SUCCESS", "ERROR"}

LEMMA ClientKeepsWire ==
  ASSUME WireInv, toBoard \in Seq(Frames), toPc \in Seq(Replies),
         UNCHANGED <<link, phase, running, current_slot>>,
         step' # "connect", Busy, Moves, Shrinks,
         NEW C, C \subseteq Answers, Told(C),
         "READY" \in C => sess' = "DOWNLOADING" /\ step' = "session"
  PROVE  WireInv'
<1>. USE DEF WireInv
<1>1. \A k \in 1 .. Len(toBoard') : \E j \in 1 .. Len(toBoard) :
        toBoard'[k] = toBoard[j] /\ (j = Len(toBoard) => k = Len(toBoard'))
  BY ShrinkParts
<1>2. ASSUME NEW k \in 1 .. Len(toBoard'), toBoard'[k].cmd = "PUSH" PROVE FALSE
  <2>1. PICK j \in 1 .. Len(toBoard) : toBoard'[k] = toBoard[j] BY <1>1
  <2>2. link = "up" /\ Len(toBoard) = 1 /\ step = "session"
    BY <1>2, <2>1 DEF PushInv
  <2>3. toBoard # <<>> /\ toBoard' = Tail(toBoard) BY <2>2 DEF Busy
  <2>4. Len(toBoard') = 0 BY <2>2, <2>3, TailParts
  <2>. QED BY <2>4
<1>3. PushInv' BY <1>2 DEF PushInv
<1>4. DataInv'
  <2>1. ASSUME NEW k \in 1 .. Len(toBoard'), toBoard'[k].cmd \in {"DATA", "END"} PROVE Taking'
    <3>1. PICK j \in 1 .. Len(toBoard) : toBoard'[k] = toBoard[j] BY <1>1
    <3>2. Taking BY <2>1, <3>1 DEF DataInv
    <3>3. toBoard' # <<>> BY <2>1
    <3>. QED BY <3>2, <3>3 DEF Moves
  <2>2. ASSUME NEW k \in 1 .. Len(toBoard'), toBoard'[k].cmd = "END"
        PROVE  k = Len(toBoard') /\ (link' = "up" => phase' \in {"WAIT_FINAL", "DONE"})
    <3>1. PICK j \in 1 .. Len(toBoard) :
            toBoard'[k] = toBoard[j] /\ (j = Len(toBoard) => k = Len(toBoard'))
      BY <1>1
    <3>. QED BY <2>2, <3>1 DEF DataInv
  <2>. QED BY <2>1, <2>2 DEF DataInv
<1>5. PhasesInv'
  <2>. SUFFICES ASSUME link = "up"
       PROVE  /\ phase = "WAIT_HELLO" => FALSE
              /\ phase = "WAIT_CONFIRM" => \A k \in 1 .. Len(toBoard') : toBoard'[k].cmd = "PUSH"
              /\ phase = "WAIT_READY" => toBoard' = <<>>
              /\ phase \in {"WAIT_CONFIRM", "WAIT_READY"} =>
                   \A k \in 1 .. Len(toPc') : toPc'[k].cmd = "READY"
                     => sess' = "DOWNLOADING" /\ step' = "session"
              /\ phase = "PUSHING" => Taking'
              /\ phase = "WAIT_FINAL" => Taking' \/ AfterEnd'
    BY DEF PhasesInv
  <2>1. phase = "WAIT_HELLO" => FALSE BY DEF PhasesInv, Busy
  <2>2. phase = "WAIT_CONFIRM" => \A k \in 1 .. Len(toBoard') : toBoard'[k].cmd = "PUSH"
    BY <1>1 DEF PhasesInv
  <2>3. phase = "WAIT_READY" => toBoard' = <<>>
    BY DEF PhasesInv, Shrinks
  <2>4. ASSUME phase \in {"WAIT_CONFIRM", "WAIT_READY"},
               NEW k \in 1 .. Len(toPc'), toPc'[k].cmd = "READY"
        PROVE  sess' = "DOWNLOADING" /\ step' = "session"
    <3>1. ASSUME NEW j \in 1 .. Len(toPc), toPc[j].cmd = "READY" PROVE FALSE
      <4>1. step = "session" BY <2>4, <3>1 DEF PhasesInv
      <4>2. toBoard # <<>> BY <4>1 DEF Busy
      <4>3. toBoard \in Seq(Frames) /\ Len(toBoard) \in Nat /\ Len(toBoard) > 0 BY <4>2, TailParts
      <4>4. phase = "WAIT_CONFIRM" BY <2>4, <4>2 DEF PhasesInv
      <4>5. toBoard[1].cmd = "PUSH" /\ 1 \in 1 .. Len(toBoard) BY <4>3, <4>4 DEF PhasesInv
      <4>6. OnlyHellos BY <4>5 DEF PushInv
      <4>. QED BY <3>1, <4>6 DEF OnlyHellos
    <3>2. (\E j \in 1 .. Len(toPc) : toPc'[k] = toPc[j]) \/ toPc'[k].cmd \in C
      BY <2>4 DEF Told
    <3>. QED BY <2>4, <3>1, <3>2
  <2>5. phase = "PUSHING" => Taking' BY DEF PhasesInv, Moves
  <2>6. phase = "WAIT_FINAL" => Taking' \/ AfterEnd' BY DEF PhasesInv, Moves
  <2>. QED BY <2>1, <2>2, <2>3, <2>4, <2>5, <2>6
<1>6. HelloInv'
  <2>1. link' # "up" => toPc' = <<>> BY DEF HelloInv, Told
  <2>2. ASSUME NEW k \in 1 .. Len(toPc'), toPc'[k].cmd = "HELLO"
        PROVE  toPc'[k].version = running'.version /\ toPc'[k].slot = target_slot'
    <3>1. toPc'[k].cmd \notin C BY <2>2 DEF Answers
    <3>2. PICK j \in 1 .. Len(toPc) : toPc'[k] = toPc[j] BY <2>2, <3>1 DEF Told
    <3>3. target_slot' = target_slot BY DEF target_slot
    <3>. QED BY <2>2, <3>2, <3>3 DEF HelloInv
  <2>. QED BY <2>1, <2>2 DEF HelloInv
<1>. QED BY <1>3, <1>4, <1>5, <1>6

\* The manager's part of these steps leaves the application where it runs.
LEMMA AppStays ==
  ASSUME ClientStep \/ Heartbeat \/ FlashFails
  PROVE  UNCHANGED <<running, current_slot>>
<1>1. CASE ota_net_connect \/ Stalled
  BY <1>1 DEF ota_net_connect, Stalled, StartClean, Manager, ClientAborts, vars, appVars
<1>2. CASE ota_net_disconnect \/ Disconnected \/ Heartbeat \/ SendFails \/ SendReady
  BY <1>2 DEF ota_net_disconnect, Disconnected, Heartbeat, SendFails, SendReady, vars, appVars
<1>3. CASE client_handle_push
  BY <1>3 DEF client_handle_push, Manager, ota_handle_push_update_request, vars, appVars
<1>4. CASE client_handle_data
  BY <1>4 DEF client_handle_data, Manager, ota_write_data_block, vars, appVars
<1>5. CASE client_handle_end
  BY <1>5 DEF client_handle_end, Manager, ota_finish_download, vars, appVars
<1>6. CASE ConfirmAndErase BY <1>6 DEF ConfirmAndErase, Manager, ota_start_download
<1>7. CASE AckAndCommit BY <1>7 DEF AckAndCommit, Manager, ota_prepare_update
<1>8. CASE FlashWorks
  BY <1>8 DEF FlashWorks, Manager, EraseSector, ProgramCell, EraseInfo, ProgramInfo, appVars
<1>9. CASE FlashFails BY <1>9 DEF FlashFails, Manager, OperationFails
<1>. QED BY <1>1, <1>2, <1>3, <1>4, <1>5, <1>6, <1>7, <1>8, <1>9 DEF ClientStep

\* A frame's handler takes the first frame, and it is of the kind it handles.
LEMMA FrameTaken ==
  ASSUME SessionTypeOK, NEW c, NextFrame(c)
  PROVE  /\ step = "session" /\ Busy /\ Shrinks
         /\ Len(toBoard) > 0 /\ 1 \in 1 .. Len(toBoard) /\ toBoard[1].cmd = c
         /\ toBoard' \in Seq(Frames) /\ Len(toBoard') = Len(toBoard) - 1
         /\ toBoard \in Seq(Frames) /\ toBoard # <<>> /\ toBoard' = Tail(toBoard)
         /\ UNCHANGED <<link, phase>>
<1>1. toBoard \in Seq(Frames) /\ toBoard # <<>> /\ toBoard' = Tail(toBoard) /\ step = "session"
      /\ Head(toBoard).cmd = c
  BY DEF NextFrame, SessionTypeOK
<1>2. UNCHANGED <<link, phase>> BY DEF NextFrame, LinkKept, sessionVars
<1>. QED BY <1>1, <1>2, TailParts DEF Busy, Shrinks

LEMMA ErrorMoves ==
  ASSUME SessionTypeOK, client_report_error
  PROVE  Moves /\ Told({"ERROR"}) /\ step' # "connect"
<1>1. Told({"ERROR"}) BY SentTells DEF client_report_error, SessionTypeOK
<1>. QED BY <1>1 DEF client_report_error, Moves, Taking

\* Each step of the client that stays on its connection.
LEMMA ClientWire ==
  ASSUME FullInv, WireInv,
         \/ Disconnected \/ Stalled \/ client_handle_push \/ SendFails \/ ConfirmAndErase
         \/ SendReady \/ client_handle_data \/ client_handle_end \/ AckAndCommit
         \/ FlashWorks \/ FlashFails
  PROVE  WireInv'
<1>0. SessionTypeOK /\ ClientAgrees /\ OpAgrees /\ TypeOK /\ toBoard \in Seq(Frames)
      /\ toPc \in Seq(Replies)
  BY DEF FullInv, SessionInv, AgreeInv, SessionTypeOK
<1>1. UNCHANGED <<running, current_slot>> BY AppStays DEF ClientStep
<1>2. ASSUME UNCHANGED <<link, phase>>, step' # "connect", Busy, Moves, Shrinks,
             \/ Told({}) \/ Told({"CONFIRM"}) \/ Told({"REJECT"}) \/ Told({"ERROR"})
             \/ Told({"SUCCESS"}) \/ Told({"CONFIRM", "ERROR"})
             \/ Told({"READY"}) /\ sess' = "DOWNLOADING" /\ step' = "session"
      PROVE  WireInv'
  <2>0. UNCHANGED <<link, phase, running, current_slot>> BY <1>1, <1>2
  <2>1. ASSUME NEW C, C \subseteq Answers, Told(C), "READY" \notin C PROVE WireInv'
    BY <1>0, <1>2, <2>0, <2>1, ClientKeepsWire
  <2>2. ASSUME Told({"READY"}), sess' = "DOWNLOADING", step' = "session" PROVE WireInv'
    BY <1>0, <1>2, <2>0, <2>2, ClientKeepsWire DEF Answers
  <2>3. \A C \in {{}, {"CONFIRM"}, {"REJECT"}, {"ERROR"}, {"SUCCESS"}, {"CONFIRM", "ERROR"}} :
          C \subseteq Answers /\ "READY" \notin C
    BY DEF Answers
  <2>. QED BY <1>2, <2>1, <2>2, <2>3
<1>3. CASE Disconnected
  <2>1. link # "up" /\ step' = "leave" /\ UNCHANGED <<toPc, toBoard, link, phase>>
    BY <1>3 DEF Disconnected, pcVars, sessionVars
  <2>2. Told({}) BY <2>1, ToldNothing
  <2>. QED BY <1>2, <2>1, <2>2 DEF Busy, Moves, Shrinks, Taking
<1>4. CASE Stalled
  <2>1. link # "up" /\ client_report_error /\ UNCHANGED <<toBoard, link, phase>>
    BY <1>4 DEF Stalled, LinkKept, sessionVars
  <2>. QED BY <1>0, <1>2, <2>1, ErrorMoves DEF Busy, Shrinks
<1>5. CASE SendFails
  <2>1. link # "up" /\ client_report_error /\ UNCHANGED <<toBoard, link, phase>>
    BY <1>5 DEF SendFails, LinkKept, sessionVars
  <2>. QED BY <1>0, <1>2, <2>1, ErrorMoves DEF Busy, Shrinks
<1>6. CASE FlashFails
  <2>1. client_report_error /\ UNCHANGED <<toBoard, link, phase>> /\ op # NoOp /\ running \in Images
    BY <1>6 DEF FlashFails, LinkKept, sessionVars, Manager, OperationFails
  <2>2. step # "session" BY <1>0, <2>1 DEF OpAgrees
  <2>. QED BY <1>0, <1>2, <2>1, <2>2, ErrorMoves DEF Busy, Shrinks
<1>7. CASE client_handle_push
  <2>0. NextFrame("PUSH") BY <1>7 DEF client_handle_push
  <2>1. step = "session" /\ Busy /\ Shrinks /\ UNCHANGED <<link, phase>>
        /\ 1 \in 1 .. Len(toBoard) /\ toBoard[1].cmd = "PUSH"
    BY <1>0, <2>0, FrameTaken
  <2>2. sess = "IDLE" BY <2>1 DEF WireInv, PushInv
  <2>3. ~Taking /\ ~AfterEnd BY <2>1, <2>2 DEF Taking, AfterEnd
  <2>4. \/ client_report_error
        \/ Sent(Plain("REJECT")) /\ UNCHANGED clientVars
        \/ step' = "confirm" /\ UNCHANGED <<toPc, sess>>
    BY <1>7 DEF client_handle_push
  <2>5. CASE client_report_error BY <1>0, <1>2, <2>1, <2>5, ErrorMoves
  <2>6. CASE Sent(Plain("REJECT")) /\ UNCHANGED clientVars
    <3>1. Told({"REJECT"}) BY <1>0, <2>6, SentTells
    <3>. QED BY <1>2, <2>1, <2>3, <2>6, <3>1 DEF Moves, clientVars
  <2>7. CASE step' = "confirm" /\ UNCHANGED <<toPc, sess>>
    <3>1. Told({}) BY <2>7, ToldNothing
    <3>. QED BY <1>2, <2>1, <2>3, <2>7, <3>1 DEF Moves
  <2>. QED BY <2>4, <2>5, <2>6, <2>7
<1>8. CASE ConfirmAndErase
  <2>1. step = "confirm" /\ UNCHANGED <<link, phase, toBoard, sess>> /\ Busy /\ Shrinks
        /\ ~Taking /\ ~AfterEnd
    BY <1>8 DEF ConfirmAndErase, LinkKept, sessionVars, Busy, Shrinks, Taking, AfterEnd
  <2>2. Moves BY <2>1 DEF Moves
  <2>3. \/ Sent(Plain("CONFIRM")) /\ step' = "erasing"
        \/ /\ toPc' = IF link = "up" THEN toPc \o <<Plain("CONFIRM"), Plain("ERROR")>> ELSE toPc
           /\ step' = "leave"
    BY <1>8 DEF ConfirmAndErase
  <2>4. CASE Sent(Plain("CONFIRM")) /\ step' = "erasing"
    <3>1. Told({"CONFIRM"}) BY <1>0, <2>4, SentTells
    <3>. QED BY <1>2, <2>1, <2>2, <2>4, <3>1
  <2>5. CASE /\ toPc' = IF link = "up" THEN toPc \o <<Plain("CONFIRM"), Plain("ERROR")>> ELSE toPc
             /\ step' = "leave"
    <3>1. Told({"CONFIRM", "ERROR"})
      <4>1. ASSUME link = "up", NEW k \in 1 .. Len(toPc')
            PROVE  \/ \E j \in 1 .. Len(toPc) : toPc'[k] = toPc[j]
                   \/ toPc'[k].cmd \in {"CONFIRM", "ERROR"}
        <5>1. Plain("CONFIRM").cmd = "CONFIRM" /\ Plain("ERROR").cmd = "ERROR" BY DEF Plain
        <5>2. toPc' = toPc \o <<Plain("CONFIRM"), Plain("ERROR")>> BY <2>5, <4>1
        <5>3. /\ Len(toPc) \in Nat /\ Len(toPc') = Len(toPc) + 2
              /\ \A j \in 1 .. Len(toPc) : toPc'[j] = toPc[j]
              /\ toPc'[Len(toPc) + 1] = Plain("CONFIRM")
              /\ toPc'[Len(toPc) + 2] = Plain("ERROR")
          BY <1>0, <5>2, ReplyFacts, TwoMore
        <5>4. k \in 1 .. Len(toPc) \/ k = Len(toPc) + 1 \/ k = Len(toPc) + 2
          BY <4>1, <5>3
        <5>. QED BY <5>1, <5>3, <5>4
      <4>2. link # "up" => toPc' = toPc BY <2>5
      <4>3. ASSUME link # "up", NEW k \in 1 .. Len(toPc')
            PROVE  \E j \in 1 .. Len(toPc) : toPc'[k] = toPc[j]
        BY <4>2, <4>3
      <4>. QED BY <4>1, <4>2, <4>3 DEF Told
    <3>. QED BY <1>2, <2>1, <2>2, <2>5, <3>1
  <2>. QED BY <2>3, <2>4, <2>5
<1>9. CASE SendReady
  <2>1. step = "ready" /\ UNCHANGED <<link, phase, toBoard>> /\ Sent(Plain("READY"))
        /\ sess' = "DOWNLOADING" /\ step' = "session"
    BY <1>9 DEF SendReady, LinkKept, sessionVars
  <2>2. Told({"READY"}) BY <1>0, <2>1, SentTells
  <2>. QED BY <1>2, <2>1, <2>2 DEF Busy, Shrinks, Moves, Taking
<1>10. CASE client_handle_data
  <2>0. NextFrame("DATA") BY <1>10 DEF client_handle_data
  <2>1. step = "session" /\ Busy /\ Shrinks /\ UNCHANGED <<link, phase>>
    BY <1>0, <2>0, FrameTaken
  <2>2. \/ client_report_error
        \/ UNCHANGED <<toPc, clientVars>>
        \/ sess = "DOWNLOADING" /\ step' = "writing" /\ UNCHANGED <<toPc, sess>>
    BY <1>10 DEF client_handle_data
  <2>3. CASE client_report_error BY <1>0, <1>2, <2>1, <2>3, ErrorMoves
  <2>4. CASE UNCHANGED <<toPc, clientVars>>
    <3>1. Told({}) BY <2>4, ToldNothing
    <3>2. Moves BY <2>4 DEF Moves, Taking, AfterEnd, clientVars
    <3>. QED BY <1>2, <2>1, <2>4, <3>1, <3>2 DEF clientVars
  <2>5. CASE sess = "DOWNLOADING" /\ step' = "writing" /\ UNCHANGED <<toPc, sess>>
    <3>1. Told({}) BY <2>5, ToldNothing
    <3>. QED BY <1>2, <2>1, <2>5, <3>1 DEF Moves, Taking
  <2>. QED BY <2>2, <2>3, <2>4, <2>5
<1>11. CASE client_handle_end
  <2>0. NextFrame("END") BY <1>11 DEF client_handle_end
  <2>1. step = "session" /\ Busy /\ Shrinks /\ UNCHANGED <<link, phase>>
        /\ 1 \in 1 .. Len(toBoard) /\ toBoard[1].cmd = "END"
        /\ Len(toBoard') = Len(toBoard) - 1 /\ toBoard' \in Seq(Frames)
    BY <1>0, <2>0, FrameTaken
  <2>2. 1 = Len(toBoard) /\ (link = "up" => phase \in {"WAIT_FINAL", "DONE"})
    BY <2>1 DEF WireInv, DataInv
  <2>3. toBoard' = <<>> BY <1>0, <2>0, <2>2, FrameTaken, LastOne
  <2>4. \/ client_report_error
        \/ UNCHANGED <<toPc, clientVars>>
        \/ step' = "verified" /\ UNCHANGED <<toPc, sess>>
    BY <1>11 DEF client_handle_end
  <2>5. CASE client_report_error BY <1>0, <1>2, <2>1, <2>5, ErrorMoves
  <2>6. CASE UNCHANGED <<toPc, clientVars>>
    <3>1. Told({}) BY <2>6, ToldNothing
    <3>2. Moves BY <2>6 DEF Moves, Taking, AfterEnd, clientVars
    <3>. QED BY <1>2, <2>1, <2>6, <3>1, <3>2 DEF clientVars
  <2>7. CASE step' = "verified" /\ UNCHANGED <<toPc, sess>>
    <3>1. Told({}) BY <2>7, ToldNothing
    <3>2. Moves BY <2>2, <2>3, <2>7 DEF Moves, AfterEnd
    <3>. QED BY <1>2, <2>1, <2>7, <3>1, <3>2
  <2>. QED BY <2>4, <2>5, <2>6, <2>7
<1>12. CASE AckAndCommit
  <2>1. step = "verified" /\ UNCHANGED <<link, phase, toBoard>> /\ Sent(Plain("SUCCESS"))
        /\ step' = "committing"
    BY <1>12 DEF AckAndCommit, LinkKept, sessionVars
  <2>2. Told({"SUCCESS"}) BY <1>0, <2>1, SentTells
  <2>. QED BY <1>2, <2>1, <2>2 DEF Busy, Shrinks, Moves, Taking, AfterEnd
<1>13. CASE FlashWorks
  <2>1. UNCHANGED <<link, phase, toBoard>> /\ (UNCHANGED <<clientVars, toPc>> \/ AfterOperation)
    BY <1>13 DEF FlashWorks, LinkKept, sessionVars
  <2>2. step \in {"erasing", "writing", "committing"}
    BY <1>0, <1>13, FlashWorksIn
  <2>3. Busy /\ Shrinks BY <2>1, <2>2 DEF Busy, Shrinks
  <2>4. CASE UNCHANGED <<clientVars, toPc>>
    <3>1. Told({}) BY <2>4, ToldNothing
    <3>2. Moves BY <2>4 DEF Moves, Taking, AfterEnd, clientVars
    <3>. QED BY <1>2, <2>1, <2>2, <2>3, <2>4, <3>1, <3>2 DEF clientVars
  <2>5. CASE AfterOperation
    <3>1. CASE client_report_error BY <1>0, <1>2, <2>1, <2>3, <3>1, ErrorMoves
    <3>2. CASE ~client_report_error
      <4>1. UNCHANGED toPc
        BY <2>5, <3>2 DEF AfterOperation
      <4>2. Moves /\ step' # "connect"
        BY <1>0, <2>5, <3>2 DEF AfterOperation, Moves, Taking, AfterEnd, ClientAgrees
      <4>3. Told({}) BY <4>1, ToldNothing
      <4>. QED BY <1>2, <2>1, <2>3, <4>2, <4>3
    <3>. QED BY <3>1, <3>2
  <2>. QED BY <2>1, <2>4, <2>5
<1>. QED BY <1>3, <1>4, <1>5, <1>6, <1>7, <1>8, <1>9, <1>10, <1>11, <1>12, <1>13

\* One frame on the wire.
LEMMA OneFrame == ASSUME NEW f PROVE Len(<<f>>) = 1 /\ <<f>>[1] = f
OBVIOUS

\* With nothing on the wire and no live connection, nothing can go wrong.
LEMMA EmptyWire ==
  ASSUME link' # "up", toBoard' = <<>>, toPc' = <<>>, step' = "connect" => link' = "down"
  PROVE  WireInv'
<1>1. Len(<<>>) = 0 OBVIOUS
<1>. QED BY <1>1 DEF WireInv, PushInv, DataInv, PhasesInv, HelloInv

\* The connection is made, lost, or idle; the board starts over.
LEMMA ConnectionWire ==
  ASSUME FullInv, WireInv,
         \/ ota_net_connect \/ ota_net_disconnect \/ Heartbeat
         \/ Boots \/ Reboot \/ LosePower \/ Loads \/ Breaks \/ UNCHANGED sessionAll
  PROVE  WireInv'
<1>0. SessionTypeOK /\ ClientAgrees /\ OpAgrees /\ BaseInv
  BY DEF FullInv, SessionInv, AgreeInv
<1>. DEFINE hello == Hello(running.version, target_slot)
<1>h. hello.cmd = "HELLO" /\ hello.version = running.version /\ hello.slot = target_slot
  BY DEF Hello
<1>. HIDE DEF hello
<1>1. CASE ota_net_connect
  <2>1. UNCHANGED <<running, current_slot>> BY <1>1, AppStays DEF ClientStep
  <2>2. link' = "up" /\ phase' = "WAIT_HELLO" /\ toPc' = <<hello>> /\ toBoard' = <<>>
        /\ sess' = "IDLE" /\ step' = "session"
    BY <1>1 DEF ota_net_connect, NewSession, hello
  <2>3. Len(toPc') = 1 /\ toPc'[1] = hello BY <2>2, OneFrame
  <2>4. target_slot' = target_slot BY <2>1 DEF target_slot
  <2>5. \A k \in 1 .. Len(toPc') : toPc'[k] = hello BY <2>3
  <2>6. Len(toBoard') = 0 BY <2>2
  <2>7. OnlyHellos' BY <1>h, <2>5 DEF OnlyHellos
  <2>8. PushInv' /\ DataInv' BY <2>6 DEF PushInv, DataInv
  <2>9. PhasesInv' BY <2>2, <2>7 DEF PhasesInv
  <2>10. HelloInv' BY <1>h, <2>1, <2>2, <2>4, <2>5 DEF HelloInv
  <2>. QED BY <2>8, <2>9, <2>10 DEF WireInv
<1>2. CASE ota_net_disconnect
  BY <1>2, EmptyWire DEF ota_net_disconnect
<1>3. CASE Reboot \/ LosePower
  BY <1>3, EmptyWire DEF Reboot, LosePower, ClientRestarts
<1>4. CASE Heartbeat
  <2>1. UNCHANGED <<running, current_slot, state, toBoard, sess, step, link, phase>>
    BY <1>4 DEF Heartbeat, LinkKept, sessionVars, clientVars, vars, appVars, managerVars
  <2>2. link = "up" /\ toPc = <<>> /\ toPc' = Append(toPc, hello) /\ step = "session"
    BY <1>4 DEF Heartbeat, Sent, hello
  <2>3. toPc' = <<hello>> BY <2>2
  <2>4. Len(toPc') = 1 /\ toPc'[1] = hello BY <2>3, OneFrame
  <2>5. \A k \in 1 .. Len(toPc') : toPc'[k] = hello BY <2>4
  <2>6. OnlyHellos' BY <1>h, <2>5 DEF OnlyHellos
  <2>7. target_slot' = target_slot /\ download_size' = download_size
    BY <2>1 DEF target_slot, download_size
  <2>8. PushInv' BY <2>1, <2>6, <2>7 DEF WireInv, PushInv, PushRefused
  <2>9. DataInv' BY <2>1 DEF WireInv, DataInv, Taking
  <2>10. PhasesInv' BY <1>h, <2>1, <2>5, <2>6 DEF WireInv, PhasesInv, Taking, AfterEnd
  <2>11. HelloInv' BY <1>h, <2>1, <2>2, <2>5, <2>7 DEF HelloInv
  <2>. QED BY <2>8, <2>9, <2>10, <2>11 DEF WireInv
<1>5. CASE Boots
  <2>1. running \notin Images /\ UNCHANGED <<pcVars, clientVars>>
    BY <1>0, <1>5, BootloaderIsOver DEF Boots
  <2>2. UNCHANGED <<toBoard, toPc, link, phase, sess, step>>
    BY <2>1 DEF pcVars, sessionVars, clientVars
  <2>3. step = "connect" BY <1>0, <2>1 DEF OpAgrees
  <2>4. link = "down" /\ toPc = <<>> BY <2>3 DEF WireInv, HelloInv
  <2>5. PushInv' BY <2>2, <2>4 DEF WireInv, PushInv
  <2>6. DataInv' BY <2>2 DEF WireInv, DataInv, Taking
  <2>7. PhasesInv' BY <2>2, <2>4 DEF PhasesInv
  <2>8. Len(toPc') = 0 BY <2>2, <2>4
  <2>9. HelloInv' BY <2>2, <2>4, <2>8 DEF HelloInv
  <2>. QED BY <2>5, <2>6, <2>7, <2>9 DEF WireInv
<1>6. CASE Breaks
  <2>1. link = "up" /\ link' \in {"closed", "broken"} /\ toBoard' = <<>> /\ toPc' = <<>>
        /\ UNCHANGED step
    BY <1>6 DEF Breaks, LinkBreaks, clientVars
  <2>2. step # "connect" BY <2>1 DEF WireInv, HelloInv
  <2>. QED BY <2>1, <2>2, EmptyWire
<1>7. CASE Loads \/ UNCHANGED sessionAll
  <2>1. UNCHANGED <<running, current_slot, state, toBoard, toPc, sess, step, link, phase>>
    BY <1>7 DEF Loads, load_firmware, sessionAll, pcVars, sessionVars, clientVars, vars, appVars,
                managerVars
  <2>2. target_slot' = target_slot /\ download_size' = download_size
    BY <2>1 DEF target_slot, download_size
  <2>3. PushInv' BY <2>1, <2>2 DEF WireInv, PushInv, PushRefused, OnlyHellos
  <2>4. DataInv' BY <2>1 DEF WireInv, DataInv, Taking
  <2>5. PhasesInv' BY <2>1 DEF WireInv, PhasesInv, Taking, AfterEnd, OnlyHellos
  <2>6. HelloInv' BY <2>1, <2>2 DEF WireInv, HelloInv
  <2>. QED BY <2>3, <2>4, <2>5, <2>6 DEF WireInv
<1>. QED BY <1>1, <1>2, <1>3, <1>4, <1>5, <1>6, <1>7

\* The PC reads a frame.
LEMMA PcReads ==
  ASSUME SessionTypeOK, NEW c, Arrived(c), Taken
  PROVE  /\ link = "up" /\ link' = link /\ 1 \in 1 .. Len(toPc) /\ toPc[1].cmd = c
         /\ \A k \in 1 .. Len(toPc') : \E j \in 1 .. Len(toPc) : toPc'[k] = toPc[j]
         /\ OnlyHellos => c = "HELLO" /\ OnlyHellos'
<1>1. /\ link = "up" /\ link' = link /\ toPc \in Seq(Replies) /\ toPc # <<>>
      /\ Head(toPc).cmd = c /\ toPc' = Tail(toPc)
  BY DEF Arrived, Taken, SessionTypeOK
<1>2. 1 \in 1 .. Len(toPc) /\ toPc[1].cmd = c
      /\ \A k \in 1 .. Len(toPc') : \E j \in 1 .. Len(toPc) : toPc'[k] = toPc[j]
  BY <1>1, TailParts
<1>. QED BY <1>1, <1>2 DEF OnlyHellos

\* A push the PC decides on is one the board accepts.
LEMMA PushAccepted ==
  ASSUME SessionTypeOK, state = "IDLE", WouldPush(running.version, target_slot), running \in Images
  PROVE  LET i == release.image[target_slot]
         IN  Push(i) \in Frames /\ i \in Images /\ i.slot = target_slot /\ ~PushRefused(i, i.size)
<1>1. PICK s \in Slots : s = target_slot BY SlotFacts DEF SessionTypeOK, TypeOK, target_slot
<1>2. release \in Releases /\ release.image[s] # NoImage /\ running.version < release.version
  BY <1>1 DEF WouldPush, SessionTypeOK
<1>3. PICK i \in Images : i = release.image[s] /\ i.slot = s /\ i.version = release.version
                          /\ i.size <= MaxSize
  BY <1>2, ReleasesAssumption
<1>4. i.size \in 1 .. size_of_slot(s) /\ size_of_slot(s) \in Nat /\ running.version \in Nat
      /\ i.version \in Nat
  BY <1>3, ImageAssumption, SlotFacts
<1>5. ~PushRefused(i, i.size) BY <1>1, <1>2, <1>3, <1>4 DEF PushRefused, download_size
<1>6. Push(i) \in Frames BY <1>3, FrameFacts
<1>. QED BY <1>1, <1>3, <1>5, <1>6

\* Each step of the PC tool.
LEMMA ServerWire ==
  ASSUME FullInv, WireInv, Server
  PROVE  WireInv'
<1>0. SessionTypeOK /\ ClientAgrees /\ OpAgrees /\ toBoard \in Seq(Frames) /\ toPc \in Seq(Replies)
  BY DEF FullInv, SessionInv, AgreeInv, SessionTypeOK
<1>1. UNCHANGED <<running, current_slot, state, sess, step>> /\ target_slot' = target_slot
      /\ download_size' = download_size /\ ServerStep
      /\ Taking' = Taking /\ AfterEnd' = AfterEnd
  BY DEF Server, vars, appVars, managerVars, clientVars, target_slot, download_size, Taking, AfterEnd
<1>2. ASSUME NEW c, Arrived(c), Taken PROVE HelloInv'
  <2>1. link' = link /\ \A k \in 1 .. Len(toPc') : \E j \in 1 .. Len(toPc) : toPc'[k] = toPc[j]
    BY <1>0, <1>2, PcReads
  <2>2. link = "up" BY <1>2 DEF Arrived
  <2>. QED BY <1>1, <2>1, <2>2 DEF WireInv, HelloInv
\* No push is under way when the PC reads anything but a HELLO.
<1>3. ASSUME NEW c, Arrived(c), Taken, c # "HELLO"
      PROVE  \A k \in 1 .. Len(toBoard) : toBoard[k].cmd # "PUSH"
  <2>1. ~OnlyHellos BY <1>0, <1>3, PcReads
  <2>. QED BY <2>1 DEF WireInv, PushInv
<1>4. CASE _on_hello
  <2>. DEFINE f == Head(toPc)
              asks == phase = "WAIT_HELLO" /\ WouldPush(f.version, f.slot)
  <2>1. Arrived("HELLO") /\ Taken BY <1>4 DEF _on_hello
  <2>2. link = "up" /\ link' = link /\ 1 \in 1 .. Len(toPc) /\ toPc[1].cmd = "HELLO"
        /\ (\A k \in 1 .. Len(toPc') : \E j \in 1 .. Len(toPc) : toPc'[k] = toPc[j])
        /\ (OnlyHellos => OnlyHellos')
    BY <1>0, <2>1, PcReads
  <2>3. f = toPc[1] BY <1>0, <2>1, TailParts DEF Arrived
  <2>4. f.version = running.version /\ f.slot = target_slot BY <2>2, <2>3 DEF WireInv, HelloInv
  <2>5. CASE asks
    <3>0. phase = "WAIT_HELLO" /\ WouldPush(running.version, target_slot) BY <2>4, <2>5
    <3>1. toBoard = <<>> /\ step = "session" /\ sess = "IDLE" /\ OnlyHellos
      BY <2>2, <3>0 DEF WireInv, PhasesInv
    <3>2. state = "IDLE" /\ running \in Images BY <1>0, <3>1 DEF ClientAgrees, OpAgrees
    <3>3. PICK i : i = release.image[target_slot] OBVIOUS
    <3>4. Push(i) \in Frames /\ ~PushRefused(i, i.size)
      BY <1>0, <3>0, <3>2, <3>3, PushAccepted
    <3>5. toBoard' = Append(toBoard, Push(i)) /\ phase' = "WAIT_CONFIRM"
      BY <1>4, <2>4, <2>5, <3>3 DEF _on_hello, Queue
    <3>6. toBoard' = <<Push(i)>> BY <3>1, <3>5
    <3>7. Len(toBoard') = 1 /\ toBoard'[1] = Push(i) BY <3>6, OneFrame
    <3>8. Push(i).cmd = "PUSH" /\ Push(i).image = i BY DEF Push
    <3>9. \A k \in 1 .. Len(toBoard') : toBoard'[k].cmd = "PUSH" /\ toBoard'[k].image = i
      BY <3>7, <3>8
    <3>10. ~(PushRefused(i, i.size))' BY <1>1, <3>4 DEF PushRefused
    <3>11. PushInv'
      BY <1>1, <2>2, <3>1, <3>5, <3>7, <3>9, <3>10 DEF PushInv, PushRefused
    <3>12. DataInv' BY <3>9 DEF DataInv
    <3>13. OnlyHellos' BY <2>2, <3>1
    <3>14. PhasesInv' BY <3>5, <3>9, <3>13 DEF PhasesInv, OnlyHellos
    <3>15. HelloInv' BY <1>2, <2>1
    <3>. QED BY <3>11, <3>12, <3>14, <3>15 DEF WireInv
  <2>6. CASE ~asks
    <3>1. UNCHANGED <<toBoard, phase>> BY <1>4, <2>6 DEF _on_hello
    <3>2. PushInv' BY <1>1, <2>2, <3>1 DEF WireInv, PushInv, PushRefused
    <3>3. DataInv' BY <1>1, <2>2, <3>1 DEF WireInv, DataInv
    <3>4. PhasesInv' BY <1>1, <2>2, <3>1 DEF WireInv, PhasesInv
    <3>5. HelloInv' BY <1>2, <2>1
    <3>. QED BY <3>2, <3>3, <3>4, <3>5 DEF WireInv
  <2>. QED BY <2>5, <2>6
<1>5. CASE _on_confirm
  <2>1. Arrived("CONFIRM") /\ Taken /\ UNCHANGED toBoard
        /\ phase' = IF phase = "WAIT_CONFIRM" THEN "WAIT_READY" ELSE phase
    BY <1>5 DEF _on_confirm
  <2>2. link = "up" /\ link' = link /\ ~OnlyHellos
        /\ \A k \in 1 .. Len(toPc') : \E j \in 1 .. Len(toPc) : toPc'[k] = toPc[j]
    BY <1>0, <2>1, PcReads
  <2>3. \A k \in 1 .. Len(toBoard) : toBoard[k].cmd # "PUSH" BY <1>3, <2>1
  <2>4. PushInv' BY <2>1, <2>3 DEF PushInv
  <2>5. DataInv' BY <1>1, <2>1, <2>2 DEF WireInv, DataInv
  <2>6. phase = "WAIT_CONFIRM" => toBoard = <<>>
    <3>1. SUFFICES ASSUME phase = "WAIT_CONFIRM", toBoard # <<>> PROVE FALSE
      OBVIOUS
    <3>2. 1 \in 1 .. Len(toBoard) BY <1>0, <3>1, TailParts
    <3>. QED BY <2>2, <2>3, <3>1, <3>2 DEF WireInv, PhasesInv
  <2>7. PhasesInv' BY <1>1, <2>1, <2>2, <2>6 DEF WireInv, PhasesInv
  <2>8. HelloInv' BY <1>2, <2>1
  <2>. QED BY <2>4, <2>5, <2>7, <2>8 DEF WireInv
<1>6. CASE _on_ack_downloading
  <2>1. Arrived("READY") /\ Taken /\ UNCHANGED toBoard
        /\ IF phase # "WAIT_READY" THEN phase' = phase ELSE phase' \in {"DONE", "PUSHING"}
    BY <1>6 DEF _on_ack_downloading
  <2>2. link = "up" /\ link' = link /\ ~OnlyHellos /\ 1 \in 1 .. Len(toPc) /\ toPc[1].cmd = "READY"
        /\ \A k \in 1 .. Len(toPc') : \E j \in 1 .. Len(toPc) : toPc'[k] = toPc[j]
    BY <1>0, <2>1, PcReads
  <2>3. \A k \in 1 .. Len(toBoard) : toBoard[k].cmd # "PUSH" BY <1>3, <2>1
  <2>4. phase = "WAIT_READY" => toBoard = <<>> /\ Taking
    BY <2>2 DEF WireInv, PhasesInv, Taking
  <2>5. PushInv' BY <2>1, <2>3 DEF PushInv
  <2>6. DataInv'
    <3>1. CASE phase = "WAIT_READY"
      <4>1. Len(toBoard') = 0 BY <2>1, <2>4, <3>1
      <4>. QED BY <4>1 DEF DataInv
    <3>2. CASE phase # "WAIT_READY"
      BY <1>1, <2>1, <2>2, <3>2 DEF WireInv, DataInv
    <3>. QED BY <3>1, <3>2
  <2>7. PhasesInv' BY <1>1, <2>1, <2>2, <2>4 DEF WireInv, PhasesInv
  <2>8. HelloInv' BY <1>2, <2>1
  <2>. QED BY <2>5, <2>6, <2>7, <2>8 DEF WireInv
<1>7. CASE SessionEnds
  <2>1. Taken /\ UNCHANGED toBoard /\ phase' = "DONE" BY <1>7 DEF SessionEnds
  <2>2. PICK c \in {"SUCCESS", "ERROR", "REJECT"} : Arrived(c) BY <1>7 DEF SessionEnds
  <2>3. \A k \in 1 .. Len(toBoard) : toBoard[k].cmd # "PUSH" BY <1>3, <2>1, <2>2
  <2>4. PushInv' BY <2>1, <2>3 DEF PushInv
  <2>5. DataInv' BY <1>1, <2>1 DEF WireInv, DataInv
  <2>6. PhasesInv' BY <2>1 DEF PhasesInv
  <2>7. HelloInv' BY <1>2, <2>1, <2>2
  <2>. QED BY <2>4, <2>5, <2>6, <2>7 DEF WireInv
<1>8. CASE _enqueue_next
  <2>1. link = "up" /\ phase = "PUSHING" /\ UNCHANGED <<link, toPc>>
    BY <1>8 DEF _enqueue_next
  <2>2. Taking /\ \A k \in 1 .. Len(toBoard) : toBoard[k].cmd \notin {"PUSH", "END"}
    BY <2>1 DEF WireInv, PhasesInv, PushInv, DataInv
  <2>3. PICK f \in Frames : /\ toBoard' = Append(toBoard, f)
                            /\ \/ f.cmd = "DATA" /\ phase' = "PUSHING"
                               \/ f.cmd = "END" /\ phase' = "WAIT_FINAL"
    <3>1. PICK f : /\ toBoard' = Append(toBoard, f)
                   /\ \/ f.cmd = "DATA" /\ phase' = "PUSHING"
                      \/ f.cmd = "END" /\ phase' = "WAIT_FINAL"
      BY <1>8, <2>1 DEF _enqueue_next, Queue, Data, Plain
    <3>2. toBoard' \in Seq(Frames)
      BY <1>1, ServerTypesKept DEF FullInv, SessionInv, WireTypes
    <3>3. f \in Frames
      <4>1. Len(toBoard) \in Nat /\ Len(toBoard) + 1 \in 1 .. Len(toBoard')
        BY <1>0, <3>1
      <4>2. toBoard'[Len(toBoard) + 1] \in Frames BY <3>2, <4>1
      <4>3. toBoard'[Len(toBoard) + 1] = f BY <1>0, <3>1
      <4>. QED BY <4>2, <4>3
    <3>. QED BY <3>1, <3>3
  <2>4. /\ Len(toBoard) \in Nat /\ Len(toBoard') = Len(toBoard) + 1
        /\ \A k \in 1 .. Len(toBoard) : toBoard'[k] = toBoard[k]
        /\ \A k \in 1 .. Len(toBoard') : k \in 1 .. Len(toBoard) \/ k = Len(toBoard) + 1
        /\ toBoard'[Len(toBoard) + 1] = f
    BY <1>0, <2>3, AppendParts
  <2>5. \A k \in 1 .. Len(toBoard') : /\ toBoard'[k].cmd # "PUSH"
                                      /\ toBoard'[k].cmd = "END" => k = Len(toBoard')
                                                                    /\ phase' = "WAIT_FINAL"
    BY <2>2, <2>3, <2>4
  <2>6. PushInv' BY <2>5 DEF PushInv
  <2>7. DataInv' BY <1>1, <2>2, <2>5 DEF DataInv
  <2>8. PhasesInv' BY <1>1, <2>2, <2>3 DEF PhasesInv
  <2>9. HelloInv' BY <1>1, <2>1 DEF WireInv, HelloInv
  <2>. QED BY <2>6, <2>7, <2>8, <2>9 DEF WireInv
<1>9. CASE Close
  <2>1. /\ link = "up" /\ phase = "DONE" /\ link' = "closed" /\ toPc' = <<>>
        /\ toBoard' \in {toBoard, <<>>}
    BY <1>9 DEF Close
  <2>2. step # "connect" BY <2>1 DEF WireInv, HelloInv
  <2>3. CASE toBoard' = <<>> BY <1>1, <2>1, <2>2, <2>3, EmptyWire
  <2>4. CASE toBoard' = toBoard
    <3>1. PushInv' BY <2>1, <2>4 DEF WireInv, PushInv
    <3>2. DataInv' BY <1>1, <2>1, <2>4 DEF WireInv, DataInv
    <3>3. PhasesInv' BY <2>1 DEF PhasesInv
    <3>4. Len(toPc') = 0 BY <2>1
    <3>5. HelloInv' BY <1>1, <2>1, <2>2, <3>4 DEF HelloInv
    <3>. QED BY <3>1, <3>2, <3>3, <3>5 DEF WireInv
  <2>. QED BY <2>1, <2>3, <2>4
<1>. QED BY <1>1, <1>4, <1>5, <1>6, <1>7, <1>8, <1>9 DEF ServerStep

LEMMA WireStarts == SessionInit => WireInv
<1>. SUFFICES ASSUME SessionInit PROVE WireInv
  OBVIOUS
<1>1. link = "down" /\ toBoard = <<>> /\ toPc = <<>> BY DEF SessionInit, ServerInit
<1>2. Len(toBoard) = 0 /\ Len(toPc) = 0 BY <1>1
<1>. QED BY <1>1, <1>2 DEF WireInv, PushInv, DataInv, PhasesInv, HelloInv

LEMMA WireStep == FullInv /\ WireInv /\ [SessionNext]_sessionAll => WireInv'
BY ClientWire, ConnectionWire, ServerWire DEF SessionNext, ClientStep

(***************************************************************************)
(* The client never has to refuse a frame for its order: a push under way  *)
(* finds a client that waits for one and a manager that accepts it, and    *)
(* the frames of a download one that downloads or has given the session up *)
(* (User/ota/ota_client.c, PC_Server/ota_gui.py), however connections      *)
(* break, the user loads other files, and the board restarts.              *)
(***************************************************************************)
THEOREM FramesAreExpected == SessionSpec => []FramesMeetTheirState
<1>1. FullInv /\ WireInv => FramesMeetTheirState
  <2>. SUFFICES ASSUME FullInv, WireInv, NEW k \in DOMAIN toBoard
       PROVE  /\ toBoard[k].cmd = "PUSH"
                   => step = "session" /\ ~PushRefused(toBoard[k].image, toBoard[k].image.size)
              /\ toBoard[k].cmd \in {"DATA", "END"} => sess = "DOWNLOADING" \/ step = "leave"
    BY DEF FramesMeetTheirState
  <2>1. k \in 1 .. Len(toBoard) BY DEF FullInv, SessionInv, SessionTypeOK
  <2>. QED BY <2>1 DEF WireInv, PushInv, DataInv, Taking
<1>. QED BY <1>1, SessionStarts, SessionStep, WireStarts, WireStep, PTL DEF SessionSpec
-------------------------------------------------------------------------------
(* Where each block under way belongs. *)

\* The offset the k-th frame under way takes up, b being the next the PC sends.
At(q, b, k) == IF k \in 1 .. Len(q) /\ q[k].cmd = "DATA" THEN q[k].offset ELSE b

\* The blocks of q follow one another from offset a to offset b of the image i.
Chain(q, i, a, b) ==
  /\ At(q, b, 1) = a
  /\ \A k \in 1 .. Len(q) : q[k].cmd = "DATA" =>
       /\ q[k].image = i /\ At(q, b, k + 1) = q[k].offset + q[k].len
       /\ q[k].offset + q[k].len <= i.size

LEMMA DataFields ==
  ASSUME NEW f \in Frames, f.cmd = "DATA"
  PROVE  f.image \in Images /\ f.offset \in Nat /\ f.len \in Nat /\ f.len > 0
BY BoundsAssumption DEF Frames

LEMMA ChainStarts == ASSUME NEW i, NEW a PROVE Chain(<<>>, i, a, a)
<1>1. Len(<<>>) = 0 OBVIOUS
<1>. QED BY <1>1 DEF Chain, At

\* Taking the first block leaves the rest.
LEMMA ChainTail ==
  ASSUME NEW q \in Seq(Frames), q # <<>>, q[1].cmd = "DATA",
         NEW i, NEW a, NEW b, Chain(q, i, a, b)
  PROVE  /\ q[1].image = i /\ q[1].offset = a /\ a + q[1].len <= i.size
         /\ Chain(Tail(q), i, a + q[1].len, b)
<1>1. /\ Len(q) \in Nat /\ Len(q) > 0 /\ Tail(q) \in Seq(Frames) /\ Len(Tail(q)) = Len(q) - 1
      /\ \A k \in 1 .. Len(Tail(q)) : k + 1 \in 1 .. Len(q) /\ Tail(q)[k] = q[k + 1]
  BY TailParts
<1>2. PICK t \in Seq(Frames) : t = Tail(q) BY <1>1
<1>3. Len(t) = Len(q) - 1 /\ \A k \in 1 .. Len(t) : k + 1 \in 1 .. Len(q) /\ t[k] = q[k + 1]
  BY <1>1, <1>2
<1>4. 1 \in 1 .. Len(q) BY <1>1
<1>5. q[1].image = i /\ q[1].offset = a /\ a + q[1].len <= i.size /\ At(q, b, 1 + 1) = a + q[1].len
  BY <1>4 DEF Chain, At
<1>6. ASSUME NEW k \in Nat \ {0} PROVE At(t, b, k) = At(q, b, k + 1)
  <2>1. k \in 1 .. Len(t) <=> k + 1 \in 1 .. Len(q) BY <1>1, <1>3
  <2>. QED BY <1>3, <2>1 DEF At
<1>7. At(t, b, 1) = a + q[1].len BY <1>5, <1>6
<1>8. ASSUME NEW k \in 1 .. Len(t), t[k].cmd = "DATA"
      PROVE  /\ t[k].image = i /\ At(t, b, k + 1) = t[k].offset + t[k].len
             /\ t[k].offset + t[k].len <= i.size
  <2>1. k + 1 \in 1 .. Len(q) /\ t[k] = q[k + 1] /\ k + 1 \in Nat \ {0} BY <1>3
  <2>2. At(t, b, k + 1) = At(q, b, (k + 1) + 1) BY <1>6, <2>1
  <2>. QED BY <1>8, <2>1, <2>2 DEF Chain
<1>9. Chain(t, i, a + q[1].len, b) BY <1>7, <1>8 DEF Chain
<1>. QED BY <1>2, <1>5, <1>9

\* The PC goes on with the next block, or with END.
LEMMA ChainGrows ==
  ASSUME NEW q \in Seq(Frames), NEW f \in Frames, NEW i, NEW a, NEW b, NEW c,
         Chain(q, i, a, b), \A k \in 1 .. Len(q) : q[k].cmd = "DATA",
         \/ f.cmd # "DATA" /\ c = b
         \/ f.cmd = "DATA" /\ f.image = i /\ f.offset = b /\ c = f.offset + f.len /\ c <= i.size
  PROVE  Chain(Append(q, f), i, a, c)
<1>1. /\ Append(q, f) \in Seq(Frames) /\ Len(q) \in Nat /\ Len(Append(q, f)) = Len(q) + 1
      /\ \A k \in 1 .. Len(q) : Append(q, f)[k] = q[k]
      /\ \A k \in 1 .. Len(Append(q, f)) : k \in 1 .. Len(q) \/ k = Len(q) + 1
      /\ Append(q, f)[Len(q) + 1] = f
  BY AppendParts
<1>2. PICK t \in Seq(Frames) : t = Append(q, f) BY <1>1
<1>3. /\ Len(t) = Len(q) + 1 /\ t[Len(q) + 1] = f /\ \A k \in 1 .. Len(q) : t[k] = q[k]
      /\ \A k \in 1 .. Len(t) : k \in 1 .. Len(q) \/ k = Len(q) + 1
  BY <1>1, <1>2
<1>4. ASSUME NEW k \in 1 .. (Len(q) + 1) PROVE At(t, c, k) = At(q, b, k)
  <2>1. CASE k \in 1 .. Len(q)
    <3>1. k \in 1 .. Len(t) /\ t[k] = q[k] BY <1>1, <1>3, <2>1
    <3>. QED BY <2>1, <3>1 DEF At
  <2>2. CASE k \notin 1 .. Len(q)
    <3>1. k = Len(q) + 1 /\ k \in 1 .. Len(t) /\ t[k] = f BY <1>1, <1>3, <2>2
    <3>2. At(q, b, k) = b BY <2>2 DEF At
    <3>3. At(t, c, k) = IF f.cmd = "DATA" THEN f.offset ELSE c BY <3>1 DEF At
    <3>. QED BY <3>2, <3>3
  <2>. QED BY <2>1, <2>2
<1>5. At(t, c, 1) = a
  <2>1. 1 \in 1 .. (Len(q) + 1) BY <1>1
  <2>. QED BY <1>4, <2>1 DEF Chain
<1>6. ASSUME NEW k \in 1 .. Len(t), t[k].cmd = "DATA"
      PROVE  /\ t[k].image = i /\ At(t, c, k + 1) = t[k].offset + t[k].len
             /\ t[k].offset + t[k].len <= i.size
  <2>1. CASE k \in 1 .. Len(q)
    <3>1. t[k] = q[k] /\ k + 1 \in 1 .. (Len(q) + 1) BY <1>1, <1>3, <2>1
    <3>2. At(t, c, k + 1) = At(q, b, k + 1) BY <1>4, <3>1
    <3>. QED BY <1>6, <2>1, <3>1, <3>2 DEF Chain
  <2>2. CASE k = Len(q) + 1
    <3>1. t[k] = f BY <1>3, <2>2
    <3>2. k + 1 \notin 1 .. Len(t) BY <1>1, <1>3, <2>2
    <3>3. At(t, c, k + 1) = c BY <3>2 DEF At
    <3>. QED BY <1>6, <3>1, <3>3
  <2>. QED BY <1>3, <2>1, <2>2
<1>7. Chain(t, i, a, c) BY <1>5, <1>6 DEF Chain
<1>. QED BY <1>2, <1>7

\* A set of numbers has a smallest one.
LEMMA SmallestThere ==
  ASSUME NEW T, T \subseteq Nat, T # {}
  PROVE  \E x \in T : \A y \in T : x <= y
<1>1. PICK x \in T : \A y \in T : ~(<<y, x>> \in OpToRel(<, Nat))
  BY NatLessThanWellFounded, WFMin, Zenon
<1>2. \A y \in T : ~(y < x) BY <1>1 DEF OpToRel
<1>. QED BY <1>2

\* Induction up to a number: what holds of 0 and is handed on holds of all.
LEMMA UpTo ==
  ASSUME NEW n \in Nat, NEW Good, 0 \in Good, \A k \in 1 .. n : k - 1 \in Good => k \in Good
  PROVE  \A k \in 0 .. n : k \in Good
<1>. DEFINE Rest == (0 .. n) \ Good
<1>1. SUFFICES ASSUME Rest # {} PROVE FALSE
  OBVIOUS
<1>2. Rest \subseteq Nat OBVIOUS
<1>3. PICK x \in Rest : \A y \in Rest : x <= y
  <2>. HIDE DEF Rest
  <2>. QED BY <1>1, <1>2, SmallestThere
<1>4. x \in 1 .. n /\ x \notin Good BY <1>3
<1>5. x - 1 \in 0 .. n /\ ~(x <= x - 1) BY <1>4
<1>6. x - 1 \in Good BY <1>3, <1>5
<1>. QED BY <1>4, <1>6

\* One turn of the sum over the first n frames of q.
Turn(q, f, n) ==
  IF n = 0 THEN 0 ELSE f[n - 1] + IF q[n].cmd = "DATA" THEN q[n].len ELSE 0

\* What is under way is what lies between the two ends of the chain.
LEMMA ChainSum ==
  ASSUME toBoard \in Seq(Frames), NEW i, NEW a \in Nat, NEW b \in Nat, Chain(toBoard, i, a, b),
         \A k \in 1 .. Len(toBoard) : toBoard[k].cmd # "DATA" => k = Len(toBoard)
  PROVE  a + BlocksUnderWay = b
<1>. DEFINE L == Len(toBoard)
            g == [n \in 0 .. L |-> At(toBoard, b, n + 1) - a]
            upto == CHOOSE f : f = [n \in 0 .. L |-> Turn(toBoard, f, n)]
<1>1. L \in Nat /\ \A k \in 1 .. L : toBoard[k] \in Frames OBVIOUS
<1>2. BlocksUnderWay = upto[L] BY DEF BlocksUnderWay, Turn
<1>3. ASSUME NEW k \in 1 .. L
      PROVE  /\ At(toBoard, b, k) \in Nat
             /\ At(toBoard, b, k + 1) =
                  At(toBoard, b, k) + IF toBoard[k].cmd = "DATA" THEN toBoard[k].len ELSE 0
  <2>1. CASE toBoard[k].cmd = "DATA"
    <3>1. toBoard[k].offset \in Nat BY <1>1, <2>1, DataFields
    <3>2. At(toBoard, b, k) = toBoard[k].offset BY <2>1 DEF At
    <3>3. At(toBoard, b, k + 1) = toBoard[k].offset + toBoard[k].len BY <2>1 DEF Chain
    <3>. QED BY <2>1, <3>1, <3>2, <3>3
  <2>2. CASE toBoard[k].cmd # "DATA"
    <3>1. k = L BY <2>2
    <3>2. k + 1 \notin 1 .. L BY <1>1, <3>1
    <3>3. At(toBoard, b, k + 1) = b BY <3>2 DEF At
    <3>4. At(toBoard, b, k) = b BY <2>2 DEF At
    <3>. QED BY <2>2, <3>3, <3>4
  <2>. QED BY <2>1, <2>2
<1>4. At(toBoard, b, 1) = a BY DEF Chain
<1>5. ASSUME NEW n \in 0 .. L PROVE g[n] = Turn(toBoard, g, n)
  <2>0. g[n] = At(toBoard, b, n + 1) - a OBVIOUS
  <2>1. CASE n = 0
    <3>1. g[n] = At(toBoard, b, 1) - a BY <2>0, <2>1
    <3>. QED BY <1>4, <2>1, <3>1 DEF Turn
  <2>2. CASE n # 0
    <3>1. n \in 1 .. L /\ n - 1 \in 0 .. L /\ (n - 1) + 1 = n BY <1>1, <2>2
    <3>2. g[n - 1] = At(toBoard, b, n) - a BY <3>1
    <3>. HIDE DEF g, L
    <3>3. toBoard[n].cmd = "DATA" => toBoard[n].len \in Nat BY <1>1, <3>1, DataFields
    <3>4. /\ At(toBoard, b, n) \in Nat
          /\ At(toBoard, b, n + 1) =
               At(toBoard, b, n) + IF toBoard[n].cmd = "DATA" THEN toBoard[n].len ELSE 0
      BY <1>3, <3>1
    <3>5. Turn(toBoard, g, n) = g[n - 1] + IF toBoard[n].cmd = "DATA" THEN toBoard[n].len ELSE 0
      BY <2>2 DEF Turn
    <3>. QED BY <2>0, <3>2, <3>3, <3>4, <3>5
  <2>. QED BY <2>1, <2>2
<1>6. g = [n \in 0 .. L |-> Turn(toBoard, g, n)] BY <1>5
<1>7. upto = [n \in 0 .. L |-> Turn(toBoard, upto, n)] BY <1>6
<1>. HIDE DEF upto
<1>. DEFINE Good == {n \in 0 .. L : upto[n] = g[n]}
<1>8. 0 \in Good
  <2>1. 0 \in 0 .. L BY <1>1
  <2>2. upto[0] = 0 /\ g[0] = 0 BY <1>5, <1>7, <2>1 DEF Turn
  <2>. QED BY <2>1, <2>2
<1>9. ASSUME NEW n \in 1 .. L, n - 1 \in Good PROVE n \in Good
  <2>1. n \in 0 .. L /\ upto[n - 1] = g[n - 1] BY <1>1, <1>9
  <2>2. upto[n] = Turn(toBoard, upto, n) BY <1>7, <2>1
  <2>3. g[n] = Turn(toBoard, g, n) BY <1>5, <2>1
  <2>. HIDE DEF g
  <2>. QED BY <2>1, <2>2, <2>3 DEF Turn
<1>10. \A n \in 0 .. L : n \in Good
  <2>. HIDE DEF Good
  <2>. QED BY <1>1, <1>8, <1>9, UpTo
<1>11. L \in 0 .. L /\ L + 1 \notin 1 .. L BY <1>1
<1>12. upto[L] = At(toBoard, b, L + 1) - a BY <1>10, <1>11
<1>13. At(toBoard, b, L + 1) = b BY <1>11 DEF At
<1>. QED BY <1>2, <1>12, <1>13
-------------------------------------------------------------------------------
(* A download, from the PC's next offset to the board's last block. *)

\* The PC sends, or has sent, the blocks of an image.
Sending == link = "up" /\ phase \in {"PUSHING", "WAIT_FINAL"}
Pushed  == link = "up" /\ phase \in {"WAIT_CONFIRM", "WAIT_READY"}

\* The blocks go to the slot that was pushed for, which has not changed.
SourceInv ==
  /\ Pushed => push_slot = target_slot
  /\ Sending => fw \in Images /\ fw.slot = target_slot /\ next_off <= fw.size

\* A download starts from nothing, and with nothing under way.
StartInv ==
  /\ step \in {"erasing", "ready"} => downloaded_size = 0 /\ download_crc = 0
  /\ Pushed => step # "writing"
  /\ Pushed /\ step = "session" /\ sess = "DOWNLOADING" => downloaded_size = 0 /\ download_crc = 0

\* The client takes blocks on the connection the PC sends them on.
Loading == Sending /\ sess = "DOWNLOADING" /\ step \in {"session", "writing"}

\* What the block being written makes of the download.
Done    == IF step = "writing" THEN op.end - download_addr ELSE downloaded_size
Summed  == IF step = "writing" THEN op.addr - download_addr ELSE downloaded_size

BlocksInv ==
  Loading =>
    /\ Chain(toBoard, fw, Done, next_off)
    /\ fw = remote => download_crc = Summed
    /\ step = "writing" => op.data = fw /\ Done > downloaded_size

DownInv == SourceInv /\ StartInv /\ BlocksInv

\* A step that touches neither the PC's session nor the slot it pushes for.
LEMMA SourceKept ==
  ASSUME SourceInv,
         link' # "up" \/ UNCHANGED <<link, phase, push_slot, fw, next_off, current_slot>>
  PROVE  SourceInv'
BY DEF SourceInv, Pushed, Sending, target_slot

\* A step that leaves the client where it is, on the manager it has.
LEMMA StartKept ==
  ASSUME StartInv, UNCHANGED <<step, sess, downloaded_size, download_crc>>, Pushed' => Pushed
  PROVE  StartInv'
BY DEF StartInv

\* A step that leaves the client where it is, and nothing new for it.
LEMMA BlocksKept ==
  ASSUME BlocksInv, Loading' => Loading,
         UNCHANGED <<step, toBoard, fw, next_off, remote, op, downloaded_size, download_crc,
                     current_slot>>
  PROVE  BlocksInv'
<1>1. download_addr' = download_addr BY DEF download_addr, target_slot
<1>2. Done' = Done /\ Summed' = Summed BY <1>1 DEF Done, Summed
<1>. QED BY <1>2 DEF BlocksInv, Chain, At

\* No block on the wire, none expected: nothing to keep.
LEMMA NotLoading == ASSUME ~Loading' PROVE BlocksInv'
BY DEF BlocksInv

LEMMA DownStarts == SessionInit => DownInv
BY DEF SessionInit, ServerInit, DownInv, SourceInv, StartInv, BlocksInv, Loading, Sending, Pushed

\* The connection is made, lost or given up; the board starts over or boots.
LEMMA ConnectionDown ==
  ASSUME FullInv, WireInv, DownInv,
         \/ ota_net_connect \/ ota_net_disconnect \/ Heartbeat \/ Disconnected
         \/ Boots \/ Reboot \/ LosePower \/ Loads \/ Breaks \/ UNCHANGED sessionAll
  PROVE  DownInv'
<1>. USE DEF DownInv
<1>0. SessionTypeOK /\ ClientAgrees /\ OpAgrees /\ BaseInv
  BY DEF FullInv, SessionInv, AgreeInv
<1>1. ASSUME link' # "up", step' \notin {"erasing", "ready"} PROVE DownInv'
  BY <1>1 DEF SourceInv, StartInv, BlocksInv, Loading, Sending, Pushed
<1>2. CASE ota_net_connect
  BY <1>2 DEF ota_net_connect, NewSession, SourceInv, StartInv, BlocksInv, Loading, Sending, Pushed
<1>3. CASE ota_net_disconnect \/ Reboot \/ LosePower
  BY <1>1, <1>3 DEF ota_net_disconnect, Reboot, LosePower, ClientRestarts
<1>4. CASE Disconnected
  BY <1>1, <1>4 DEF Disconnected, pcVars
<1>5. CASE Boots
  <2>1. UNCHANGED <<link, step>> BY <1>5 DEF Boots, pcVars, clientVars
  <2>2. step = "connect" BY <1>0, <1>5, BootloaderIsOver DEF Boots, OpAgrees
  <2>3. link # "up" BY <2>2 DEF WireInv, HelloInv
  <2>. QED BY <1>1, <2>1, <2>2, <2>3
<1>6. CASE Breaks
  <2>1. link' # "up" /\ UNCHANGED <<clientVars, vars>> BY <1>6 DEF Breaks, LinkBreaks
  <2>2. StartInv'
    BY <2>1 DEF StartInv, clientVars, vars, appVars, managerVars, Pushed
  <2>. QED BY <2>1, <2>2, SourceKept, NotLoading DEF Loading, Sending
<1>7. CASE Heartbeat \/ Loads \/ UNCHANGED sessionAll
  <2>1. /\ UNCHANGED <<step, sess, toBoard, fw, next_off, remote, op, downloaded_size, download_crc>>
        /\ UNCHANGED <<link, phase, push_slot, current_slot>>
    BY <1>7 DEF Heartbeat, LinkKept, Loads, load_firmware, sessionAll, pcVars, sessionVars,
                clientVars, vars, flashVars, appVars, managerVars
  <2>2. (Loading' => Loading) /\ (Pushed' => Pushed) BY <2>1 DEF Loading, Sending, Pushed
  <2>. QED BY <2>1, <2>2, SourceKept, StartKept, BlocksKept
<1>. QED BY <1>2, <1>3, <1>4, <1>5, <1>6, <1>7

\* The PC sends only while the client loads, or is past the END.
LEMMA LoadingWhen ==
  ASSUME WireInv, Sending, step \in {"session", "writing"} PROVE Loading
BY DEF WireInv, PhasesInv, Sending, Loading, Taking, AfterEnd

\* The PC tool's steps.
LEMMA ServerDown ==
  ASSUME FullInv, WireInv, DownInv, Server
  PROVE  DownInv'
<1>. USE DEF DownInv
<1>0. /\ SessionTypeOK /\ PhaseInv /\ ClientAgrees /\ OpAgrees /\ TypeOK
      /\ toBoard \in Seq(Frames) /\ next_off \in Nat
      /\ target_slot \in Slots /\ push_slot \in Slots \cup {0}
  <2>1. next_off \in Nat BY BoundsAssumption DEF FullInv, SessionInv, SessionTypeOK
  <2>2. target_slot \in Slots
    BY SlotFacts DEF FullInv, SessionInv, SessionTypeOK, TypeOK, target_slot
  <2>. QED BY <2>1, <2>2 DEF FullInv, SessionInv, AgreeInv, SessionTypeOK
<1>1. /\ UNCHANGED <<step, sess, remote, op, downloaded_size, download_crc, current_slot>>
      /\ target_slot' = target_slot /\ ServerStep
  BY DEF Server, vars, flashVars, appVars, managerVars, clientVars, target_slot
<1>2. CASE _on_hello
  <2>1. /\ UNCHANGED <<fw, next_off, link>> /\ link = "up"
        /\ \/ UNCHANGED <<toBoard, phase, push_slot>>
           \/ phase = "WAIT_HELLO" /\ phase' = "WAIT_CONFIRM" /\ push_slot' = Head(toPc).slot
    BY <1>2 DEF _on_hello, Taken, Arrived
  <2>2. CASE UNCHANGED <<toBoard, phase, push_slot>>
    <3>1. (Loading' => Loading) /\ (Pushed' => Pushed) BY <1>1, <2>1, <2>2 DEF Loading, Sending, Pushed
    <3>. QED BY <1>1, <2>1, <2>2, <3>1, SourceKept, StartKept, BlocksKept
  <2>3. CASE phase = "WAIT_HELLO" /\ phase' = "WAIT_CONFIRM" /\ push_slot' = Head(toPc).slot
    <3>1. Head(toPc) = toPc[1] /\ 1 \in 1 .. Len(toPc) /\ toPc[1].cmd = "HELLO"
      BY <1>0, <1>2, TailParts DEF _on_hello, Arrived, SessionTypeOK
    <3>2. push_slot' = target_slot BY <2>3, <3>1 DEF WireInv, HelloInv
    <3>3. step = "session" /\ sess = "IDLE" BY <2>1, <2>3 DEF WireInv, PhasesInv
    <3>4. SourceInv' BY <1>1, <2>3, <3>2 DEF SourceInv, Sending
    <3>5. StartInv' BY <1>1, <3>3 DEF StartInv
    <3>. QED BY <2>3, <3>4, <3>5, NotLoading DEF Loading, Sending
  <2>. QED BY <2>1, <2>2, <2>3
<1>3. CASE _on_confirm \/ SessionEnds
  <2>1. /\ UNCHANGED <<toBoard, push_slot, fw, next_off, link>>
        /\ \/ phase' = phase
           \/ phase = "WAIT_CONFIRM" /\ phase' = "WAIT_READY"
           \/ phase' = "DONE"
    BY <1>3 DEF _on_confirm, SessionEnds, Taken
  <2>2. (Loading' => Loading) /\ (Pushed' => Pushed) /\ (Sending' => Sending)
    BY <1>1, <2>1 DEF Loading, Sending, Pushed
  <2>3. SourceInv' BY <1>1, <2>1, <2>2 DEF SourceInv
  <2>. QED BY <1>1, <2>1, <2>2, <2>3, StartKept, BlocksKept
<1>4. CASE _on_ack_downloading
  <2>1. /\ UNCHANGED <<toBoard, push_slot, link, release>> /\ link = "up"
        /\ IF phase # "WAIT_READY" THEN UNCHANGED <<phase, fw, next_off>>
           ELSE /\ fw' = release.image[push_slot] /\ next_off' = 0
                /\ phase' = IF fw' = NoImage THEN "DONE" ELSE "PUSHING"
        /\ Arrived("READY") /\ Taken
    BY <1>4 DEF _on_ack_downloading, Taken, Arrived
  <2>2. CASE phase # "WAIT_READY"
    <3>1. (Loading' => Loading) /\ (Pushed' => Pushed) BY <1>1, <2>1, <2>2 DEF Loading, Sending, Pushed
    <3>. QED BY <1>1, <2>1, <2>2, <3>1, SourceKept, StartKept, BlocksKept
  <2>3. CASE phase = "WAIT_READY"
    <3>1. 1 \in 1 .. Len(toPc) /\ toPc[1].cmd = "READY" BY <1>0, <2>1, PcReads
    <3>2. sess = "DOWNLOADING" /\ step = "session" /\ toBoard = <<>>
      BY <2>1, <2>3, <3>1 DEF WireInv, PhasesInv
    <3>3. downloaded_size = 0 /\ download_crc = 0 /\ push_slot = target_slot
      BY <2>1, <2>3, <3>2 DEF StartInv, SourceInv, Pushed
    <3>4. CASE fw' = NoImage
      <4>1. phase' = "DONE" BY <2>1, <2>3, <3>4
      <4>. QED BY <1>1, <3>2, <4>1, NotLoading DEF SourceInv, StartInv, Loading, Sending, Pushed
    <3>5. CASE fw' # NoImage
      <4>1. phase' = "PUSHING" /\ next_off' = 0 /\ fw' = release.image[push_slot]
        BY <2>1, <2>3, <3>5
      <4>2. PICK s \in Slots : s = target_slot BY <1>0
      <4>3. release \in Releases /\ release.image[s] # NoImage /\ fw' = release.image[s]
        BY <1>0, <3>3, <3>5, <4>1, <4>2 DEF SessionTypeOK
      <4>4. fw' \in Images /\ fw'.slot = target_slot BY <4>2, <4>3, ReleasesAssumption
      <4>5. fw'.size \in Nat BY <4>2, <4>3, ReleaseImage
      <4>6. SourceInv' BY <1>1, <4>1, <4>4, <4>5 DEF SourceInv, Pushed
      <4>7. StartInv' BY <1>1, <3>2, <4>1 DEF StartInv, Pushed
      <4>8. toBoard' = <<>> /\ next_off' = 0 /\ Done' = 0 /\ Summed' = 0 /\ step' = "session"
            /\ download_crc' = 0
        BY <1>1, <2>1, <3>2, <3>3, <4>1 DEF Done, Summed
      <4>9. Chain(<<>>, fw', 0, 0) BY ChainStarts
      <4>10. Chain(toBoard, fw, Done, next_off)' BY <4>8, <4>9 DEF Chain, At
      <4>11. BlocksInv' BY <4>8, <4>10 DEF BlocksInv
      <4>. QED BY <4>6, <4>7, <4>11
    <3>. QED BY <3>4, <3>5
  <2>. QED BY <2>2, <2>3
<1>5. CASE _enqueue_next
  <2>. DEFINE take == Smaller(Chunk, fw.size - next_off)
  <2>1. /\ link = "up" /\ phase = "PUSHING" /\ UNCHANGED <<push_slot, fw, link>>
        /\ \/ /\ next_off < fw.size /\ toBoard' = Append(toBoard, Data(fw, next_off, take))
              /\ next_off' = next_off + take /\ phase' = phase
           \/ /\ toBoard' = Append(toBoard, Plain("END")) /\ phase' = "WAIT_FINAL"
              /\ next_off' = next_off
    BY <1>5 DEF _enqueue_next, Queue
  <2>2. fw \in Images /\ fw.size \in Nat /\ fw.size <= MaxSize /\ next_off <= fw.size /\ MaxSize \in Nat
        /\ fw.slot = target_slot
    BY <1>0, <2>1, ImageAssumption, SlotFacts, BoundsAssumption
       DEF PhaseInv, SourceInv, Sending
  <2>3. \A k \in 1 .. Len(toBoard) : toBoard[k].cmd = "DATA"
    <3>1. \A k \in 1 .. Len(toBoard) : toBoard[k] \in Frames BY <1>0
    <3>2. \A k \in 1 .. Len(toBoard) : toBoard[k].cmd \notin {"PUSH", "END"}
      BY <2>1 DEF WireInv, PushInv, DataInv
    <3>. QED BY <3>1, <3>2 DEF Frames
  <2>4. PICK f \in Frames :
          /\ toBoard' = Append(toBoard, f)
          /\ \/ f.cmd # "DATA" /\ next_off' = next_off
             \/ /\ f.cmd = "DATA" /\ f.image = fw /\ f.offset = next_off
                /\ next_off' = f.offset + f.len /\ next_off' <= fw.size
    <3>1. CASE next_off < fw.size /\ toBoard' = Append(toBoard, Data(fw, next_off, take))
               /\ next_off' = next_off + take
      <4>1. take \in 1 .. MaxLen /\ next_off + take <= fw.size
        BY <1>0, <2>2, <3>1, SessionAssumption, ServerAssumption, BoundsAssumption DEF Smaller
      <4>2. next_off \in 0 .. MaxSize BY <1>0, <2>2
      <4>3. Data(fw, next_off, take) \in Frames BY <2>2, <4>1, <4>2, FrameFacts
      <4>4. PICK n : n = take OBVIOUS
      <4>5. Data(fw, next_off, n).cmd = "DATA" /\ Data(fw, next_off, n).image = fw
            /\ Data(fw, next_off, n).offset = next_off /\ Data(fw, next_off, n).len = n
        BY DEF Data
      <4>. HIDE DEF take
      <4>. QED BY <3>1, <4>1, <4>3, <4>4, <4>5
    <3>2. CASE toBoard' = Append(toBoard, Plain("END")) /\ next_off' = next_off
      <4>1. Plain("END") \in Frames /\ Plain("END").cmd # "DATA" BY FrameFacts DEF Plain
      <4>. QED BY <3>2, <4>1
    <3>. QED BY <2>1, <3>1, <3>2
  <2>5. phase' \in {"PUSHING", "WAIT_FINAL"} BY <2>1
  <2>6. SourceInv'
    BY <1>1, <2>1, <2>2, <2>4, <2>5 DEF SourceInv, Pushed
  <2>7. StartInv'
    <3>1. ~Pushed' BY <2>5 DEF Pushed
    <3>. QED BY <1>1, <3>1, StartKept
  <2>8. BlocksInv'
    <3>1. SUFFICES ASSUME Loading' PROVE BlocksInv'
      BY NotLoading
    <3>2. Loading BY <1>1, <2>1, <3>1 DEF Loading, Sending
    <3>3. /\ Chain(toBoard, fw, Done, next_off)
          /\ fw = remote => download_crc = Summed
          /\ step = "writing" => op.data = fw /\ Done > downloaded_size
      BY <3>2 DEF BlocksInv
    <3>4. download_addr' = download_addr BY <1>1 DEF download_addr
    <3>5. Done' = Done /\ Summed' = Summed BY <1>1, <3>4 DEF Done, Summed
    <3>6. PICK d, c : d = Done /\ c = next_off' OBVIOUS
    <3>7. Chain(toBoard, fw, d, next_off) BY <3>3, <3>6
    <3>8. Chain(Append(toBoard, f), fw, d, c)
      BY <1>0, <2>3, <2>4, <3>6, <3>7, ChainGrows
    <3>9. fw' = fw /\ toBoard' = Append(toBoard, f) /\ Done' = d /\ next_off' = c
      BY <2>1, <2>4, <3>5, <3>6
    <3>10. Chain(toBoard', fw', Done', next_off') BY <3>8, <3>9, Zenon
    <3>11. Chain(toBoard, fw, Done, next_off)' BY <3>10 DEF Chain, At
    <3>. QED BY <1>1, <2>1, <3>3, <3>5, <3>11 DEF BlocksInv
  <2>. QED BY <2>6, <2>7, <2>8
<1>6. CASE Close
  <2>1. link' # "up" BY <1>6 DEF Close
  <2>2. StartInv' BY <1>1, <2>1 DEF StartInv, Pushed
  <2>. QED BY <2>1, <2>2, SourceKept, NotLoading DEF Loading, Sending
<1>. QED BY <1>1, <1>2, <1>3, <1>4, <1>5, <1>6 DEF ServerStep

LEMMA GivenUp ==
  ASSUME step' \notin {"erasing", "ready", "writing", "session"}
  PROVE  StartInv' /\ BlocksInv'
BY DEF StartInv, BlocksInv, Loading

LEMMA ErrorDown == ASSUME client_report_error PROVE StartInv' /\ BlocksInv'
BY GivenUp DEF client_report_error

\* A block that is accepted is the next one of the image.
LEMMA DataDown ==
  ASSUME FullInv, WireInv, DownInv, client_handle_data
  PROVE  StartInv' /\ BlocksInv'
<1>. USE DEF DownInv
<1>0. SessionTypeOK /\ PhaseInv /\ TypeOK /\ BaseInv /\ downloaded_size \in Nat
  BY DEF FullInv, SessionInv, AgreeInv, SessionTypeOK, TypeOK
<1>1. NextFrame("DATA") BY DEF client_handle_data
<1>2. /\ step = "session" /\ Len(toBoard) > 0 /\ 1 \in 1 .. Len(toBoard)
      /\ toBoard[1].cmd = "DATA" /\ toBoard \in Seq(Frames) /\ toBoard # <<>>
      /\ toBoard' = Tail(toBoard)
  BY <1>0, <1>1, FrameTaken
<1>3. UNCHANGED <<link, phase, fw, next_off>> BY <1>1 DEF NextFrame, LinkKept, sessionVars
<1>4. PICK f \in Frames : f = toBoard[1] BY <1>2
<1>5. Head(toBoard) = f BY <1>2, <1>4, TailParts
<1>6. CASE sess # "DOWNLOADING"
  <2>1. UNCHANGED <<step, sess, downloaded_size, download_crc>>
    BY <1>6 DEF client_handle_data, clientVars, vars, appVars, managerVars
  <2>. QED BY <1>3, <1>6, <2>1, StartKept, NotLoading DEF Pushed, Loading
<1>7. CASE sess = "DOWNLOADING"
  <2>1. /\ ota_write_data_block(f.offset, f.len, f.image)
        /\ IF op' = NoOp THEN client_report_error ELSE step' = "writing" /\ UNCHANGED <<toPc, sess>>
    BY <1>5, <1>7 DEF client_handle_data, Manager
  <2>2. CASE op' = NoOp BY <2>1, <2>2, ErrorDown
  <2>3. CASE op' # NoOp
    <3>1. step' = "writing" /\ sess' = sess BY <2>1, <2>3
    <3>2. ~Pushed BY <1>2 DEF WireInv, PhasesInv, Pushed
    <3>3. StartInv' BY <1>3, <3>1, <3>2 DEF StartInv, Pushed
    <3>4. SUFFICES ASSUME Loading PROVE BlocksInv'
      BY <1>2, <1>3, <1>7, <3>3, NotLoading DEF Loading, Sending
    <3>5. Chain(toBoard, fw, downloaded_size, next_off)
          /\ (fw = remote => download_crc = downloaded_size)
      BY <1>2, <3>4 DEF BlocksInv, Done, Summed
    <3>6. /\ f.image = fw /\ f.offset = downloaded_size /\ downloaded_size + f.len <= fw.size
          /\ Chain(Tail(toBoard), fw, downloaded_size + f.len, next_off)
      BY <1>2, <1>4, <3>5, ChainTail
    <3>7. f.len \in Nat /\ f.len > 0 BY <1>2, <1>4, DataFields
    <3>8. fw \in Images /\ fw.slot = target_slot /\ fw.size \in Nat /\ fw.size <= download_size
      <4>1. fw \in Images /\ fw.slot = target_slot BY <3>4 DEF SourceInv, Loading
      <4>2. fw.size \in 1 .. size_of_slot(fw.slot) /\ fw.slot \in Slots BY <4>1, ImageAssumption
      <4>3. download_size \in Nat BY <1>0, TargetFacts
      <4>. QED BY <4>1, <4>2, <4>3 DEF download_size
    <3>9. download_addr \in Nat /\ download_size \in Nat /\ download_addr + download_size < WordMod
      BY <1>0, TargetFacts
    <3>10. PICK addr : addr = uint32_add(download_addr, f.offset) OBVIOUS
    <3>11. addr = download_addr + downloaded_size
           /\ uint32_add(addr, f.len) = download_addr + downloaded_size + f.len
      <4>1. WordMod \in Nat BY LayoutAssumption
      <4>2. /\ downloaded_size + f.len <= download_size
            /\ download_addr + downloaded_size < WordMod
            /\ download_addr + downloaded_size + f.len < WordMod
        BY <1>0, <3>6, <3>7, <3>8, <3>9, <4>1
      <4>3. addr = download_addr + downloaded_size
        BY <3>6, <3>10, <4>2 DEF uint32_add
      <4>. QED BY <4>2, <4>3 DEF uint32_add
    <3>12. op' = Op("program", addr, uint32_add(addr, f.len), fw) /\ UNCHANGED managerVars
           /\ UNCHANGED current_slot
      <4>1. op = NoOp BY <2>1 DEF ota_write_data_block, Ready
      <4>. QED BY <2>1, <2>3, <3>6, <3>10, <4>1 DEF ota_write_data_block
    <3>13. download_addr' = download_addr BY <3>12 DEF download_addr, target_slot
    <3>14. op'.addr = download_addr + downloaded_size /\ op'.data = fw
           /\ op'.end = download_addr + downloaded_size + f.len
      BY <3>11, <3>12 DEF Op
    <3>15. Done' = downloaded_size + f.len /\ Summed' = downloaded_size
      BY <1>0, <3>1, <3>7, <3>9, <3>13, <3>14 DEF Done, Summed
    <3>16. PICK d : d = downloaded_size + f.len OBVIOUS
    <3>17. Chain(Tail(toBoard), fw, d, next_off) BY <3>6, <3>16
    <3>18. Done' = d /\ fw' = fw /\ next_off' = next_off BY <1>3, <3>15, <3>16
    <3>19. Chain(toBoard', fw', Done', next_off') BY <1>2, <3>17, <3>18, Zenon
    <3>20. Chain(toBoard, fw, Done, next_off)' BY <3>19 DEF Chain, At
    <3>21. UNCHANGED <<remote, download_crc, downloaded_size>> BY <3>12 DEF managerVars
    <3>22. Done' > downloaded_size' BY <1>0, <3>7, <3>15, <3>21
    <3>. QED BY <1>3, <3>5, <3>14, <3>15, <3>20, <3>21, <3>22 DEF BlocksInv
  <2>. QED BY <2>2, <2>3
<1>. QED BY <1>6, <1>7

\* The flash at work on the block that was accepted.
LEMMA ProgramDown ==
  ASSUME FullInv, WireInv, DownInv, FlashWorks, step = "writing", ProgramCell
  PROVE  StartInv' /\ BlocksInv'
<1>. USE DEF DownInv
<1>0. /\ SessionTypeOK /\ TypeOK /\ BaseInv /\ OpInv /\ ClientAgrees
      /\ downloaded_size \in Nat /\ op.addr \in Nat /\ op.end \in Nat
      /\ op \in [kind : OpKinds, addr : Nat, end : Nat, data : CellVals]
  BY DEF FullInv, SessionInv, AgreeInv, SessionTypeOK, TypeOK, BaseInv
<1>1. /\ UNCHANGED <<link, phase, fw, next_off, toBoard>>
      /\ IF op' = NoOp THEN AfterOperation ELSE UNCHANGED <<clientVars, toPc>>
  BY DEF FlashWorks, LinkKept, sessionVars
<1>2. sess = "DOWNLOADING" /\ ~Pushed
  BY <1>0 DEF ClientAgrees, StartInv
<1>3. /\ op.kind = "program" /\ UNCHANGED <<current_slot, remote>>
      /\ download_crc' = crc32_update(op.addr - download_addr, op.addr + 1 - download_addr)
      /\ IF op.addr + 1 < op.end THEN OpGoesOn(op.addr + 1) /\ UNCHANGED downloaded_size
         ELSE /\ OpEnds
              /\ downloaded_size' = IF op.addr + 1 - download_addr > downloaded_size
                                    THEN op.addr + 1 - download_addr ELSE downloaded_size
  BY DEF ProgramCell
<1>4. op.addr < op.end BY <1>0, <1>3 DEF OpInv
<1>5. download_addr' = download_addr /\ download_addr \in Nat
  BY <1>0, <1>3, TargetFacts DEF download_addr, target_slot
<1>6. ~Pushed' BY <1>1, <1>2 DEF Pushed
<1>7. Loading' => Loading
  BY <1>1, <1>2 DEF Loading, Sending
<1>8. Loading => /\ Chain(toBoard, fw, Done, next_off)
                 /\ fw = remote => download_crc = op.addr - download_addr
                 /\ op.data = fw /\ Done > downloaded_size
  BY DEF BlocksInv, Summed
<1>9. Done = op.end - download_addr BY DEF Done
<1>10. Loading /\ fw = remote => download_crc' = op.addr + 1 - download_addr
  BY <1>3, <1>8 DEF crc32_update
<1>11. CASE op.addr + 1 < op.end
  <2>1. op' = [op EXCEPT !.addr = op.addr + 1] /\ downloaded_size' = downloaded_size
    BY <1>3, <1>11 DEF OpGoesOn
  <2>2. op'.kind = "program" /\ op'.addr = op.addr + 1 /\ op'.end = op.end /\ op'.data = op.data
    BY <1>0, <1>3, <2>1
  <2>3. op' # NoOp BY <2>2, NoOpType
  <2>4. step' = step /\ sess' = sess BY <1>1, <2>3 DEF clientVars
  <2>5. StartInv' BY <1>6, <2>4 DEF StartInv
  <2>6. Done' = Done /\ Summed' = op.addr + 1 - download_addr
    <3>1. step' = "writing" BY <2>4
    <3>2. Done' = op'.end - download_addr' /\ Summed' = op'.addr - download_addr'
      BY <3>1 DEF Done, Summed
    <3>3. Done' = op.end - download_addr BY <1>5, <2>2, <3>2, Zenon
    <3>4. Summed' = (op.addr + 1) - download_addr BY <1>5, <2>2, <3>2, Zenon
    <3>. QED BY <1>0, <1>5, <1>9, <3>3, <3>4
  <2>7. Loading => Chain(toBoard, fw, Done, next_off)'
    BY <1>1, <1>8, <2>6 DEF Chain, At
  <2>8. ASSUME Loading PROVE BlocksInv'
    <3>1. fw' = remote' => download_crc' = Summed' BY <1>1, <1>3, <1>10, <2>6, <2>8
    <3>2. op'.data = fw' /\ Done' > downloaded_size' BY <1>1, <1>8, <2>1, <2>2, <2>6, <2>8
    <3>. QED BY <2>7, <2>8, <3>1, <3>2 DEF BlocksInv
  <2>. QED BY <1>7, <2>5, <2>8, NotLoading
<1>12. CASE ~(op.addr + 1 < op.end)
  <2>1. op.addr + 1 = op.end BY <1>0, <1>4, <1>12
  <2>2. op' = NoOp BY <1>3, <1>12 DEF OpEnds
  <2>3. step' = "session" /\ sess' = sess BY <1>1, <2>2 DEF AfterOperation
  <2>4. StartInv' BY <1>6, <2>3 DEF StartInv
  <2>5. ASSUME Loading PROVE BlocksInv'
    <3>1. downloaded_size' = op.end - download_addr BY <1>0, <1>3, <1>5, <1>8, <1>9, <1>12, <2>1, <2>5
    <3>2. Done' = Done /\ Summed' = op.addr + 1 - download_addr
      <4>1. step' # "writing" BY <2>3
      <4>2. Done' = downloaded_size' /\ Summed' = downloaded_size' BY <4>1 DEF Done, Summed
      <4>3. Done' = op.end - download_addr BY <3>1, <4>2, Zenon
      <4>4. Summed' = (op.addr + 1) - download_addr BY <2>1, <3>1, <4>2, Zenon
      <4>. QED BY <1>0, <1>5, <1>9, <4>3, <4>4
    <3>3. Chain(toBoard, fw, Done, next_off)'
      BY <1>1, <1>8, <2>5, <3>2 DEF Chain, At
    <3>4. fw' = remote' => download_crc' = Summed' BY <1>1, <1>3, <1>10, <2>5, <3>2
    <3>. QED BY <2>3, <3>3, <3>4 DEF BlocksInv
  <2>. QED BY <1>7, <2>4, <2>5, NotLoading
<1>. QED BY <1>11, <1>12

\* The client's other steps.
LEMMA ClientDown ==
  ASSUME FullInv, WireInv, DownInv,
         \/ Stalled \/ client_handle_push \/ SendFails \/ ConfirmAndErase \/ SendReady
         \/ client_handle_data \/ client_handle_end \/ AckAndCommit \/ FlashWorks \/ FlashFails
  PROVE  DownInv'
<1>. USE DEF DownInv
<1>0. SessionTypeOK /\ ClientAgrees /\ OpAgrees /\ TypeOK
  BY DEF FullInv, SessionInv, AgreeInv, SessionTypeOK
<1>1. UNCHANGED <<running, current_slot>> BY AppStays DEF ClientStep
<1>2. LinkKept
  BY DEF Stalled, client_handle_push, SendFails, ConfirmAndErase, SendReady, client_handle_data,
         client_handle_end, AckAndCommit, FlashWorks, FlashFails, NextFrame
<1>3. UNCHANGED <<link, phase, push_slot, fw, next_off>> BY <1>2 DEF LinkKept, sessionVars
<1>4. SourceInv' BY <1>1, <1>3, SourceKept
<1>5. Pushed' = Pushed /\ Sending' = Sending BY <1>3 DEF Pushed, Sending
<1>6. CASE Stalled \/ SendFails \/ FlashFails
  BY <1>4, <1>6, ErrorDown DEF Stalled, SendFails, FlashFails
<1>7. CASE client_handle_push
  <2>1. 1 \in 1 .. Len(toBoard) /\ toBoard[1].cmd = "PUSH"
    BY <1>0, <1>7, FrameTaken DEF client_handle_push
  <2>2. phase = "WAIT_CONFIRM" BY <2>1 DEF WireInv, PushInv
  <2>3. ~Loading' BY <1>3, <2>2 DEF Loading, Sending
  <2>4. \/ client_report_error
        \/ UNCHANGED <<vars, clientVars>>
        \/ step' = "confirm"
    BY <1>7 DEF client_handle_push
  <2>5. UNCHANGED <<vars, clientVars>> => StartInv'
    BY <1>5, StartKept DEF vars, appVars, managerVars, clientVars
  <2>. QED BY <1>4, <2>3, <2>4, <2>5, ErrorDown, GivenUp, NotLoading
<1>8. CASE ConfirmAndErase
  <2>1. downloaded_size' = 0 /\ download_crc' = 0 /\ step' \in {"leave", "erasing"}
    BY <1>8 DEF ConfirmAndErase, Manager, ota_start_download, ota_abort
  <2>. QED BY <1>4, <2>1, NotLoading DEF StartInv, Loading
<1>9. CASE SendReady
  <2>1. step = "ready" /\ UNCHANGED <<downloaded_size, download_crc>> /\ step' = "session"
    BY <1>9 DEF SendReady, vars, appVars, managerVars
  <2>2. ~Sending BY <2>1 DEF WireInv, PhasesInv, Sending, Taking, AfterEnd
  <2>. QED BY <1>4, <1>5, <2>1, <2>2, NotLoading DEF StartInv, Loading
<1>10. CASE client_handle_data BY <1>4, <1>10, DataDown
<1>11. CASE client_handle_end
  <2>1. CASE sess # "DOWNLOADING"
    <3>1. UNCHANGED <<step, sess, downloaded_size, download_crc>>
      BY <1>11, <2>1 DEF client_handle_end, clientVars, vars, appVars, managerVars
    <3>. QED BY <1>4, <1>5, <2>1, <3>1, StartKept, NotLoading DEF Loading
  <2>2. CASE sess = "DOWNLOADING"
    <3>1. client_report_error \/ step' = "verified" BY <1>11, <2>2 DEF client_handle_end
    <3>. QED BY <1>4, <3>1, ErrorDown, GivenUp
  <2>. QED BY <2>1, <2>2
<1>12. CASE AckAndCommit BY <1>4, <1>12, GivenUp DEF AckAndCommit
<1>13. CASE FlashWorks
  <2>1. IF op' = NoOp THEN AfterOperation ELSE UNCHANGED <<clientVars, toPc>>
    BY <1>13 DEF FlashWorks
  <2>2. CASE step = "erasing" /\ EraseSector
    <3>1. UNCHANGED <<downloaded_size, download_crc>> BY <2>2 DEF EraseSector, appVars, managerVars
    <3>2. step' \in {"erasing", "ready"} BY <2>1, <2>2 DEF AfterOperation, clientVars
    <3>. QED BY <1>4, <2>2, <3>1, <3>2, NotLoading DEF StartInv, Loading
  <2>3. CASE step = "writing" /\ ProgramCell BY <1>4, <1>13, <2>3, ProgramDown
  <2>4. CASE step = "committing"
    <3>1. step' \in {"committing", "reboot", "leave"}
      BY <2>1, <2>4 DEF AfterOperation, clientVars, client_report_error
    <3>. QED BY <1>4, <3>1, GivenUp
  <2>. QED BY <1>0, <1>13, <2>2, <2>3, <2>4, FlashWorksIn
<1>. QED BY <1>6, <1>7, <1>8, <1>9, <1>10, <1>11, <1>12, <1>13

LEMMA DownStep == FullInv /\ WireInv /\ DownInv /\ [SessionNext]_sessionAll => DownInv'
BY ConnectionDown, ServerDown, ClientDown DEF SessionNext, ClientStep

(***************************************************************************)
(* While both ends of a live connection are in a download, what the board  *)
(* has written and what is under way to it add up to what the PC has sent, *)
(* and the running CRC is the image's: no block is lost, repeated or put   *)
(* out of place by the two phases (User/ota/ota_client.c,                  *)
(* PC_Server/ota_gui.py), for every image, chunk size and window.          *)
(***************************************************************************)
THEOREM NoBlockIsLost == SessionSpec => []BlocksConserved
<1>1. FullInv /\ WireInv /\ DownInv => BlocksConserved
  <2>1. SUFFICES ASSUME FullInv, WireInv, DownInv, Sending, step = "session"
                 PROVE  /\ sess = "DOWNLOADING"
                        /\ downloaded_size + BlocksUnderWay = next_off
                        /\ fw = remote => download_crc = downloaded_size
    BY DEF BlocksConserved, Sending
  <2>2. Loading /\ sess = "DOWNLOADING" BY <2>1, LoadingWhen DEF Loading
  <2>3. Chain(toBoard, fw, downloaded_size, next_off)
        /\ (fw = remote => download_crc = downloaded_size)
    BY <2>1, <2>2 DEF DownInv, BlocksInv, Done, Summed
  <2>4. toBoard \in Seq(Frames) /\ downloaded_size \in Nat /\ next_off \in Nat
    BY <2>1, BoundsAssumption DEF FullInv, SessionInv, SessionTypeOK, TypeOK
  <2>5. \A k \in 1 .. Len(toBoard) : toBoard[k].cmd # "DATA" => k = Len(toBoard)
    <3>1. \A k \in 1 .. Len(toBoard) : toBoard[k] \in Frames BY <2>4
    <3>2. \A k \in 1 .. Len(toBoard) : toBoard[k].cmd # "PUSH"
      BY <2>1 DEF WireInv, PushInv, Sending
    <3>3. \A k \in 1 .. Len(toBoard) : toBoard[k].cmd = "END" => k = Len(toBoard)
      BY <2>1 DEF WireInv, DataInv
    <3>. QED BY <3>1, <3>2, <3>3 DEF Frames
  <2>6. downloaded_size + BlocksUnderWay = next_off BY <2>3, <2>4, <2>5, ChainSum
  <2>. QED BY <2>2, <2>3, <2>6
<1>. QED
  BY <1>1, SessionStarts, SessionStep, WireStarts, WireStep, DownStarts, DownStep, PTL
     DEF SessionSpec
-------------------------------------------------------------------------------
(***************************************************************************)
(* What ota_config.h:28-30 promises holds of the board with the real       *)
(* protocol, if no HAL call fails: only whole images are started and one   *)
(* is always found, never an older one, and the update is atomic, whatever *)
(* breaks between the PC and the board.                                    *)
(***************************************************************************)
THEOREM UpdatesAreAtomicInTheField ==
  ASSUME MaxFaults = 0
  PROVE  SessionSpec => /\ [](BootsOnlyComplete /\ NeverBricked)
                        /\ NoDowngrade
                        /\ UpdateIsAtomic
<1>1. SessionSpec => Spec BY SessionRefines, PTL DEF ImplementsSystem
<1>2. Spec => [](BootsOnlyComplete /\ NeverBricked) BY StartsOnlyWholeImages
<1>3. Spec => NoDowngrade BY NeverOlder
<1>4. Spec => UpdateIsAtomic BY UpdatesAreAtomic
<1>. QED BY <1>1, <1>2, <1>3, <1>4, PTL
===============================================================================
