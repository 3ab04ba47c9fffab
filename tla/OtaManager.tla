------------------------------ MODULE OtaManager ------------------------------
(***************************************************************************)
(* The update state machine of the application, User/ota/ota_manager.c,    *)
(* driving the flash operations of OtaFlash.  Its operations are called by *)
(* the one OTA client task, so each starts only when the previous one has  *)
(* returned; the flash steps inside an operation are actions of their own, *)
(* because a reset or a hardware failure can end an operation at any one.  *)
(*                                                                         *)
(* last_error, error_count and the progress log are reporting only: no     *)
(* guard of the manager reads them, and they are left out.                 *)
(***************************************************************************)
EXTENDS OtaFlash

VARIABLES
  running,         \* the image being executed, Blank while no application runs
  current_slot,    \* the slot it was started in
  state,           \* ota_state_t of the manager
  remote,          \* the image PUSH_UPDATE announced: remote_crc, remote_version
  total_size, downloaded_size,
  download_crc     \* running CRC: cells of `remote' absorbed in order, or Bad

managerVars == <<state, remote, total_size, downloaded_size, download_crc>>
appVars     == <<running, current_slot, managerVars>>

Bad == -1    \* a running CRC that no continuation can bring back to remote_crc

\* VERIFYING is not seen between two steps; COMMITTED is OTA_STATE_UPDATING once
\* ota_prepare_update has returned 0 and the task is about to reset the board.
States == {"IDLE", "REQUEST_RECEIVED", "DOWNLOADING", "SUCCESS", "UPDATING", "COMMITTED"}

target_slot   == OtherSlot(current_slot)
download_addr == addr_of_slot(target_slot)
download_size == size_of_slot(target_slot)

\* The client task is between two frames: no operation is in progress.
Ready == running \in Images /\ op = NoOp

-------------------------------------------------------------------------------
(* ota_manager_init: every start of the application; ota_flash_protect is   *)
(* called with the slot found running.                                     *)
ManagerInit ==
  /\ state = "IDLE" /\ remote = Blank
  /\ total_size = 0 /\ downloaded_size = 0 /\ download_crc = 0

ManagerReset ==
  /\ state' = "IDLE" /\ remote' = Blank
  /\ total_size' = 0 /\ downloaded_size' = 0 /\ download_crc' = 0

\* Mutation: an aborted download leaves the manager in the error state.
ota_abort_in_error ==
  /\ state' = "ERROR" /\ downloaded_size' = 0 /\ download_crc' = 0
  /\ UNCHANGED <<remote, total_size>>

ota_abort ==
  /\ state' = "IDLE" /\ downloaded_size' = 0 /\ download_crc' = 0
  /\ UNCHANGED <<remote, total_size>>

\* A HAL call returned an error: the driver gives up, the manager aborts.
OperationFails ==
  /\ running \in Images /\ op # NoOp
  /\ HAL_Fails /\ OpEnds /\ ota_abort
  /\ UNCHANGED <<running, current_slot>>

-------------------------------------------------------------------------------
(* PUSH_UPDATE.  A refused push leaves no trace in the manager.            *)

\* Mutation: the announced version is not compared.
PushRefused_any_version(i, size) ==
  state # "IDLE" \/ size = 0 \/ size > download_size

PushRefused(i, size) ==
  \/ state # "IDLE"
  \/ size = 0 \/ size > download_size
  \/ i.version <= running.version

ota_handle_push_update_request(i, size) ==
  /\ Ready
  /\ ~PushRefused(i, size)
  /\ state' = "REQUEST_RECEIVED" /\ remote' = i /\ total_size' = size
  /\ downloaded_size' = 0 /\ download_crc' = 0
  /\ UNCHANGED <<flashVars, running, current_slot>>

-------------------------------------------------------------------------------
(* Download. *)

ota_start_download ==
  LET span == ota_flash_erase_span(download_addr, total_size) IN
  /\ Ready /\ state = "REQUEST_RECEIVED"
  /\ IF RangeAllowed(download_addr, span, addr_of_slot(current_slot))
     THEN /\ state' = "DOWNLOADING" /\ downloaded_size' = 0 /\ download_crc' = 0
          /\ op' = Op("erase", download_addr, uint32_add(download_addr, span), Blank)
          /\ UNCHANGED <<remote, total_size>>
     ELSE op' = op /\ ota_abort
  /\ UNCHANGED <<flash, bootInfo, info, running, current_slot, faults>>

\* ota_flash_erase_range erases whole sectors, one after the other.
EraseSector ==
  LET next == SectorEnd[op.addr] IN
  /\ running \in Images /\ op.kind = "erase"
  /\ HAL_EraseSector
  /\ IF next < op.end THEN OpGoesOn(next) ELSE OpEnds
  /\ UNCHANGED appVars

\* A DATA block of `len' cells for `offset', of which the PC says it is image d.
BlockAccepted(offset, len) ==
  /\ uint32_add(offset, len) <= download_size
  /\ uint32_add(offset, len) <= total_size
  /\ RangeAllowed(uint32_add(download_addr, offset), len, addr_of_slot(current_slot))

ota_write_data_block(offset, len, d) ==
  LET addr == uint32_add(download_addr, offset) IN
  /\ Ready /\ state = "DOWNLOADING" /\ len # 0
  /\ IF BlockAccepted(offset, len)
     THEN op' = Op("program", addr, uint32_add(addr, len), d) /\ UNCHANGED managerVars
     ELSE op' = op /\ ota_abort
  /\ UNCHANGED <<flash, bootInfo, info, running, current_slot, faults>>

\* A block whose length or offset is not word aligned aborts the download.
MisalignedBlock ==
  /\ Ready /\ state = "DOWNLOADING"
  /\ ota_abort
  /\ UNCHANGED <<flashVars, running, current_slot>>

\* The CRC absorbs blocks in the order they arrive, once they are written.
crc32_update(first, last) ==
  IF download_crc = first /\ op.data = remote THEN last ELSE Bad

ProgramCell ==
  LET next == op.addr + 1
      done == op.addr + 1 - download_addr IN
  /\ running \in Images /\ op.kind = "program"
  /\ HAL_ProgramCell
  /\ download_crc' = crc32_update(op.addr - download_addr, done)
  /\ IF next < op.end
     THEN OpGoesOn(next) /\ UNCHANGED downloaded_size
     ELSE OpEnds /\ downloaded_size' = IF done > downloaded_size THEN done ELSE downloaded_size
  /\ UNCHANGED <<running, current_slot, state, remote, total_size>>

\* Mutation: only the length is compared.
DownloadVerified_length == downloaded_size = total_size

\* END: length, running CRC, then the image as it now stands in flash.
DownloadVerified ==
  /\ downloaded_size = total_size
  /\ download_crc = remote.size
  /\ check_image(target_slot, downloaded_size, remote)

ota_finish_download ==
  /\ Ready /\ state = "DOWNLOADING"
  /\ IF DownloadVerified
     THEN state' = "SUCCESS" /\ UNCHANGED <<remote, total_size, downloaded_size, download_crc>>
     ELSE ota_abort
  /\ UNCHANGED <<flashVars, running, current_slot>>

-------------------------------------------------------------------------------
(* Commit: boot_info_write erases S11 and programs it word by word.        *)

\* Mutation: the image is committed without having been verified.
ota_prepare_update_unverified ==
  /\ Ready /\ state \in {"DOWNLOADING", "SUCCESS"}
  /\ state' = "UPDATING"
  /\ info' = Info(target_slot, remote, total_size)
  /\ op' = Op("info_erase", 0, 0, Blank)
  /\ UNCHANGED <<flash, bootInfo, running, current_slot, remote, total_size,
                 downloaded_size, download_crc, faults>>

ota_prepare_update ==
  /\ Ready /\ state = "SUCCESS"
  /\ state' = "UPDATING"
  /\ info' = Info(target_slot, remote, downloaded_size)
  /\ op' = Op("info_erase", 0, 0, Blank)
  /\ UNCHANGED <<flash, bootInfo, running, current_slot, remote, total_size,
                 downloaded_size, download_crc, faults>>

EraseInfo ==
  /\ running \in Images /\ op.kind = "info_erase"
  /\ HAL_EraseInfo
  /\ op' = Op("info_program", 1, InfoWords + 1, Blank)
  /\ UNCHANGED appVars

\* After the last word the sector is read back and compared.
ProgramInfo ==
  /\ running \in Images /\ op.kind = "info_program"
  /\ HAL_ProgramInfo
  /\ IF op.addr + 1 < op.end
     THEN OpGoesOn(op.addr + 1) /\ UNCHANGED managerVars
     ELSE /\ OpEnds
          /\ IF bootInfo' = info
             THEN /\ state' = "COMMITTED"
                  /\ UNCHANGED <<remote, total_size, downloaded_size, download_crc>>
             ELSE ota_abort
  /\ UNCHANGED <<running, current_slot>>

-------------------------------------------------------------------------------
(* The client task gives a download up: it starts a new connection, or no  *)
(* byte has arrived for OTA_DOWNLOAD_STALL_MS.  Only an operation that     *)
(* succeeded in committing is never taken back: the task resets the board. *)
ClientAborts ==
  /\ Ready /\ state \notin {"IDLE", "COMMITTED"}
  /\ ota_abort
  /\ UNCHANGED <<flashVars, running, current_slot>>
===============================================================================
