---------------------------- MODULE OtaSystem_proof ----------------------------
(***************************************************************************)
(* Proofs about OtaSystem, for every layout, set of images and bound.      *)
(***************************************************************************)
EXTENDS OtaSystem, TLAPS

\* The two slots are disjoint ranges inside the address space.
LEMMA SlotFacts ==
  ASSUME NEW s \in Slots
  PROVE  /\ OtherSlot(s) \in Slots /\ OtherSlot(OtherSlot(s)) = s
         /\ addr_of_slot(s) \in Nat \ {0} /\ size_of_slot(s) \in Nat \ {0}
         /\ size_of_slot(s) <= APP1_SIZE
         /\ addr_of_slot(s) + APP1_SIZE < WordMod
         /\ addr_of_slot(s) \in SlotCells(s)
         /\ SlotCells(s) \subseteq AppCells
         /\ SlotCells(s) \cap SlotCells(OtherSlot(s)) = {}
         /\ AppCells = SlotCells(s) \cup SlotCells(OtherSlot(s))
BY LayoutAssumption
   DEF Slots, OtherSlot, addr_of_slot, size_of_slot, SlotCells, AppCells,
       OTA_SLOT_APP1, OTA_SLOT_APP2

\* Every application cell is a natural number below WordMod.
LEMMA CellFacts ==
  ASSUME NEW c \in AppCells
  PROVE  c \in Nat /\ c < WordMod
BY LayoutAssumption
   DEF Slots, addr_of_slot, size_of_slot, SlotCells, AppCells,
       OTA_SLOT_APP1, OTA_SLOT_APP2

\* The guards of the flash driver let through only ranges inside the slot that
\* is not protected, even when the address arithmetic wraps around.
LEMMA RangeAllowedInTarget ==
  ASSUME NEW p \in Slots,
         NEW a \in Nat, a < WordMod, NEW n \in Nat \ {0}, n < WordMod,
         RangeAllowed(a, n, addr_of_slot(p))
  PROVE  /\ uint32_add(a, n) = a + n
         /\ addr_of_slot(OtherSlot(p)) <= a
         /\ a + n <= addr_of_slot(OtherSlot(p)) + size_of_slot(OtherSlot(p))
<1>1. /\ uint32_add(a, n) \in Nat /\ uint32_add(a, n) >= a
      /\ ~(a < addr_of_slot(p) + APP1_SIZE /\ uint32_add(a, n) > addr_of_slot(p))
  BY LayoutAssumption DEF RangeAllowed, range_in_app_partition, range_hits_protected,
                          uint32_add
<1>2. PICK s \in Slots : /\ a >= addr_of_slot(s)
                         /\ uint32_add(a, n) <= addr_of_slot(s) + size_of_slot(s)
  BY DEF RangeAllowed, range_in_app_partition
<1>3. uint32_add(a, n) = a + n
  BY <1>1, LayoutAssumption DEF uint32_add
<1>4. s # p
  BY <1>1, <1>2, <1>3, SlotFacts, LayoutAssumption
<1>5. s = OtherSlot(p)
  BY <1>4 DEF Slots, OtherSlot
<1>. QED BY <1>2, <1>3, <1>5

\* A sector never reaches outside the slot of its cells.
LEMMA SectorInSlot ==
  ASSUME NEW s \in Slots, NEW c \in SlotCells(s)
  PROVE  /\ SectorEnd[c] \in Nat /\ c < SectorEnd[c]
         /\ SectorEnd[c] <= addr_of_slot(s) + size_of_slot(s)
         /\ Sector(c) \subseteq SlotCells(s)
<1>1. /\ c \in AppCells /\ SectorEnd[c] \in Nat /\ c < SectorEnd[c]
      /\ SectorEnd[c] <= addr_of_slot(s) + size_of_slot(s)
  BY SlotFacts, SectorAssumption
<1>2. ASSUME NEW d \in SlotCells(OtherSlot(s))
      PROVE  SectorEnd[d] # SectorEnd[c]
  <2>1. /\ OtherSlot(s) \in Slots /\ SectorEnd[d] \in Nat /\ d < SectorEnd[d]
        /\ SectorEnd[d] <= addr_of_slot(OtherSlot(s)) + size_of_slot(OtherSlot(s))
    BY SlotFacts, SectorAssumption
  <2>. QED
    BY <1>1, <2>1, LayoutAssumption
       DEF Slots, OtherSlot, addr_of_slot, size_of_slot, SlotCells,
           OTA_SLOT_APP1, OTA_SLOT_APP2
<1>. QED BY <1>1, <1>2, SlotFacts DEF Sector

-------------------------------------------------------------------------------
BaseInv == TypeOK /\ OpInv /\ ManagerInv

LEMMA NoOpType ==
  /\ NoOp \in [kind : OpKinds, addr : Nat, end : Nat, data : CellVals]
  /\ NoOp.kind = "none"
BY DEF NoOp, OpKinds, CellVals

LEMMA InfoTypes ==
  /\ BlankInfo \in InfoType /\ DefaultInfo \in InfoType
  /\ \A s \in Slots, c \in Images \cup {NoCrc}, n \in Nat : Info(s, c, n) \in InfoType
BY DEF BlankInfo, DefaultInfo, Info, InfoType, Slots, OTA_SLOT_APP1

LEMMA TornInfoType ==
  ASSUME TypeOK
  PROVE  TornInfo \subseteq InfoType
BY DEF TypeOK, TornInfo, InfoType

\* Programming one word keeps BootInfo well formed.
LEMMA ProgramInfoType ==
  ASSUME TypeOK, op.addr \in 1 .. InfoWords, HAL_ProgramInfo
  PROVE  bootInfo' \in InfoType
<1>. DEFINE w == InfoWord[op.addr]
<1>1. /\ w \in {"magic", "boot_app", "crc", "size", "rest"}
      /\ bootInfo' = [bootInfo EXCEPT ![w] = InfoProgrammed(bootInfo[w], info[w])]
  BY DEF HAL_ProgramInfo, InfoWord, InfoWords
<1>2. InfoProgrammed(bootInfo[w], info[w]) \in {info[w], Blank}
  BY DEF InfoProgrammed
<1>. HIDE DEF w
<1>3. CASE w = "magic"    BY <1>1, <1>2, <1>3 DEF TypeOK, InfoType
<1>4. CASE w = "boot_app" BY <1>1, <1>2, <1>4 DEF TypeOK, InfoType
<1>5. CASE w = "crc"      BY <1>1, <1>2, <1>5 DEF TypeOK, InfoType
<1>6. CASE w = "size"     BY <1>1, <1>2, <1>6 DEF TypeOK, InfoType
<1>7. CASE w = "rest"     BY <1>1, <1>2, <1>7 DEF TypeOK, InfoType
<1>. QED BY <1>1, <1>3, <1>4, <1>5, <1>6, <1>7

\* An operation cut short leaves well-formed storage behind, and disturbs no
\* cell outside the sector or cell it was working on.
LEMMA InterruptedEffect ==
  ASSUME TypeOK, OpInv, Interrupted
  PROVE  /\ flash' \in [AppCells -> CellVals] /\ bootInfo' \in InfoType
         /\ op.kind \notin {"erase", "program"} => flash' = flash
         /\ op.kind \in {"erase", "program"} =>
              \A c \in AppCells \ Sector(op.addr) : flash'[c] = flash[c]
         /\ op.kind # "info_erase" => bootInfo' = bootInfo
<1>1. CASE op.kind = "erase"
  <2>1. PICK part \in SUBSET Sector(op.addr), lost \in SUBSET Sector(op.addr) :
          \E g \in [lost -> Garbage] :
            flash' = [c \in AppCells |-> IF c \in lost THEN g[c]
                                         ELSE IF c \in part THEN Blank ELSE flash[c]]
    BY <1>1 DEF Interrupted
  <2>2. PICK g \in [lost -> Garbage] :
          flash' = [c \in AppCells |-> IF c \in lost THEN g[c]
                                       ELSE IF c \in part THEN Blank ELSE flash[c]]
    BY <2>1
  <2>3. bootInfo' = bootInfo BY <1>1 DEF Interrupted
  <2>. QED BY <1>1, <2>1, <2>2, <2>3 DEF TypeOK, CellVals
<1>2. CASE op.kind = "program"
  <2>1. PICK v \in GarbageAt(op.addr) \cup {flash[op.addr]} :
          flash' = [flash EXCEPT ![op.addr] = v]
    BY <1>2 DEF Interrupted
  <2>2. bootInfo' = bootInfo BY <1>2 DEF Interrupted
  <2>3. op.addr \in AppCells /\ op.addr \in Sector(op.addr)
    BY <1>2, SlotFacts DEF OpInv, TypeOK, target_slot, Sector
  <2>4. v \in CellVals
    BY <2>1, <2>3 DEF TypeOK, GarbageAt, Garbage, CellVals
  <2>. QED BY <1>2, <2>1, <2>2, <2>3, <2>4 DEF TypeOK
<1>3. CASE op.kind = "info_erase"
  <2>1. bootInfo' \in TornInfo /\ flash' = flash BY <1>3 DEF Interrupted
  <2>. QED BY <1>3, <2>1, TornInfoType DEF TypeOK
<1>4. CASE op.kind \notin {"erase", "program", "info_erase"}
  <2>1. bootInfo' = bootInfo /\ flash' = flash BY <1>4 DEF Interrupted
  <2>. QED BY <1>4, <2>1 DEF TypeOK
<1>. QED BY <1>1, <1>2, <1>3, <1>4

\* A slot that is not changed still holds what it held.
LEMMA CompleteKept ==
  ASSUME NEW s \in Slots, SlotUnchanged(s), Complete(s)
  PROVE  Complete(s)' /\ flash'[addr_of_slot(s)] = flash[addr_of_slot(s)]
<1>1. PICK i \in Images : i.slot = s /\ CrcMatches(s, i.size, i) BY DEF Complete
<1>2. i.size \in 1 .. size_of_slot(s) BY <1>1, ImageAssumption
<1>3. \A k \in 0 .. (i.size - 1) : addr_of_slot(s) + k \in SlotCells(s)
  BY <1>2, SlotFacts DEF SlotCells
<1>4. \A k \in 0 .. (i.size - 1) : flash'[addr_of_slot(s) + k] = i
  BY <1>1, <1>3 DEF CrcMatches, SlotUnchanged
<1>5. addr_of_slot(s) \in SlotCells(s) BY SlotFacts
<1>. QED BY <1>1, <1>4, <1>5 DEF Complete, CrcMatches, SlotUnchanged

\* The cells a flash operation of the application touches are in the other slot.
LEMMA OpStaysInTarget ==
  ASSUME TypeOK, OpInv, op.kind \in {"erase", "program"}
  PROVE  /\ op.addr \in Sector(op.addr) /\ op.addr \in AppCells
         /\ Sector(op.addr) \subseteq SlotCells(target_slot)
         /\ \A c \in SlotCells(current_slot) : c \in AppCells \ Sector(op.addr)
<1>1. /\ op.addr \in SlotCells(target_slot) /\ target_slot \in Slots
      /\ current_slot = OtherSlot(target_slot)
  BY SlotFacts DEF OpInv, TypeOK, target_slot
<1>2. Sector(op.addr) \subseteq SlotCells(target_slot) /\ op.addr \in AppCells
  BY <1>1, SectorInSlot, SlotFacts
<1>. QED BY <1>1, <1>2, SlotFacts DEF Sector

\* While an application runs, no step of the bootloader is possible.
LEMMA BootloaderIsOver ==
  ASSUME BaseInv, running \in Images
  PROVE  bpc = "app" /\ ~Boot
<1>1. running # Blank BY ImageAssumption
<1>2. bpc = "app" BY <1>1 DEF BaseInv, OpInv
<1>. QED
  BY <1>2 DEF Boot, BootStep, ReadBootInfo, BootEraseInfo, BootProgramInfo, FallBack,
              NeitherBootable, boot_slot

\* No step of the application, and no reset, changes a cell of the running slot.
LEMMA RunningSlotKept ==
  ASSUME BaseInv, [Next]_vars, running \in Images
  PROVE  SlotUnchanged(current_slot)
<1>. USE DEF BaseInv
<1>1. ASSUME \/ flash' = flash
             \/ /\ op.kind \in {"erase", "program"}
                /\ \A c \in AppCells \ Sector(op.addr) : flash'[c] = flash[c]
      PROVE  SlotUnchanged(current_slot)
  BY <1>1, OpStaysInTarget DEF SlotUnchanged
<1>2. ~Boot BY BootloaderIsOver
<1>3. ASSUME Interrupted PROVE SlotUnchanged(current_slot)
  BY <1>1, <1>3, InterruptedEffect
<1>4. CASE Commands
  BY <1>1, <1>4 DEF Commands, ota_handle_push_update_request, ota_start_download,
       ota_write_data_block, MisalignedBlock, ota_finish_download, ota_prepare_update,
       ClientAborts, flashVars
<1>5. CASE FlashSteps
  <2>1. CASE EraseSector
    BY <1>1, <2>1 DEF EraseSector, HAL_EraseSector
  <2>2. CASE ProgramCell
    <3>1. op.addr \in Sector(op.addr) /\ op.kind = "program"
      BY <2>2, OpStaysInTarget DEF ProgramCell
    <3>2. PICK v \in Programmed(op.addr, op.data) : flash' = [flash EXCEPT ![op.addr] = v]
      BY <2>2 DEF ProgramCell, HAL_ProgramCell
    <3>3. \A c \in AppCells \ Sector(op.addr) : flash'[c] = flash[c]
      BY <3>1, <3>2 DEF TypeOK
    <3>. QED BY <1>1, <3>1, <3>3
  <2>3. CASE EraseInfo BY <1>1, <2>3 DEF EraseInfo, HAL_EraseInfo
  <2>4. CASE ProgramInfo BY <1>1, <2>4 DEF ProgramInfo, HAL_ProgramInfo
  <2>5. CASE OperationFails BY <1>3, <2>5 DEF OperationFails, HAL_Fails
  <2>. QED BY <1>5, <2>1, <2>2, <2>3, <2>4, <2>5 DEF FlashSteps
<1>6. CASE SystemReset BY <1>1, <1>6 DEF SystemReset
<1>7. CASE PowerLoss BY <1>3, <1>7 DEF PowerLoss
<1>8. CASE UNCHANGED vars BY <1>1, <1>8 DEF vars, flashVars
<1>. QED BY <1>2, <1>4, <1>5, <1>6, <1>7, <1>8 DEF Next, App

\* A whole image starts with that image.
LEMMA CompleteStarts ==
  ASSUME NEW s \in Slots, Complete(s)
  PROVE  flash[addr_of_slot(s)] \in Images
<1>1. PICK i \in Images : CrcMatches(s, i.size, i) BY DEF Complete
<1>2. i.size \in Nat \ {0} BY <1>1, SlotFacts, ImageAssumption
<1>3. 0 \in 0 .. (i.size - 1) BY <1>2
<1>4. flash[addr_of_slot(s) + 0] = i BY <1>1, <1>3 DEF CrcMatches
<1>. QED BY <1>4, SlotFacts

LEMMA InitBase == Init => BaseInv
<1>. SUFFICES ASSUME NEW i \in Images, Shipped(i), bootInfo = DefaultInfo
              PROVE  BaseInv
  BY DEF Init
<1>1. Blank # i /\ Blank \notin Images /\ Blank # Junk BY ImageAssumption DEF Garbage
<1>2. TypeOK
  BY InfoTypes, NoOpType, MaxFaultsAssumption, BoundsAssumption
     DEF Shipped, TypeOK, CellVals, Slots, ManagerInit, States, BootSteps
<1>3. OpInv BY <1>1 DEF Shipped, OpInv, NoOp
<1>4. ManagerInv BY <1>1 DEF Shipped, ManagerInv, ManagerInit
<1>. QED BY <1>2, <1>3, <1>4 DEF BaseInv

-------------------------------------------------------------------------------
(* The bootloader's steps. *)

LEMMA InfoEraseType ==
  /\ Op("info_erase", 0, 0, Blank) \in [kind : OpKinds, addr : Nat, end : Nat, data : CellVals]
  /\ Op("info_program", 1, InfoWords + 1, Blank)
       \in [kind : OpKinds, addr : Nat, end : Nat, data : CellVals]
  /\ Op("info_erase", 0, 0, Blank).kind = "info_erase"
  /\ Op("info_program", 1, InfoWords + 1, Blank).kind = "info_program"
  /\ Op("info_program", 1, InfoWords + 1, Blank).addr = 1
  /\ Op("info_program", 1, InfoWords + 1, Blank).end = InfoWords + 1
BY DEF Op, OpKinds, CellVals, InfoWords

\* Moving on to the next cell or word changes nothing else of the operation.
LEMMA OpMoves ==
  ASSUME TypeOK, NEW n \in Nat, OpGoesOn(n)
  PROVE  /\ op' \in [kind : OpKinds, addr : Nat, end : Nat, data : CellVals]
         /\ op'.kind = op.kind /\ op'.addr = n /\ op'.end = op.end /\ op'.data = op.data
BY DEF TypeOK, OpGoesOn

LEMMA BootStepBase ==
  ASSUME BaseInv, BootStep, UNCHANGED <<appVars, losses, lastRun>>
  PROVE  BaseInv'
<1>. USE DEF BaseInv
<1>1. running \notin Images /\ running' \notin Images /\ bpc # "app"
  BY ImageAssumption
     DEF BootStep, ReadBootInfo, BootEraseInfo, BootProgramInfo, FallBack, NeitherBootable,
         OpInv, appVars
<1>2. running = Blank BY <1>1 DEF OpInv
<1>3. ManagerInv' BY <1>1 DEF ManagerInv, appVars, managerVars
<1>4. /\ running' = Blank /\ current_slot' = current_slot /\ state' = state
      /\ remote' = remote /\ total_size' = total_size
      /\ downloaded_size' = downloaded_size /\ download_crc' = download_crc
      /\ losses' = losses /\ lastRun' = lastRun
  BY <1>2 DEF appVars, managerVars
<1>5. Blank # Junk BY ImageAssumption DEF Garbage
<1>6. CASE ReadBootInfo
  <2>1. TypeOK'
    BY <1>4, <1>6, InfoTypes, InfoEraseType DEF TypeOK, ReadBootInfo, WriteBootInfo, BootSteps
  <2>2. OpInv'
    BY <1>1, <1>4, <1>5, <1>6, InfoEraseType DEF OpInv, ReadBootInfo, WriteBootInfo, NoOp
  <2>. QED BY <1>3, <2>1, <2>2
<1>7. CASE BootEraseInfo
  <2>1. flash' \in [AppCells -> CellVals] /\ bootInfo' \in InfoType /\ faults' \in 0 .. MaxFaults
    BY <1>7, InterruptedEffect, InfoTypes, MaxFaultsAssumption
       DEF TypeOK, BootEraseInfo, HAL_EraseInfo, HAL_Fails
  <2>2. info' = info /\ bpc' = bpc /\ local' = local /\ bpc \in {"default", "fixed"}
    BY <1>7 DEF BootEraseInfo, HAL_EraseInfo, HAL_Fails, bootVars
  <2>3. op' = Op("info_program", 1, InfoWords + 1, Blank) BY <1>7 DEF BootEraseInfo
  <2>4. TypeOK' BY <1>4, <2>1, <2>2, <2>3, InfoEraseType DEF TypeOK
  <2>5. OpInv' BY <1>1, <1>4, <1>5, <2>2, <2>3, InfoEraseType DEF OpInv, InfoWords
  <2>. QED BY <1>3, <2>4, <2>5
<1>8. CASE BootProgramInfo
  <2>0. op.kind = "info_program" /\ op.addr \in 1 .. InfoWords /\ op.end = InfoWords + 1
    BY <1>8 DEF BootProgramInfo, OpInv
  <2>1. flash' \in [AppCells -> CellVals] /\ bootInfo' \in InfoType /\ faults' \in 0 .. MaxFaults
    <3>1. CASE HAL_ProgramInfo BY <2>0, <3>1, ProgramInfoType DEF TypeOK, HAL_ProgramInfo
    <3>2. CASE HAL_Fails
      BY <3>2, InterruptedEffect, MaxFaultsAssumption DEF TypeOK, HAL_Fails
    <3>. QED BY <1>8, <3>1, <3>2 DEF BootProgramInfo
  <2>2. info' = info /\ local' = local /\ bpc \in {"default", "fixed"}
    BY <1>8 DEF BootProgramInfo, HAL_ProgramInfo, HAL_Fails
  <2>3. CASE op.addr + 1 < op.end
    <3>1. OpGoesOn(op.addr + 1) /\ bpc' = bpc BY <1>8, <2>3 DEF BootProgramInfo
    <3>2. op.addr + 1 \in Nat BY <2>0 DEF InfoWords
    <3>3. /\ op' \in [kind : OpKinds, addr : Nat, end : Nat, data : CellVals]
          /\ op'.kind = "info_program" /\ op'.addr = op.addr + 1 /\ op'.end = op.end
      BY <2>0, <3>1, <3>2, OpMoves
    <3>4. TypeOK' BY <1>4, <2>1, <2>2, <3>1, <3>3 DEF TypeOK
    <3>5. OpInv' BY <1>1, <1>4, <1>5, <2>0, <2>2, <2>3, <3>1, <3>3 DEF OpInv, InfoWords
    <3>. QED BY <1>3, <3>4, <3>5
  <2>4. CASE ~(op.addr + 1 < op.end)
    <3>1. op' = NoOp /\ bpc' = IF bpc = "default" THEN "check" ELSE "jump"
      BY <1>8, <2>4 DEF BootProgramInfo, OpEnds
    <3>2. TypeOK' BY <1>4, <2>1, <2>2, <3>1, NoOpType DEF TypeOK, BootSteps
    <3>3. OpInv' BY <1>1, <1>4, <1>5, <2>2, <3>1, NoOpType DEF OpInv
    <3>. QED BY <1>3, <3>2, <3>3
  <2>. QED BY <2>3, <2>4
<1>9. CASE FallBack
  <2>1. alt \in Slots BY SlotFacts DEF alt, want, Wanted, Slots
  <2>2. TypeOK'
    BY <1>4, <1>9, <2>1, InfoTypes, InfoEraseType DEF TypeOK, FallBack, WriteBootInfo, BootSteps
  <2>3. OpInv' BY <1>1, <1>4, <1>5, <1>9, InfoEraseType DEF OpInv, FallBack, WriteBootInfo
  <2>. QED BY <1>3, <2>2, <2>3
<1>10. CASE NeitherBootable
  <2>1. TypeOK' BY <1>4, <1>10 DEF TypeOK, NeitherBootable, flashVars, BootSteps
  <2>2. OpInv' BY <1>1, <1>4, <1>5, <1>10 DEF OpInv, NeitherBootable, flashVars
  <2>. QED BY <1>3, <2>1, <2>2
<1>. QED BY <1>6, <1>7, <1>8, <1>9, <1>10 DEF BootStep

LEMMA BootSlotBase ==
  ASSUME BaseInv, NEW slot \in Slots, boot_slot(slot), AppStarts(slot), UNCHANGED losses
  PROVE  BaseInv'
<1>. USE DEF BaseInv
<1>1. op = NoOp /\ op' = NoOp BY DEF boot_slot, OpInv
<1>2. /\ Complete(slot) => running' \in Images
      /\ ~Complete(slot) => running' = Junk
      /\ running' \in Images \cup {Junk} /\ lastRun' \in Images
  BY CompleteStarts DEF AppStarts, TypeOK
<1>3. Blank # Junk /\ Blank \notin Images /\ Junk \notin Images BY ImageAssumption DEF Garbage
<1>4. TypeOK'
  BY <1>1, <1>2, InfoTypes DEF TypeOK, boot_slot, AppStarts, ManagerReset, States, BootSteps
<1>5. OpInv' BY <1>1, <1>2, <1>3, NoOpType DEF OpInv, boot_slot, AppStarts, ManagerReset
<1>6. ManagerInv'
  <2>1. running' \in Images => Complete(slot) BY <1>2, <1>3
  <2>2. SlotUnchanged(slot) BY DEF boot_slot, SlotUnchanged
  <2>3. running' \in Images => /\ Complete(slot)'
                               /\ flash'[addr_of_slot(slot)] = running'
    BY <2>1, <2>2, CompleteKept DEF AppStarts
  <2>. QED BY <2>3 DEF ManagerInv, AppStarts, ManagerReset, Complete, CrcMatches
<1>. QED BY <1>4, <1>5, <1>6

-------------------------------------------------------------------------------
(* The application's steps. *)

\* The image that runs stays whole as long as it runs.
LEMMA RunningImageStaysWhole ==
  ASSUME BaseInv, [Next]_vars, running \in Images, UNCHANGED <<running, current_slot>>
  PROVE  Complete(current_slot)' /\ (flash[addr_of_slot(current_slot)] = running)'
<1>1. PICK s \in Slots : s = current_slot BY DEF BaseInv, TypeOK
<1>2. Complete(s) /\ flash[addr_of_slot(s)] = running
  BY <1>1 DEF BaseInv, ManagerInv
<1>3. Complete(s)' /\ flash'[addr_of_slot(s)] = flash[addr_of_slot(s)]
  BY <1>1, <1>2, RunningSlotKept, CompleteKept
<1>. QED BY <1>1, <1>2, <1>3 DEF Complete, CrcMatches

\* A step of the application that starts, moves on or ends no operation.
LEMMA QuietCommandBase ==
  ASSUME BaseInv, [Next]_vars, Ready,
         UNCHANGED <<flashVars, bootVars, losses, lastRun, running, current_slot>>,
         \/ ota_abort
         \/ \E i \in Images, size \in Nat : ota_handle_push_update_request(i, size)
         \/ state = "DOWNLOADING" /\ state' = "SUCCESS"
            /\ UNCHANGED <<remote, total_size, downloaded_size, download_crc>>
  PROVE  BaseInv'
<1>. USE DEF BaseInv
<1>1. op = NoOp /\ op' = NoOp /\ running \in Images BY DEF Ready, flashVars
<1>2. target_slot' = target_slot /\ download_size' = download_size
  BY DEF target_slot, download_size
<1>. DEFINE ManagerOK == /\ state' \in States \ {"UPDATING"}
                         /\ remote' \in Images \cup {Blank} /\ total_size' \in Nat
                         /\ downloaded_size' \in Nat /\ download_crc' \in Nat \cup {Bad}
                         /\ state' # "IDLE" => /\ remote' \in Images
                                               /\ total_size' \in 1 .. download_size
<1>3. ManagerOK
  <2>1. CASE ota_abort BY <2>1 DEF ota_abort, TypeOK, States
  <2>2. ASSUME NEW i \in Images, NEW size \in Nat, ota_handle_push_update_request(i, size)
        PROVE  ManagerOK
    <3>1. download_size \in Nat
      BY SlotFacts DEF TypeOK, download_size, target_slot
    <3>. QED
      BY <2>2, <3>1 DEF ota_handle_push_update_request, PushRefused, TypeOK, States
  <2>3. CASE state = "DOWNLOADING" /\ state' = "SUCCESS"
             /\ UNCHANGED <<remote, total_size, downloaded_size, download_crc>>
    BY <2>3 DEF TypeOK, ManagerInv, States
  <2>. QED BY <2>1, <2>2, <2>3
<1>4. TypeOK' BY <1>3 DEF TypeOK, flashVars, bootVars
<1>5. OpInv' BY <1>1, <1>3, NoOpType DEF OpInv, flashVars, bootVars
<1>6. ManagerInv' BY <1>1, <1>2, <1>3, RunningImageStaysWhole DEF ManagerInv
<1>. QED BY <1>4, <1>5, <1>6

\* The sizes the download arithmetic works with.
LEMMA TargetFacts ==
  ASSUME TypeOK
  PROVE  /\ target_slot \in Slots /\ OtherSlot(current_slot) = target_slot
         /\ download_addr \in Nat \ {0} /\ download_addr < WordMod
         /\ download_size \in Nat \ {0} /\ download_size < WordMod
         /\ download_addr + download_size < WordMod /\ WordMod \in Nat
         /\ SlotCells(target_slot) = download_addr .. (download_addr + download_size - 1)
BY SlotFacts, LayoutAssumption
   DEF TypeOK, target_slot, download_addr, download_size, SlotCells

\* An allowed range is inside the target slot: an operation on it is well formed.
LEMMA RangeOp ==
  ASSUME TypeOK, NEW a \in Nat, a < WordMod, NEW n \in Nat \ {0}, n < WordMod,
         RangeAllowed(a, n, addr_of_slot(current_slot))
  PROVE  /\ uint32_add(a, n) \in Nat
         /\ a \in SlotCells(target_slot) /\ a < uint32_add(a, n)
         /\ uint32_add(a, n) <= download_addr + download_size
<1>1. PICK p \in Slots : p = current_slot BY DEF TypeOK
<1>2. /\ uint32_add(a, n) = a + n
      /\ addr_of_slot(OtherSlot(p)) <= a
      /\ a + n <= addr_of_slot(OtherSlot(p)) + size_of_slot(OtherSlot(p))
  BY <1>1, RangeAllowedInTarget
<1>3. download_addr <= a /\ a + n <= download_addr + download_size
  BY <1>1, <1>2 DEF download_addr, download_size, target_slot
<1>. QED BY <1>2, <1>3, TargetFacts

LEMMA StartDownloadBase ==
  ASSUME BaseInv, [Next]_vars, ota_start_download, UNCHANGED <<bootVars, losses, lastRun>>
  PROVE  BaseInv'
<1>. USE DEF BaseInv
<1>. DEFINE span == ota_flash_erase_span(download_addr, total_size)
<1>1. running \in Images /\ state = "REQUEST_RECEIVED" /\ op = NoOp
  BY DEF ota_start_download, Ready
<1>2. remote \in Images /\ total_size \in 1 .. download_size
  BY <1>1 DEF ManagerInv
<1>3. span \in Nat \ {0} /\ span < WordMod
  <2>1. PICK c \in Nat : c = download_addr + total_size - 1 BY <1>2, TargetFacts
  <2>2. c \in SlotCells(target_slot) BY <1>2, <2>1, TargetFacts
  <2>3. /\ SectorEnd[c] \in Nat /\ c < SectorEnd[c]
        /\ SectorEnd[c] <= addr_of_slot(target_slot) + size_of_slot(target_slot)
    BY <2>2, SectorInSlot, TargetFacts
  <2>4. span = SectorEnd[c] - download_addr BY <2>1 DEF ota_flash_erase_span
  <2>. QED BY <1>2, <2>1, <2>3, <2>4, TargetFacts DEF download_addr, download_size
<1>. DEFINE ok == RangeAllowed(download_addr, span, addr_of_slot(current_slot))
<1>4. CASE ~ok
  <2>1. ota_abort /\ UNCHANGED <<flashVars, running, current_slot>> /\ Ready
    BY <1>4 DEF ota_start_download, flashVars
  <2>. QED BY <2>1, QuietCommandBase
<1>5. CASE ok
  <2>1. op' = Op("erase", download_addr, uint32_add(download_addr, span), Blank)
    BY <1>5 DEF ota_start_download
  <2>. HIDE DEF span
  <2>2. /\ uint32_add(download_addr, span) \in Nat
        /\ download_addr \in SlotCells(target_slot)
        /\ download_addr < uint32_add(download_addr, span)
        /\ uint32_add(download_addr, span) <= download_addr + download_size
    BY <1>3, <1>5, RangeOp, TargetFacts
  <2>3. /\ op' \in [kind : OpKinds, addr : Nat, end : Nat, data : CellVals]
        /\ op'.kind = "erase" /\ op'.addr = download_addr
        /\ op'.end = uint32_add(download_addr, span)
    BY <2>1, <2>2, TargetFacts DEF Op, OpKinds, CellVals
  <2>. USE DEF span
  <2>4. /\ UNCHANGED <<target_slot, download_addr, download_size>>
        /\ state' = "DOWNLOADING" /\ downloaded_size' = 0 /\ download_crc' = 0
        /\ UNCHANGED <<flash, bootInfo, info, running, current_slot, faults, remote, total_size>>
    BY <1>5 DEF ota_start_download, target_slot, download_addr, download_size
  <2>. HIDE DEF span
  <2>5. TypeOK' BY <2>3, <2>4 DEF TypeOK, bootVars, States
  <2>6. OpInv'
    BY <1>1, <2>2, <2>3, <2>4, NoOpType, ImageAssumption DEF OpInv, bootVars, Garbage
  <2>7. ManagerInv'
    BY <1>1, <1>2, <2>4, RunningImageStaysWhole DEF ManagerInv
  <2>. QED BY <2>5, <2>6, <2>7
<1>. QED BY <1>4, <1>5

LEMMA WriteBlockBase ==
  ASSUME BaseInv, [Next]_vars, UNCHANGED <<bootVars, losses, lastRun>>,
         NEW offset \in Offsets, NEW len \in 1 .. MaxLen, NEW d \in Images \cup {Junk},
         ota_write_data_block(offset, len, d)
  PROVE  BaseInv'
<1>. USE DEF BaseInv
<1>1. running \in Images /\ state = "DOWNLOADING" /\ op = NoOp /\ Ready
  BY DEF ota_write_data_block, Ready
<1>2. CASE BlockAccepted(offset, len)
  <2>. DEFINE a == uint32_add(download_addr, offset)
  <2>1. offset \in Nat /\ offset < WordMod /\ len \in Nat \ {0} /\ len < WordMod
    BY BoundsAssumption, LayoutAssumption
  <2>2. a \in Nat /\ a < WordMod BY <2>1, TargetFacts DEF uint32_add
  <2>3. /\ RangeAllowed(a, len, addr_of_slot(current_slot))
        /\ op' = Op("program", a, uint32_add(a, len), d) /\ UNCHANGED managerVars
    BY <1>2 DEF ota_write_data_block, BlockAccepted
  <2>. HIDE DEF a
  <2>4. /\ uint32_add(a, len) \in Nat /\ a \in SlotCells(target_slot)
        /\ a < uint32_add(a, len) /\ uint32_add(a, len) <= download_addr + download_size
    BY <2>1, <2>2, <2>3, RangeOp
  <2>5. d \in CellVals /\ d # Blank BY ImageAssumption DEF CellVals, Garbage
  <2>6. /\ op' \in [kind : OpKinds, addr : Nat, end : Nat, data : CellVals]
        /\ op'.kind = "program" /\ op'.addr = a
        /\ op'.end = uint32_add(a, len) /\ op'.data = d
    BY <2>2, <2>3, <2>4, <2>5 DEF Op, OpKinds
  <2>7. /\ UNCHANGED <<target_slot, download_addr, download_size>>
        /\ UNCHANGED <<flash, bootInfo, info, running, current_slot, faults>>
    BY DEF ota_write_data_block, target_slot, download_addr, download_size
  <2>8. TypeOK' BY <2>3, <2>6, <2>7 DEF TypeOK, bootVars, managerVars
  <2>9. OpInv'
    BY <1>1, <2>3, <2>4, <2>5, <2>6, <2>7, NoOpType, ImageAssumption
       DEF OpInv, bootVars, managerVars, Garbage
  <2>10. ManagerInv'
    BY <1>1, <2>3, <2>7, RunningImageStaysWhole DEF ManagerInv, managerVars
  <2>. QED BY <2>8, <2>9, <2>10
<1>3. CASE ~BlockAccepted(offset, len)
  <2>1. ota_abort /\ UNCHANGED <<flashVars, running, current_slot>>
    BY <1>3 DEF ota_write_data_block, flashVars
  <2>. QED BY <1>1, <2>1, QuietCommandBase
<1>. QED BY <1>2, <1>3

LEMMA PrepareUpdateBase ==
  ASSUME BaseInv, [Next]_vars, ota_prepare_update, UNCHANGED <<bootVars, losses, lastRun>>
  PROVE  BaseInv'
<1>. USE DEF BaseInv
<1>1. /\ running \in Images /\ state = "SUCCESS" /\ state' = "UPDATING"
      /\ op' = Op("info_erase", 0, 0, Blank)
      /\ UNCHANGED <<flash, bootInfo, running, current_slot, remote, total_size,
                     downloaded_size, download_crc, faults>>
      /\ info' = Info(target_slot, remote, downloaded_size)
  BY DEF ota_prepare_update, Ready
<1>2. remote \in Images BY <1>1 DEF ManagerInv
<1>3. info' \in InfoType BY <1>1, <1>2, InfoTypes, TargetFacts DEF TypeOK
<1>4. TypeOK' BY <1>1, <1>3, InfoEraseType DEF TypeOK, States, bootVars
<1>5. OpInv'
  BY <1>1, InfoEraseType, ImageAssumption DEF OpInv, bootVars, Garbage
<1>6. ManagerInv'
  BY <1>1, RunningImageStaysWhole DEF ManagerInv, download_size, target_slot
<1>. QED BY <1>4, <1>5, <1>6

LEMMA EraseSectorBase ==
  ASSUME BaseInv, [Next]_vars, EraseSector, UNCHANGED <<bootVars, losses, lastRun>>
  PROVE  BaseInv'
<1>. USE DEF BaseInv
<1>1. /\ running \in Images /\ op.kind = "erase" /\ UNCHANGED appVars
      /\ UNCHANGED <<bootInfo, info, faults>>
  BY DEF EraseSector, HAL_EraseSector
<1>2. flash' \in [AppCells -> CellVals]
  BY DEF EraseSector, HAL_EraseSector, TypeOK, CellVals
<1>3. /\ op.addr \in SlotCells(target_slot) /\ op.end <= download_addr + download_size
      /\ state = "DOWNLOADING"
  BY <1>1 DEF OpInv
<1>4. /\ SectorEnd[op.addr] \in Nat /\ op.addr < SectorEnd[op.addr]
  BY <1>3, SectorInSlot, TargetFacts
<1>5. UNCHANGED <<target_slot, download_addr, download_size>>
  BY <1>1 DEF appVars, target_slot, download_addr, download_size
<1>6. ManagerInv'
  BY <1>1, <1>5, RunningImageStaysWhole DEF ManagerInv, appVars, managerVars
<1>7. CASE SectorEnd[op.addr] < op.end
  <2>1. OpGoesOn(SectorEnd[op.addr]) BY <1>7 DEF EraseSector
  <2>2. /\ op' \in [kind : OpKinds, addr : Nat, end : Nat, data : CellVals]
        /\ op'.kind = "erase" /\ op'.addr = SectorEnd[op.addr] /\ op'.end = op.end
    BY <1>1, <1>4, <2>1, OpMoves
  <2>3. SectorEnd[op.addr] \in SlotCells(target_slot)
    BY <1>3, <1>4, <1>7, TargetFacts DEF TypeOK
  <2>4. TypeOK' BY <1>1, <1>2, <2>2 DEF TypeOK, appVars, managerVars, bootVars
  <2>5. OpInv'
    BY <1>1, <1>3, <1>5, <1>7, <2>2, <2>3, ImageAssumption
       DEF OpInv, appVars, managerVars, bootVars, Garbage
  <2>. QED BY <1>6, <2>4, <2>5
<1>8. CASE ~(SectorEnd[op.addr] < op.end)
  <2>1. op' = NoOp BY <1>8 DEF EraseSector, OpEnds
  <2>2. TypeOK' BY <1>1, <1>2, <2>1, NoOpType DEF TypeOK, appVars, managerVars, bootVars
  <2>3. OpInv'
    BY <1>1, <1>3, <2>1, NoOpType, ImageAssumption
       DEF OpInv, appVars, managerVars, bootVars, Garbage
  <2>. QED BY <1>6, <2>2, <2>3
<1>. QED BY <1>7, <1>8

LEMMA ProgramCellBase ==
  ASSUME BaseInv, [Next]_vars, ProgramCell, UNCHANGED <<bootVars, losses, lastRun>>
  PROVE  BaseInv'
<1>. USE DEF BaseInv
<1>1. /\ running \in Images /\ op.kind = "program"
      /\ UNCHANGED <<bootInfo, info, faults>>
      /\ UNCHANGED <<running, current_slot, state, remote, total_size>>
  BY DEF ProgramCell, HAL_ProgramCell
<1>2. /\ op.addr \in SlotCells(target_slot) /\ op.end <= download_addr + download_size
      /\ state = "DOWNLOADING" /\ op.data # Blank /\ op.data \in CellVals
  BY <1>1 DEF OpInv, TypeOK
<1>3. flash' \in [AppCells -> CellVals]
  <2>1. PICK v \in Programmed(op.addr, op.data) : flash' = [flash EXCEPT ![op.addr] = v]
    BY DEF ProgramCell, HAL_ProgramCell
  <2>2. v \in CellVals BY <1>2, <2>1 DEF Programmed, GarbageAt, Garbage, CellVals
  <2>. QED BY <2>1, <2>2 DEF TypeOK
<1>4. /\ op.addr \in Nat /\ op.addr + 1 - download_addr \in Nat
      /\ download_crc' \in Nat \cup {Bad} /\ downloaded_size' \in Nat
  BY <1>2, TargetFacts DEF ProgramCell, crc32_update, TypeOK, Bad
<1>5. UNCHANGED <<target_slot, download_addr, download_size>>
  BY <1>1 DEF target_slot, download_addr, download_size
<1>6. ManagerInv' BY <1>1, <1>5, RunningImageStaysWhole DEF ManagerInv
<1>7. CASE op.addr + 1 < op.end
  <2>1. OpGoesOn(op.addr + 1) BY <1>7 DEF ProgramCell
  <2>2. /\ op' \in [kind : OpKinds, addr : Nat, end : Nat, data : CellVals]
        /\ op'.kind = "program" /\ op'.addr = op.addr + 1
        /\ op'.end = op.end /\ op'.data = op.data
    BY <1>1, <1>4, <2>1, OpMoves
  <2>3. op.addr + 1 \in SlotCells(target_slot) BY <1>2, <1>4, <1>7, TargetFacts DEF TypeOK
  <2>4. TypeOK' BY <1>1, <1>3, <1>4, <2>2 DEF TypeOK, bootVars
  <2>5. OpInv'
    BY <1>1, <1>2, <1>5, <1>7, <2>2, <2>3, ImageAssumption DEF OpInv, bootVars, Garbage
  <2>. QED BY <1>6, <2>4, <2>5
<1>8. CASE ~(op.addr + 1 < op.end)
  <2>1. op' = NoOp BY <1>8 DEF ProgramCell, OpEnds
  <2>2. TypeOK' BY <1>1, <1>3, <1>4, <2>1, NoOpType DEF TypeOK, bootVars
  <2>3. OpInv' BY <1>1, <1>2, <2>1, NoOpType, ImageAssumption DEF OpInv, bootVars, Garbage
  <2>. QED BY <1>6, <2>2, <2>3
<1>. QED BY <1>7, <1>8

LEMMA EraseInfoBase ==
  ASSUME BaseInv, [Next]_vars, EraseInfo, UNCHANGED <<bootVars, losses, lastRun>>
  PROVE  BaseInv'
<1>. USE DEF BaseInv
<1>1. /\ running \in Images /\ op.kind = "info_erase" /\ UNCHANGED appVars
      /\ bootInfo' = BlankInfo /\ UNCHANGED <<flash, info, faults>>
      /\ op' = Op("info_program", 1, InfoWords + 1, Blank)
  BY DEF EraseInfo, HAL_EraseInfo
<1>2. TypeOK'
  BY <1>1, InfoTypes, InfoEraseType DEF TypeOK, appVars, managerVars, bootVars
<1>3. OpInv'
  BY <1>1, InfoEraseType, ImageAssumption
     DEF OpInv, appVars, managerVars, bootVars, Garbage, InfoWords
<1>4. ManagerInv'
  BY <1>1, RunningImageStaysWhole
     DEF ManagerInv, appVars, managerVars, download_size, target_slot
<1>. QED BY <1>2, <1>3, <1>4

LEMMA ProgramInfoBase ==
  ASSUME BaseInv, [Next]_vars, ProgramInfo, UNCHANGED <<bootVars, losses, lastRun>>
  PROVE  BaseInv'
<1>. USE DEF BaseInv
<1>1. /\ running \in Images /\ op.kind = "info_program" /\ state = "UPDATING"
      /\ op.addr \in 1 .. InfoWords /\ op.end = InfoWords + 1
      /\ UNCHANGED <<running, current_slot, flash, info, faults>> /\ HAL_ProgramInfo
  BY DEF ProgramInfo, HAL_ProgramInfo, OpInv
<1>2. bootInfo' \in InfoType BY <1>1, ProgramInfoType
<1>3. UNCHANGED <<target_slot, download_addr, download_size>>
  BY <1>1 DEF target_slot, download_addr, download_size
<1>4. CASE op.addr + 1 < op.end
  <2>1. OpGoesOn(op.addr + 1) /\ UNCHANGED managerVars BY <1>4 DEF ProgramInfo
  <2>2. /\ op' \in [kind : OpKinds, addr : Nat, end : Nat, data : CellVals]
        /\ op'.kind = "info_program" /\ op'.addr = op.addr + 1 /\ op'.end = op.end
    BY <1>1, <2>1, OpMoves DEF InfoWords
  <2>3. TypeOK' BY <1>1, <1>2, <2>1, <2>2 DEF TypeOK, managerVars, bootVars
  <2>4. OpInv'
    BY <1>1, <1>4, <2>1, <2>2, ImageAssumption
       DEF OpInv, managerVars, bootVars, Garbage, InfoWords
  <2>5. ManagerInv'
    BY <1>1, <1>3, <2>1, RunningImageStaysWhole DEF ManagerInv, managerVars
  <2>. QED BY <2>3, <2>4, <2>5
<1>5. CASE ~(op.addr + 1 < op.end)
  <2>1. /\ op' = NoOp /\ UNCHANGED <<remote, total_size>>
        /\ state' \in {"COMMITTED", "IDLE"}
        /\ downloaded_size' \in Nat /\ download_crc' \in Nat \cup {Bad}
    BY <1>5 DEF ProgramInfo, OpEnds, ota_abort, TypeOK
  <2>2. TypeOK' BY <1>1, <1>2, <2>1, NoOpType DEF TypeOK, bootVars, States
  <2>3. OpInv' BY <1>1, <2>1, NoOpType, ImageAssumption DEF OpInv, bootVars, Garbage
  <2>4. ManagerInv' BY <1>1, <1>3, <2>1, RunningImageStaysWhole DEF ManagerInv
  <2>. QED BY <2>2, <2>3, <2>4
<1>. QED BY <1>4, <1>5

LEMMA OperationFailsBase ==
  ASSUME BaseInv, [Next]_vars, OperationFails, UNCHANGED <<bootVars, losses, lastRun>>
  PROVE  BaseInv'
<1>. USE DEF BaseInv
<1>1. /\ running \in Images /\ op' = NoOp /\ UNCHANGED <<running, current_slot, info>>
      /\ state' = "IDLE" /\ downloaded_size' = 0 /\ download_crc' = 0
      /\ UNCHANGED <<remote, total_size>> /\ faults' \in 0 .. MaxFaults /\ Interrupted
  BY MaxFaultsAssumption DEF OperationFails, OpEnds, ota_abort, HAL_Fails, TypeOK
<1>2. flash' \in [AppCells -> CellVals] /\ bootInfo' \in InfoType
  BY <1>1, InterruptedEffect
<1>3. TypeOK' BY <1>1, <1>2, NoOpType DEF TypeOK, bootVars, States
<1>4. OpInv' BY <1>1, NoOpType, ImageAssumption DEF OpInv, bootVars, Garbage
<1>5. ManagerInv' BY <1>1, RunningImageStaysWhole DEF ManagerInv
<1>. QED BY <1>3, <1>4, <1>5

-------------------------------------------------------------------------------
(* Resets, and the whole. *)

LEMMA RestartBase ==
  ASSUME BaseInv, SystemReset \/ PowerLoss
  PROVE  BaseInv'
<1>. USE DEF BaseInv
<1>1. /\ Restart /\ flash' \in [AppCells -> CellVals] /\ bootInfo' \in InfoType
      /\ losses' \in 0 .. MaxLosses
  BY InterruptedEffect, BoundsAssumption DEF SystemReset, PowerLoss, TypeOK
<1>2. TypeOK'
  BY <1>1, InfoTypes, NoOpType
     DEF TypeOK, Restart, ManagerReset, States, BootSteps, Slots
<1>3. OpInv' BY <1>1, NoOpType, ImageAssumption DEF OpInv, Restart, Garbage
<1>4. ManagerInv' BY <1>1, ImageAssumption DEF ManagerInv, Restart, ManagerReset
<1>. QED BY <1>2, <1>3, <1>4

LEMMA StutterBase ==
  ASSUME BaseInv, UNCHANGED vars
  PROVE  BaseInv'
BY DEF BaseInv, TypeOK, OpInv, ManagerInv, vars, flashVars, appVars, managerVars, bootVars,
       target_slot, download_addr, download_size, Complete, CrcMatches

LEMMA BaseStep == BaseInv /\ [Next]_vars => BaseInv'
<1>. SUFFICES ASSUME BaseInv, [Next]_vars PROVE BaseInv'
  OBVIOUS
<1>1. CASE Boot
  BY <1>1, BootStepBase, BootSlotBase DEF Boot
<1>2. CASE App /\ Commands
  <2>. DEFINE Rest == UNCHANGED <<bootVars, losses, lastRun>>
  <2>0. Rest BY <1>2 DEF App
  <2>1. ASSUME NEW i \in Images, NEW size \in 0 .. MaxSize,
               ota_handle_push_update_request(i, size)
        PROVE  BaseInv'
    <3>1. Ready /\ UNCHANGED <<flashVars, running, current_slot>> /\ size \in Nat
      BY <2>1 DEF ota_handle_push_update_request
    <3>. QED BY <2>0, <2>1, <3>1, QuietCommandBase
  <2>2. CASE ota_start_download BY <2>0, <2>2, StartDownloadBase
  <2>3. ASSUME NEW offset \in Offsets, NEW len \in 1 .. MaxLen, NEW d \in Images \cup {Junk},
               ota_write_data_block(offset, len, d)
        PROVE  BaseInv'
    BY <2>0, <2>3, WriteBlockBase
  <2>4. CASE MisalignedBlock \/ ClientAborts
    BY <2>0, <2>4, QuietCommandBase DEF MisalignedBlock, ClientAborts
  <2>5. CASE ota_finish_download
    BY <2>0, <2>5, QuietCommandBase DEF ota_finish_download
  <2>6. CASE ota_prepare_update BY <2>0, <2>6, PrepareUpdateBase
  <2>. QED BY <1>2, <2>1, <2>2, <2>3, <2>4, <2>5, <2>6 DEF Commands
<1>3. CASE App /\ FlashSteps
  BY <1>3, EraseSectorBase, ProgramCellBase, EraseInfoBase, ProgramInfoBase,
     OperationFailsBase DEF App, FlashSteps
<1>4. CASE SystemReset \/ PowerLoss BY <1>4, RestartBase
<1>5. CASE UNCHANGED vars BY <1>5, StutterBase
<1>. QED BY <1>1, <1>2, <1>3, <1>4, <1>5 DEF Next, App

(***************************************************************************)
(* The variables of the board keep their types, and the manager's and      *)
(* the bootloader's state stays consistent with the operation in progress. *)
(***************************************************************************)
THEOREM TypeCorrect == Spec => []TypeOK
<1>1. BaseInv => TypeOK BY DEF BaseInv
<1>. QED BY <1>1, InitBase, BaseStep, PTL DEF Spec

(***************************************************************************)
(* Whatever the PC sends, whatever the HAL fails at and whenever the power *)
(* is lost, the running slot is never changed (ota_config.h:28-30).        *)
(***************************************************************************)
THEOREM RunningSlotSafe == Spec => RunningSlotUntouched
<1>1. BaseInv /\ [Next]_vars => [(running \in Images) => SlotUnchanged(current_slot)]_vars
  BY RunningSlotKept
<1>. QED BY <1>1, InitBase, BaseStep, PTL DEF Spec, RunningSlotUntouched

-------------------------------------------------------------------------------
(***************************************************************************)
(* Without HAL failures (MaxFaults = 0) the board starts only whole        *)
(* images and never ends in the bootloader's error loop, however often     *)
(* and wherever the power is lost.  The argument is InfoInv: BootInfo is   *)
(* unreliable only while both slots hold a whole image.                    *)
(*                                                                         *)
(* And an update is atomic: the board runs the image it ran last, or a     *)
(* newer whole one beside it.  To InfoInv the second half adds that what   *)
(* BootInfo and the manager record of an image is true of the flash, and   *)
(* that BootInfo names the old image as long as there is no newer one.     *)
(***************************************************************************)

\* A whole image passes the structural check.
LEMMA CompleteIsBootable ==
  ASSUME NEW s \in Slots, Complete(s)
  PROVE  check_image(s, 0, NoCrc)
<1>1. PICK i \in Images : i.slot = s /\ CrcMatches(s, i.size, i) BY DEF Complete
<1>2. 0 \in 0 .. (i.size - 1) BY <1>1, SlotFacts, ImageAssumption
<1>3. flash[addr_of_slot(s) + 0] = i BY <1>1, <1>2 DEF CrcMatches
<1>4. flash[addr_of_slot(s)] = i BY <1>3, SlotFacts
<1>5. 0 # Blank BY ImageAssumption
<1>. QED BY <1>1, <1>4, <1>5 DEF check_image, StackAndResetOk

\* An image that passes the full check is whole.
LEMMA CheckedIsComplete ==
  ASSUME NEW s \in Slots, NEW n \in Nat \ {0}, NEW i \in Images, check_image(s, n, i)
  PROVE  Complete(s)
<1>1. StackAndResetOk(s) /\ n = i.size /\ CrcMatches(s, n, i)
  BY DEF check_image, CrcMatches
<1>2. 0 \in 0 .. (n - 1) OBVIOUS
<1>3. flash[addr_of_slot(s) + 0] = i BY <1>1, <1>2 DEF CrcMatches
<1>4. flash[addr_of_slot(s)] = i BY <1>3, SlotFacts
<1>5. i.slot = s BY <1>1, <1>4, ImageAssumption DEF StackAndResetOk
<1>. QED BY <1>1, <1>5 DEF Complete

\* What BootInfo says of a slot stays true as long as neither changes.
LEMMA NamesKept ==
  ASSUME NEW s \in Slots, NEW b \in InfoType, SlotUnchanged(s), NamesComplete(b, s)
  PROVE  NamesComplete(b, s)'
<1>1. Complete(s)' /\ flash'[addr_of_slot(s)] = flash[addr_of_slot(s)]
  BY CompleteKept DEF NamesComplete
<1>2. b.size \in Nat \cup {Blank} /\ b.size # Blank
  BY DEF NamesComplete, check_image, InfoType
<1>3. CASE b.size = 0
  BY <1>1, <1>3 DEF NamesComplete, check_image, StackAndResetOk
<1>4. CASE b.size # 0
  <2>1. b.size <= size_of_slot(s) /\ CrcMatches(s, b.size, b.crc)
    BY <1>4 DEF NamesComplete, check_image
  <2>2. \A k \in 0 .. (b.size - 1) : addr_of_slot(s) + k \in SlotCells(s)
    BY <1>2, <2>1, SlotFacts DEF SlotCells
  <2>3. CrcMatches(s, b.size, b.crc)'
    BY <2>1, <2>2 DEF CrcMatches, SlotUnchanged
  <2>. QED BY <1>1, <2>1, <2>3 DEF NamesComplete, check_image, StackAndResetOk
<1>. QED BY <1>3, <1>4

LEMMA BothKept ==
  ASSUME flash' = flash, BothComplete
  PROVE  BothComplete'
BY DEF BothComplete, Complete, CrcMatches

\* BootInfo was programmed up to the word before op.addr.
Words(n) == \A w \in 1 .. InfoWords :
              bootInfo[InfoWord[w]] = IF w < n THEN info[InfoWord[w]] ELSE Blank

LEMMA WordProgrammed ==
  ASSUME TypeOK, NEW n \in 1 .. InfoWords, op.addr = n, Words(n), HAL_ProgramInfo
  PROVE  Words(n + 1)'
<1>1. \A w \in 1 .. InfoWords :
        InfoWord[w] \in {"magic", "boot_app", "crc", "size", "rest"}
  BY DEF InfoWord, InfoWords
<1>2. \A v, w \in 1 .. InfoWords : InfoWord[v] = InfoWord[w] => v = w
  BY DEF InfoWord, InfoWords
<1>3. /\ bootInfo' = [bootInfo EXCEPT ![InfoWord[n]] =
                        InfoProgrammed(bootInfo[InfoWord[n]], info[InfoWord[n]])]
      /\ info' = info
  BY DEF HAL_ProgramInfo
<1>4. InfoProgrammed(bootInfo[InfoWord[n]], info[InfoWord[n]]) = info[InfoWord[n]]
  BY DEF Words, InfoProgrammed
<1>5. DOMAIN bootInfo = {"magic", "boot_app", "crc", "size", "rest"}
  BY DEF TypeOK, InfoType
<1>6. ASSUME NEW w \in 1 .. InfoWords
      PROVE  bootInfo'[InfoWord[w]] = IF w < n + 1 THEN info'[InfoWord[w]] ELSE Blank
  <2>1. CASE w = n BY <1>1, <1>3, <1>4, <1>5, <2>1 DEF InfoWords
  <2>2. CASE w # n
    <3>1. bootInfo'[InfoWord[w]] = bootInfo[InfoWord[w]] BY <1>1, <1>2, <1>3, <1>5, <2>2
    <3>. QED BY <1>3, <2>2, <3>1 DEF Words, InfoWords
  <2>. QED BY <2>1, <2>2
<1>. QED BY <1>6 DEF Words

LEMMA SameWords ==
  ASSUME NEW a \in InfoType, NEW b \in InfoType,
         \A w \in 1 .. InfoWords : a[InfoWord[w]] = b[InfoWord[w]]
  PROVE  a = b
<1>1. /\ a.magic = b.magic /\ a.boot_app = b.boot_app
      /\ a.crc = b.crc /\ a.size = b.size /\ a.rest = b.rest
  BY DEF InfoWord, InfoWords
<1>. QED BY <1>1 DEF InfoType

-------------------------------------------------------------------------------
LEMMA InitSafe == Init => IInv
<1>. SUFFICES ASSUME NEW i \in Images, Shipped(i), bootInfo = DefaultInfo, TypeOK
              PROVE  InfoInv
  BY InitBase DEF Init, IInv, BaseInv
<1>1. /\ OTA_SLOT_APP1 \in Slots /\ Blank # Junk /\ Junk \notin Images
      /\ i.slot = OTA_SLOT_APP1 /\ i.size \in 1 .. size_of_slot(OTA_SLOT_APP1)
  BY ImageAssumption DEF Slots, Garbage, Shipped
<1>2. Complete(OTA_SLOT_APP1)
  <2>1. \A k \in 0 .. (i.size - 1) : /\ APP1_ADDR + k \in AppCells
                                     /\ (APP1_ADDR + k) - APP1_ADDR < i.size
    BY <1>1, SlotFacts, LayoutAssumption
       DEF SlotCells, addr_of_slot, OTA_SLOT_APP1, OTA_SLOT_APP2
  <2>2. \A k \in 0 .. (i.size - 1) : flash[APP1_ADDR + k] = i
    BY <2>1 DEF Shipped
  <2>3. addr_of_slot(OTA_SLOT_APP1) = APP1_ADDR
    BY DEF addr_of_slot, OTA_SLOT_APP1, OTA_SLOT_APP2
  <2>. QED BY <1>1, <2>2, <2>3 DEF Complete, CrcMatches
<1>3. NamesComplete(bootInfo, OTA_SLOT_APP1)
  <2>1. /\ bootInfo.magic = Magic /\ Wanted(bootInfo) = OTA_SLOT_APP1
        /\ bootInfo.size = 0 /\ bootInfo.crc = NoCrc
    BY DEF DefaultInfo, Info, Wanted, OTA_SLOT_APP1, OTA_SLOT_APP2
  <2>. QED BY <1>1, <1>2, <2>1, CompleteIsBootable DEF NamesComplete
<1>4. /\ running = Blank /\ bpc = "read" /\ state = "IDLE" /\ op.kind = "none"
  BY NoOpType DEF Shipped, ManagerInit
<1>. QED BY <1>1, <1>3, <1>4, ImageAssumption DEF InfoInv

\* While BootInfo is valid but its slot does not pass, both slots are whole.
LEMMA ReadFacts ==
  ASSUME IInv, bpc = "check"
  PROVE  /\ want \in Slots /\ alt \in Slots /\ alt # want
         /\ WantBootable => Complete(want) /\ NamesComplete(bootInfo, want)
         /\ ~WantBootable => BothComplete /\ AltBootable
<1>1. /\ local = bootInfo /\ bootInfo.magic = Magic
      /\ BothComplete \/ \E s \in Slots : NamesComplete(bootInfo, s)
  BY DEF IInv, InfoInv
<1>2. want \in Slots /\ alt \in Slots /\ alt # want
  BY DEF want, alt, Wanted, Slots, OtherSlot, OTA_SLOT_APP1, OTA_SLOT_APP2
<1>3. ASSUME NEW s \in Slots, NamesComplete(bootInfo, s)
      PROVE  s = want /\ WantBootable /\ Complete(want)
  BY <1>1, <1>3 DEF NamesComplete, want, WantBootable
<1>4. BothComplete => Complete(want) /\ AltBootable
  BY <1>2, CompleteIsBootable DEF BothComplete, AltBootable
<1>5. WantBootable => Complete(want) /\ NamesComplete(bootInfo, want)
  BY <1>1, <1>3, <1>4 DEF NamesComplete, want, WantBootable
<1>. QED BY <1>1, <1>2, <1>3, <1>4, <1>5

LEMMA BootStepSafe ==
  ASSUME MaxFaults = 0, IInv, BootStep, UNCHANGED <<appVars, losses, lastRun>>, BaseInv'
  PROVE  InfoInv'
<1>. USE DEF IInv
<1>0. /\ running' = running /\ current_slot' = current_slot /\ state' = state
      /\ running \notin Images /\ running # Junk /\ running = Blank /\ bpc # "app"
  BY ImageAssumption
     DEF BootStep, ReadBootInfo, BootEraseInfo, BootProgramInfo, FallBack, NeitherBootable,
         OpInv, InfoInv, appVars, managerVars
<1>1. state \notin {"SUCCESS", "UPDATING", "COMMITTED"}
  BY <1>0, ImageAssumption DEF ManagerInv
<1>2. ~HAL_Fails BY DEF HAL_Fails, TypeOK
<1>3. CASE ReadBootInfo
  <2>0. UNCHANGED <<flash, bootInfo>> /\ op.kind = "none"
    BY <1>3, NoOpType DEF ReadBootInfo, OpInv
  <2>1. CASE bootInfo.magic = Magic
    <3>1. local' = bootInfo /\ bpc' = "check" /\ op' = op
      BY <1>3, <2>1 DEF ReadBootInfo
    <3>2. BothComplete' \/ \E s \in Slots : NamesComplete(bootInfo, s)'
      BY <2>0, BothKept, NamesKept DEF InfoInv, TypeOK, SlotUnchanged, NamesComplete
    <3>. QED BY <1>0, <1>1, <2>0, <2>1, <3>1, <3>2 DEF InfoInv
  <2>2. CASE bootInfo.magic # Magic
    <3>1. BothComplete' BY <2>0, <2>2, BothKept DEF InfoInv, NamesComplete
    <3>2. /\ local' = DefaultInfo /\ bpc' = "default" /\ info' = DefaultInfo
          /\ op'.kind = "info_erase"
      BY <1>3, <2>2, InfoEraseType DEF ReadBootInfo, WriteBootInfo
    <3>. QED BY <1>0, <1>1, <3>1, <3>2 DEF InfoInv
  <2>. QED BY <2>1, <2>2
<1>4. CASE BootEraseInfo
  <2>1. /\ flash' = flash /\ info' = info /\ local' = local /\ bpc' = bpc
        /\ bpc \in {"default", "fixed"} /\ bootInfo' = BlankInfo
        /\ op'.kind = "info_program" /\ op'.addr = 1
    BY <1>2, <1>4, InfoEraseType DEF BootEraseInfo, HAL_EraseInfo, bootVars
  <2>2. BothComplete' BY <2>1, BothKept DEF InfoInv
  <2>3. \A w \in 1 .. InfoWords : bootInfo'[InfoWord[w]] = Blank
    BY <2>1 DEF BlankInfo, InfoWord, InfoWords
  <2>4. alt' = alt BY <2>1 DEF alt, want, Wanted
  <2>. QED BY <1>0, <1>1, <2>1, <2>2, <2>3, <2>4 DEF InfoInv, InfoWords
<1>5. CASE BootProgramInfo
  <2>1. /\ flash' = flash /\ info' = info /\ local' = local
        /\ bpc \in {"default", "fixed"} /\ HAL_ProgramInfo /\ op.kind = "info_program"
        /\ op.addr \in 1 .. InfoWords /\ op.end = InfoWords + 1
    BY <1>2, <1>5 DEF BootProgramInfo, HAL_ProgramInfo, OpInv
  <2>2. BothComplete' BY <2>1, BothKept DEF InfoInv
  <2>3. Words(op.addr) BY <2>1 DEF InfoInv, Words
  <2>4. PICK n \in 1 .. InfoWords : n = op.addr BY <2>1
  <2>5. Words(n + 1)' BY <2>1, <2>3, <2>4, WordProgrammed
  <2>6. alt' = alt BY <2>1 DEF alt, want, Wanted
  <2>7. CASE n + 1 < op.end
    <3>1. op'.kind = "info_program" /\ op'.addr = n + 1 /\ bpc' = bpc
      BY <1>5, <2>1, <2>4, <2>7, OpMoves DEF BootProgramInfo, InfoWords
    <3>. QED BY <1>0, <1>1, <2>1, <2>2, <2>5, <2>6, <3>1 DEF InfoInv, Words
  <2>8. CASE ~(n + 1 < op.end)
    <3>1. op'.kind = "none" /\ bpc' = IF bpc = "default" THEN "check" ELSE "jump"
      BY <1>5, <2>4, <2>8, NoOpType DEF BootProgramInfo, OpEnds
    <3>2. n = InfoWords BY <2>1, <2>8 DEF InfoWords
    <3>3. bootInfo' = info'
      <4>1. \A w \in 1 .. InfoWords : bootInfo'[InfoWord[w]] = info'[InfoWord[w]]
        BY <2>5, <3>2 DEF Words, InfoWords
      <4>. QED BY <4>1, SameWords DEF BaseInv, TypeOK
    <3>4. DefaultInfo.magic = Magic BY DEF DefaultInfo, Info
    <3>. QED BY <1>0, <1>1, <2>1, <2>2, <2>6, <3>1, <3>3, <3>4 DEF InfoInv
  <2>. QED BY <2>7, <2>8
<1>6. CASE FallBack
  <2>1. /\ flash' = flash /\ local' = local /\ bpc' = "fixed" /\ op'.kind = "info_erase"
        /\ info' = Info(alt, NoCrc, 0) /\ bpc = "check" /\ ~WantBootable
    BY <1>6, InfoEraseType DEF FallBack, WriteBootInfo
  <2>2. BothComplete' BY <2>1, ReadFacts, BothKept
  <2>3. alt' = alt BY <2>1 DEF alt, want, Wanted
  <2>. QED BY <1>0, <1>1, <2>1, <2>2, <2>3 DEF InfoInv
<1>7. CASE NeitherBootable
  <2>1. bpc = "check" /\ ~WantBootable /\ ~AltBootable BY <1>7 DEF NeitherBootable
  <2>. QED BY <2>1, ReadFacts
<1>. QED BY <1>3, <1>4, <1>5, <1>6, <1>7 DEF BootStep

LEMMA BootSlotSafe ==
  ASSUME IInv, NEW slot \in Slots, boot_slot(slot), AppStarts(slot), BaseInv'
  PROVE  InfoInv'
<1>. USE DEF IInv
<1>1. /\ UNCHANGED <<flash, bootInfo, op>> /\ bpc' = "app" /\ current_slot' = slot
      /\ state' = "IDLE" /\ op.kind = "none"
  BY NoOpType DEF boot_slot, AppStarts, ManagerReset, OpInv
<1>2. Complete(slot) /\ NamesComplete(bootInfo, slot)
  <2>1. CASE bpc = "check" /\ WantBootable /\ slot = want BY <2>1, ReadFacts
  <2>2. CASE bpc = "jump" /\ slot = alt
    <3>1. Complete(slot) /\ bootInfo = Info(alt, NoCrc, 0)
      BY <2>2 DEF InfoInv, BothComplete
    <3>2. /\ bootInfo.magic = Magic /\ Wanted(bootInfo) = slot
          /\ bootInfo.size = 0 /\ bootInfo.crc = NoCrc
      BY <2>2, <3>1 DEF Info, Wanted, Slots
    <3>. QED BY <3>1, <3>2, CompleteIsBootable DEF NamesComplete
  <2>. QED BY <2>1, <2>2 DEF boot_slot
<1>3. running' \in Images BY <1>2, CompleteStarts DEF AppStarts
<1>4. NamesComplete(bootInfo, slot)'
  BY <1>1, <1>2, NamesKept DEF TypeOK, SlotUnchanged, NamesComplete
<1>. QED BY <1>1, <1>3, <1>4, ImageAssumption DEF InfoInv, NamesComplete

\* A verified download: the target slot is whole.
LEMMA VerifiedIsComplete ==
  ASSUME IInv, Ready, state = "DOWNLOADING", DownloadVerified
  PROVE  BothComplete
<1>1. /\ remote \in Images /\ downloaded_size \in Nat \ {0}
      /\ check_image(target_slot, downloaded_size, remote)
  BY DEF IInv, TypeOK, ManagerInv, DownloadVerified
<1>2. Complete(target_slot)
  BY <1>1, CheckedIsComplete, TargetFacts DEF IInv
<1>3. Complete(current_slot) BY DEF IInv, ManagerInv, Ready
<1>4. \A s \in Slots : s = current_slot \/ s = target_slot
  BY DEF Slots, target_slot, OtherSlot, IInv, TypeOK
<1>. QED BY <1>2, <1>3, <1>4 DEF BothComplete

\* Before the commit BootInfo names the running slot, and stays as it is.
LEMMA BeforeCommitSafe ==
  ASSUME IInv, BaseInv', [Next]_vars, running \in Images, bootInfo' = bootInfo,
         UNCHANGED <<running, current_slot, bootVars>>,
         state \notin {"UPDATING", "COMMITTED"},
         state' \in {"SUCCESS", "UPDATING", "COMMITTED"} => BothComplete',
         op'.kind # "info_program"
  PROVE  InfoInv'
<1>1. PICK s \in Slots, b \in InfoType : s = current_slot /\ b = bootInfo
  BY DEF IInv, TypeOK
<1>2. SlotUnchanged(s) BY <1>1, RunningSlotKept DEF IInv, BaseInv
<1>3. NamesComplete(b, s) BY <1>1 DEF IInv, InfoInv
<1>4. NamesComplete(b, s)' BY <1>2, <1>3, NamesKept
<1>5. NamesComplete(bootInfo, current_slot)'
  BY <1>1, <1>4 DEF NamesComplete
<1>6. bpc' = "app" /\ running' # Junk
  BY BootloaderIsOver, ImageAssumption DEF IInv, BaseInv, bootVars
<1>. QED BY <1>1, <1>5, <1>6 DEF InfoInv, NamesComplete

\* While BootInfo is rewritten both slots are whole, and stay so.
LEMMA CommitSafe ==
  ASSUME IInv, running \in Images, flash' = flash,
         UNCHANGED <<running, current_slot, bootVars>>,
         state = "UPDATING", state' \in {"UPDATING", "COMMITTED"},
         op'.kind = "info_program" => Words(op.addr)'
  PROVE  InfoInv'
<1>1. BothComplete' BY BothKept DEF IInv, InfoInv
<1>2. bpc' = "app" /\ running' # Junk
  BY BootloaderIsOver, ImageAssumption DEF IInv, BaseInv, bootVars
<1>. QED BY <1>1, <1>2 DEF InfoInv, Words

LEMMA AppSafe ==
  ASSUME MaxFaults = 0, IInv, BaseInv', App
  PROVE  InfoInv'
<1>. USE DEF IInv
<1>. DEFINE Quiet == UNCHANGED <<bootVars, running, current_slot, bootInfo>>
<1>0. [Next]_vars /\ UNCHANGED bootVars BY DEF Next, App
<1>1. CASE \E i \in Images, size \in 0 .. MaxSize : ota_handle_push_update_request(i, size)
  <2>1. /\ running \in Images /\ Quiet /\ op'.kind = "none" /\ state = "IDLE"
        /\ state' = "REQUEST_RECEIVED"
    BY <1>0, <1>1, NoOpType
       DEF ota_handle_push_update_request, Ready, PushRefused, flashVars
  <2>. QED BY <1>0, <2>1, BeforeCommitSafe
<1>2. CASE ota_start_download
  <2>1. /\ running \in Images /\ Quiet /\ op'.kind # "info_program"
        /\ state = "REQUEST_RECEIVED" /\ state' \in {"DOWNLOADING", "IDLE"}
    BY <1>0, <1>2, NoOpType DEF ota_start_download, Ready, Op, ota_abort
  <2>. QED BY <1>0, <2>1, BeforeCommitSafe
<1>3. CASE \E offset \in Offsets, len \in 1 .. MaxLen, d \in Images \cup {Junk} :
             ota_write_data_block(offset, len, d)
  <2>1. PICK offset \in Offsets, len \in 1 .. MaxLen, d \in Images \cup {Junk} :
          ota_write_data_block(offset, len, d)
    BY <1>3
  <2>2. /\ running \in Images /\ Quiet /\ op'.kind # "info_program"
        /\ state = "DOWNLOADING" /\ state' \in {"DOWNLOADING", "IDLE"}
    BY <1>0, <2>1, NoOpType DEF ota_write_data_block, Ready, Op, ota_abort, managerVars
  <2>. QED BY <1>0, <2>2, BeforeCommitSafe
<1>4. CASE MisalignedBlock
  <2>1. /\ running \in Images /\ Quiet /\ op'.kind # "info_program"
        /\ state = "DOWNLOADING" /\ state' = "IDLE"
    BY <1>0, <1>4, NoOpType DEF MisalignedBlock, Ready, ota_abort, flashVars
  <2>. QED BY <1>0, <2>1, BeforeCommitSafe
<1>5. CASE ota_finish_download
  <2>1. /\ running \in Images /\ Quiet /\ op'.kind # "info_program" /\ flash' = flash
        /\ state = "DOWNLOADING" /\ state' \in {"SUCCESS", "IDLE"}
        /\ DownloadVerified \/ state' = "IDLE"
    BY <1>0, <1>5, NoOpType DEF ota_finish_download, Ready, ota_abort, flashVars
  <2>2. state' # "IDLE" => BothComplete'
    BY <1>5, <2>1, VerifiedIsComplete, BothKept DEF ota_finish_download
  <2>. QED BY <1>0, <2>1, <2>2, BeforeCommitSafe
<1>6. CASE ota_prepare_update
  <2>1. /\ running \in Images /\ Quiet /\ op'.kind # "info_program" /\ flash' = flash
        /\ state = "SUCCESS"
    BY <1>0, <1>6, InfoEraseType DEF ota_prepare_update, Ready
  <2>2. BothComplete' BY <2>1, BothKept DEF InfoInv
  <2>. QED BY <1>0, <2>1, <2>2, BeforeCommitSafe
<1>7. CASE ClientAborts
  <2>1. /\ running \in Images /\ op'.kind # "info_program" /\ op.kind = "none"
        /\ Quiet /\ state # "COMMITTED" /\ state' = "IDLE"
    BY <1>0, <1>7, NoOpType DEF ClientAborts, Ready, ota_abort, flashVars
  <2>2. state # "UPDATING" BY <2>1 DEF OpInv
  <2>. QED BY <1>0, <2>1, <2>2, BeforeCommitSafe
<1>8. CASE EraseSector
  <2>1. /\ running \in Images /\ Quiet /\ op'.kind # "info_program"
        /\ state = "DOWNLOADING" /\ state' = "DOWNLOADING"
    BY <1>0, <1>8, NoOpType
       DEF EraseSector, HAL_EraseSector, OpGoesOn, OpEnds, appVars, managerVars, OpInv, TypeOK
  <2>. QED BY <1>0, <2>1, BeforeCommitSafe
<1>9. CASE ProgramCell
  <2>1. /\ running \in Images /\ Quiet /\ op'.kind # "info_program"
        /\ state = "DOWNLOADING" /\ state' = "DOWNLOADING"
    BY <1>0, <1>9, NoOpType
       DEF ProgramCell, HAL_ProgramCell, OpGoesOn, OpEnds, OpInv, TypeOK
  <2>. QED BY <1>0, <2>1, BeforeCommitSafe
<1>10. CASE EraseInfo
  <2>1. /\ running \in Images /\ UNCHANGED <<running, current_slot, bootVars, flash, state>>
        /\ state = "UPDATING" /\ bootInfo' = BlankInfo /\ op'.addr = 1
    BY <1>0, <1>10, InfoEraseType
       DEF EraseInfo, HAL_EraseInfo, appVars, managerVars, OpInv
  <2>2. Words(op.addr)'
    BY <2>1 DEF Words, BlankInfo, InfoWord, InfoWords
  <2>. QED BY <2>1, <2>2, CommitSafe
<1>11. CASE ProgramInfo
  <2>1. /\ running \in Images /\ UNCHANGED <<running, current_slot, bootVars, flash>>
        /\ state = "UPDATING" /\ HAL_ProgramInfo /\ op.kind = "info_program"
        /\ op.addr \in 1 .. InfoWords /\ op.end = InfoWords + 1 /\ info' = info
    BY <1>0, <1>11 DEF ProgramInfo, HAL_ProgramInfo, OpInv
  <2>2. PICK n \in 1 .. InfoWords : n = op.addr BY <2>1
  <2>3. Words(n + 1)' BY <2>1, <2>2, WordProgrammed DEF InfoInv, Words
  <2>4. CASE n + 1 < op.end
    <3>1. op'.addr = n + 1 /\ state' = state
      BY <1>11, <2>2, <2>4, OpMoves DEF ProgramInfo, managerVars, InfoWords
    <3>2. Words(op.addr)' BY <2>3, <3>1 DEF Words
    <3>. QED BY <2>1, <3>1, <3>2, CommitSafe
  <2>5. CASE ~(n + 1 < op.end)
    <3>1. n = InfoWords BY <2>1, <2>5 DEF InfoWords
    <3>2. bootInfo' = info'
      <4>1. \A w \in 1 .. InfoWords : bootInfo'[InfoWord[w]] = info'[InfoWord[w]]
        BY <2>3, <3>1 DEF Words, InfoWords
      <4>. QED BY <4>1, SameWords DEF BaseInv, TypeOK
    <3>3. op'.kind = "none" /\ state' = "COMMITTED"
      BY <1>11, <2>1, <2>2, <2>5, <3>2, NoOpType DEF ProgramInfo, OpEnds
    <3>. QED BY <2>1, <3>3, CommitSafe
  <2>. QED BY <2>4, <2>5
<1>12. ~OperationFails BY DEF OperationFails, HAL_Fails, TypeOK
<1>. QED BY <1>1, <1>2, <1>3, <1>4, <1>5, <1>6, <1>7, <1>8, <1>9, <1>10, <1>11, <1>12
         DEF App, Commands, FlashSteps

\* Wherever the power is lost, a slot that can be booted is still named, or both are.
LEMMA RestartSafe ==
  ASSUME IInv, SystemReset \/ PowerLoss
  PROVE  InfoInv'
<1>. USE DEF IInv
<1>1. /\ bpc' = "read" /\ running' = Blank /\ state' = "IDLE" /\ op'.kind = "none"
  BY NoOpType DEF SystemReset, PowerLoss, Restart, ManagerReset
<1>2. BothComplete' \/ \E s \in Slots : NamesComplete(bootInfo, s)'
  <2>1. CASE flash' = flash /\ BothComplete BY <2>1, BothKept
  <2>2. CASE bootInfo' = bootInfo /\ running \in Images
             /\ state \notin {"UPDATING", "COMMITTED"}
    <3>1. [Next]_vars BY DEF Next
    <3>2. PICK s \in Slots, b \in InfoType : s = current_slot /\ b = bootInfo
      BY DEF TypeOK
    <3>3. SlotUnchanged(s) BY <2>2, <3>1, <3>2, RunningSlotKept DEF BaseInv
    <3>4. NamesComplete(b, s) BY <2>2, <3>2 DEF InfoInv
    <3>5. NamesComplete(b, s)' BY <3>3, <3>4, NamesKept
    <3>. QED BY <2>2, <3>2, <3>5 DEF NamesComplete
  <2>3. CASE flash' = flash /\ bootInfo' = bootInfo
    <3>1. CASE BothComplete BY <2>3, <3>1, BothKept
    <3>2. ASSUME NEW s \in Slots, NamesComplete(bootInfo, s)
          PROVE  NamesComplete(bootInfo, s)'
      <4>1. PICK b \in InfoType : b = bootInfo BY DEF TypeOK
      <4>2. NamesComplete(b, s)' BY <2>3, <3>2, <4>1, NamesKept DEF SlotUnchanged
      <4>. QED BY <2>3, <4>1, <4>2 DEF NamesComplete
    <3>. QED BY <3>1, <3>2 DEF InfoInv
  <2>4. CASE SystemReset BY <2>3, <2>4 DEF SystemReset
  <2>5. CASE PowerLoss
    <3>1. Interrupted BY <2>5 DEF PowerLoss
    <3>2. CASE op.kind \in {"erase", "program"}
      BY <2>2, <3>1, <3>2, InterruptedEffect DEF OpInv
    <3>3. CASE op.kind = "info_erase" \/ op.kind = "info_program"
      <4>1. flash' = flash BY <3>1, <3>3, InterruptedEffect
      <4>2. running \in Images => state = "UPDATING" BY <3>3 DEF OpInv
      <4>3. running \notin Images => bpc \in {"default", "fixed"}
        BY <3>3, NoOpType DEF OpInv, TypeOK, BootSteps, InfoInv
      <4>. QED BY <2>1, <4>1, <4>2, <4>3 DEF InfoInv
    <3>4. CASE op.kind = "none"
      BY <2>3, <3>1, <3>4 DEF Interrupted
    <3>. QED BY <3>2, <3>3, <3>4 DEF TypeOK, OpKinds
  <2>. QED BY <2>4, <2>5
<1>. QED BY <1>1, <1>2, ImageAssumption DEF InfoInv, Garbage

LEMMA SafeStep ==
  ASSUME MaxFaults = 0
  PROVE  IInv /\ [Next]_vars => IInv'
<1>. SUFFICES ASSUME IInv, [Next]_vars PROVE IInv'
  OBVIOUS
<1>1. BaseInv' BY BaseStep DEF IInv, BaseInv
<1>2. InfoInv'
  <2>1. CASE Boot BY <1>1, <2>1, BootStepSafe, BootSlotSafe DEF Boot
  <2>2. CASE App BY <1>1, <2>2, AppSafe
  <2>3. CASE SystemReset \/ PowerLoss BY <2>3, RestartSafe
  <2>4. CASE UNCHANGED vars
    <3>1. InfoInv BY DEF IInv
    <3>. QED
      BY <2>4, <3>1
         DEF InfoInv, BothComplete, NamesComplete, Complete, CrcMatches, check_image,
             StackAndResetOk, Wanted, alt, want, vars, flashVars, appVars, managerVars, bootVars
  <2>. QED BY <2>1, <2>2, <2>3, <2>4 DEF Next
<1>. QED BY <1>1, <1>2 DEF IInv, BaseInv

(***************************************************************************)
(* With no HAL failure, the bootloader never passes control to a slot that *)
(* does not hold a whole image, wherever the power is lost, and it always  *)
(* finds one to start.                                                     *)
(***************************************************************************)
THEOREM StartsOnlyWholeImages ==
  ASSUME MaxFaults = 0
  PROVE  Spec => [](BootsOnlyComplete /\ NeverBricked)
<1>1. IInv => BootsOnlyComplete /\ NeverBricked
  BY DEF IInv, InfoInv, BootsOnlyComplete, NeverBricked
<1>. QED BY <1>1, InitSafe, SafeStep, PTL DEF Spec

(***************************************************************************)
(* With no HAL failure a slot that can be booted is booted: the board      *)
(* never ends blinking, even when a power loss tore the BootInfo.          *)
(***************************************************************************)
THEOREM AlwaysFindsASlot ==
  ASSUME MaxFaults = 0
  PROVE  Spec => []NeverBricked
<1>1. IInv => NeverBricked BY DEF IInv, InfoInv, NeverBricked
<1>. QED BY <1>1, InitSafe, SafeStep, PTL DEF Spec

-------------------------------------------------------------------------------
(* Atomic updates. *)

\* A CRC that is recorded with a slot and a size is that slot's.
Recorded(b) ==
  b.boot_app \in Slots /\ b.crc \in Images /\ b.size \notin {0, Blank}
  => CrcMatches(b.boot_app, b.size, b.crc)

RecordInv ==
  /\ Recorded(bootInfo)
  /\ op.kind \in {"info_erase", "info_program"} => Recorded(info)

\* A verified image stays in the target slot until it has been committed.
TargetInv ==
  state \in {"SUCCESS", "UPDATING", "COMMITTED"} =>
    downloaded_size # 0 /\ CrcMatches(target_slot, downloaded_size, remote)

\* The image that ran last is still there, and only a newer one is downloaded.
LastInv ==
  /\ Complete(lastRun.slot) /\ Stored(lastRun.slot) = lastRun
  /\ running \in Images => lastRun = running
  /\ state # "IDLE" => remote.version > lastRun.version

\* Unless there is a newer image the bootloader is sent to the one that ran last.
NamedInv ==
  running = Blank /\ NewerImage = Blank =>
    NamesComplete(bootInfo, lastRun.slot) /\ bpc \notin {"default", "fixed", "jump"}

UpdateInv == IInv /\ RecordInv /\ TargetInv /\ LastInv /\ NamedInv

-------------------------------------------------------------------------------
(* Lemmas about one state. *)

\* The image a whole slot starts with is the one it holds.
LEMMA StoredImage ==
  ASSUME NEW s \in Slots, Complete(s)
  PROVE  /\ Stored(s) \in Images /\ Stored(s).slot = s
         /\ CrcMatches(s, Stored(s).size, Stored(s))
<1>1. PICK i \in Images : i.slot = s /\ CrcMatches(s, i.size, i) BY DEF Complete
<1>2. i.size \in Nat \ {0} BY <1>1, SlotFacts, ImageAssumption
<1>3. 0 \in 0 .. (i.size - 1) BY <1>2
<1>4. flash[addr_of_slot(s) + 0] = i BY <1>1, <1>3 DEF CrcMatches
<1>5. Stored(s) = i BY <1>4, SlotFacts DEF Stored
<1>. QED BY <1>1, <1>5

\* A slot that matches the CRC of an image linked for it holds that image.
LEMMA MatchIsComplete ==
  ASSUME NEW s \in Slots, NEW n, NEW i \in Images, n # 0, CrcMatches(s, n, i),
         StackAndResetOk(s)
  PROVE  Complete(s) /\ Stored(s) = i
<1>1. n = i.size /\ n \in Nat \ {0} BY SlotFacts, ImageAssumption DEF CrcMatches
<1>2. 0 \in 0 .. (n - 1) BY <1>1
<1>3. flash[addr_of_slot(s) + 0] = i BY <1>2 DEF CrcMatches
<1>4. flash[addr_of_slot(s)] = i BY <1>3, SlotFacts
<1>5. i.slot = s BY <1>4, ImageAssumption DEF StackAndResetOk
<1>. QED BY <1>1, <1>4, <1>5 DEF Complete, Stored

LEMMA NewerFacts ==
  TypeOK =>
    /\ OtherSlot(lastRun.slot) \in Slots
    /\ \/ NewerImage = Blank
       \/ /\ NewerImage \in Images /\ NewerImage.version > lastRun.version
          /\ Complete(OtherSlot(lastRun.slot))
          /\ Stored(OtherSlot(lastRun.slot)) = NewerImage
<1>. SUFFICES ASSUME TypeOK
              PROVE  /\ OtherSlot(lastRun.slot) \in Slots
                     /\ NewerImage # Blank =>
                          /\ NewerImage \in Images /\ NewerImage.version > lastRun.version
                          /\ Complete(OtherSlot(lastRun.slot))
                          /\ Stored(OtherSlot(lastRun.slot)) = NewerImage
  OBVIOUS
<1>1. lastRun.slot \in Slots BY ImageAssumption DEF TypeOK
<1>2. OtherSlot(lastRun.slot) \in Slots BY <1>1, SlotFacts
<1>3. ASSUME NewerImage # Blank
      PROVE  /\ Complete(OtherSlot(lastRun.slot))
             /\ Stored(OtherSlot(lastRun.slot)) = NewerImage
             /\ NewerImage.version > lastRun.version
  BY <1>3 DEF NewerImage
<1>. QED BY <1>2, <1>3, StoredImage

\* What the bootloader would check of a slot is what is recorded of it.
LEMMA NamedIsRecorded ==
  (\E s \in Slots : NamesComplete(bootInfo, s)) => Recorded(bootInfo)
BY DEF NamesComplete, Recorded, Wanted, check_image, Slots, OTA_SLOT_APP1, OTA_SLOT_APP2

\* The slot of the running image is the one that ran last.
LEMMA RunningIsLast ==
  UpdateInv =>
    /\ lastRun.slot \in Slots
    /\ running \in Images \cup {Blank} /\ Blank \notin Images
    /\ (IF running = Blank THEN lastRun ELSE running) = lastRun
    /\ running \in Images => /\ lastRun = running /\ current_slot = lastRun.slot
                             /\ target_slot = OtherSlot(lastRun.slot)
    /\ running = Blank => state = "IDLE"
<1>. SUFFICES ASSUME UpdateInv
              PROVE  /\ lastRun.slot \in Slots
                     /\ running \in Images \cup {Blank} /\ Blank \notin Images
                     /\ running \in Images => /\ lastRun = running
                                              /\ current_slot = lastRun.slot
                     /\ running = Blank => state = "IDLE"
  BY DEF target_slot
<1>1. /\ running \in Images \cup {Blank} /\ Blank \notin Images /\ current_slot \in Slots
      /\ lastRun.slot \in Slots
  BY ImageAssumption DEF UpdateInv, IInv, InfoInv, TypeOK
<1>2. running = Blank => state = "IDLE"
  BY ImageAssumption DEF UpdateInv, IInv, ManagerInv
<1>3. ASSUME running \in Images
      PROVE  lastRun = running /\ current_slot = lastRun.slot
  <2>1. Complete(current_slot) /\ Stored(current_slot) = running
    BY <1>3 DEF UpdateInv, IInv, ManagerInv, Stored
  <2>2. lastRun = running BY <1>3 DEF UpdateInv, LastInv
  <2>. QED BY <1>1, <2>1, <2>2, StoredImage
<1>. QED BY <1>1, <1>2, <1>3

\* A verified image is the newer image of the abstract specification.
LEMMA VerifiedIsNewer ==
  ASSUME UpdateInv, state \in {"SUCCESS", "UPDATING", "COMMITTED"}
  PROVE  NewerImage = remote /\ remote \in Images
<1>1. /\ running \in Images /\ remote \in Images /\ BothComplete
      /\ remote.version > lastRun.version
      /\ downloaded_size # 0 /\ CrcMatches(target_slot, downloaded_size, remote)
  BY DEF UpdateInv, IInv, ManagerInv, InfoInv, TargetInv, LastInv
<1>2. /\ target_slot = OtherSlot(lastRun.slot) /\ target_slot \in Slots
  BY <1>1, RunningIsLast, SlotFacts
<1>3. Complete(target_slot) BY <1>1, <1>2 DEF BothComplete
<1>4. StackAndResetOk(target_slot)
  BY <1>2, <1>3, CompleteIsBootable DEF check_image
<1>5. Stored(target_slot) = remote BY <1>1, <1>2, <1>4, MatchIsComplete
<1>. QED BY <1>1, <1>2, <1>3, <1>5 DEF NewerImage

-------------------------------------------------------------------------------
LEMMA InitUpdate == Init => UpdateInv /\ NewerImage = Blank
<1>. SUFFICES ASSUME NEW i \in Images, Shipped(i), bootInfo = DefaultInfo, IInv
              PROVE  UpdateInv /\ NewerImage = Blank
  BY InitSafe DEF Init
<1>1. /\ OTA_SLOT_APP1 \in Slots /\ OTA_SLOT_APP2 \in Slots /\ Blank \notin Images
      /\ OtherSlot(OTA_SLOT_APP1) = OTA_SLOT_APP2
      /\ i.slot = OTA_SLOT_APP1 /\ i.size \in 1 .. APP1_SIZE /\ lastRun = i
      /\ running = Blank /\ bpc = "read" /\ state = "IDLE" /\ op.kind = "none"
  BY ImageAssumption, NoOpType
     DEF Slots, Shipped, ManagerInit, size_of_slot, OtherSlot, OTA_SLOT_APP1, OTA_SLOT_APP2
<1>2. ~BothComplete /\ NewerImage = Blank
  <2>1. /\ addr_of_slot(OTA_SLOT_APP2) = APP2_ADDR /\ APP2_ADDR \in AppCells
        /\ ~(APP2_ADDR - APP1_ADDR < i.size)
    BY <1>1, SlotFacts, LayoutAssumption DEF addr_of_slot, OTA_SLOT_APP2
  <2>2. flash[APP2_ADDR] = Blank BY <2>1 DEF Shipped
  <2>3. ~Complete(OTA_SLOT_APP2) BY <1>1, <2>1, <2>2, StoredImage DEF Stored
  <2>. QED BY <1>1, <2>3 DEF BothComplete, NewerImage
<1>3. /\ NamesComplete(bootInfo, OTA_SLOT_APP1) /\ bootInfo.crc \notin Images
      /\ flash[APP1_ADDR] = i
  <2>1. /\ Wanted(bootInfo) = OTA_SLOT_APP1 /\ bootInfo.crc \notin Images
    BY ImageAssumption DEF DefaultInfo, Info, Wanted, OTA_SLOT_APP1, OTA_SLOT_APP2
  <2>2. PICK s \in Slots : NamesComplete(bootInfo, s)
    BY <1>2 DEF IInv, InfoInv
  <2>3. s = OTA_SLOT_APP1 BY <2>1, <2>2 DEF NamesComplete
  <2>4. /\ APP1_ADDR \in AppCells /\ APP1_ADDR - APP1_ADDR < i.size
    BY <1>1, SlotFacts, LayoutAssumption DEF addr_of_slot, OTA_SLOT_APP1, OTA_SLOT_APP2
  <2>5. flash[APP1_ADDR] = i BY <2>4 DEF Shipped
  <2>. QED BY <2>1, <2>2, <2>3, <2>5
<1>4. Complete(OTA_SLOT_APP1) /\ Stored(OTA_SLOT_APP1) = lastRun
  BY <1>1, <1>3 DEF NamesComplete, Stored, addr_of_slot, OTA_SLOT_APP1, OTA_SLOT_APP2
<1>. QED
  BY <1>1, <1>2, <1>3, <1>4 DEF UpdateInv, RecordInv, Recorded, TargetInv, LastInv, NamedInv

-------------------------------------------------------------------------------
(* What is recorded stays true: RecordInv and TargetInv. *)

LEMMA RecordKept ==
  ASSUME NEW b, flash' = flash, Recorded(b)
  PROVE  Recorded(b)'
BY DEF Recorded, CrcMatches

\* Programming, and a torn erase, leave each word of BootInfo as it is to be or blank.
LEMMA PartlyRecorded ==
  ASSUME NEW a, NEW b, Recorded(a),
         b.boot_app \in {a.boot_app, Blank}, b.crc \in {a.crc, Blank},
         b.size \in {a.size, Blank}
  PROVE  Recorded(b)
BY ImageAssumption DEF Recorded, Slots, OTA_SLOT_APP1, OTA_SLOT_APP2

\* A record without a CRC says nothing.
LEMMA NoCrcRecords ==
  ASSUME NEW b, b.crc \in {NoCrc, Blank}
  PROVE  Recorded(b)
BY ImageAssumption DEF Recorded

\* The words programmed so far are those of info.
LEMMA WordsArePartly ==
  ASSUME NEW b \in InfoType, NEW a \in InfoType,
         \A w \in 1 .. InfoWords : b[InfoWord[w]] \in {a[InfoWord[w]], Blank}
  PROVE  /\ b.boot_app \in {a.boot_app, Blank} /\ b.crc \in {a.crc, Blank}
         /\ b.size \in {a.size, Blank}
<1>1. /\ 2 \in 1 .. InfoWords /\ 3 \in 1 .. InfoWords /\ 4 \in 1 .. InfoWords
      /\ InfoWord[2] = "boot_app" /\ InfoWord[3] = "crc" /\ InfoWord[4] = "size"
  BY DEF InfoWord, InfoWords
<1>. QED BY <1>1

\* While an application runs and nothing is being committed, BootInfo names its slot.
LEMMA RunningIsRecorded ==
  IInv /\ running \in Images /\ state \notin {"UPDATING", "COMMITTED"} => RecordInv
<1>. SUFFICES ASSUME IInv, running \in Images, state \notin {"UPDATING", "COMMITTED"}
              PROVE  RecordInv
  OBVIOUS
<1>1. NamesComplete(bootInfo, current_slot) /\ current_slot \in Slots
  BY DEF IInv, InfoInv, TypeOK
<1>2. op.kind \notin {"info_erase", "info_program"} BY DEF IInv, OpInv
<1>. QED BY <1>1, <1>2, NamedIsRecorded DEF RecordInv

\* A download that is verified matches what was announced.
LEMMA VerifiedMatches ==
  ASSUME TypeOK, ManagerInv, state = "DOWNLOADING", DownloadVerified
  PROVE  downloaded_size # 0 /\ CrcMatches(target_slot, downloaded_size, remote)
BY DEF TypeOK, ManagerInv, DownloadVerified, check_image

\* What a step of the application does to the manager.
LEMMA AppMoves ==
  ASSUME MaxFaults = 0, IInv, App
  PROVE  /\ running \in Images /\ running' = running
         /\ UNCHANGED <<current_slot, lastRun, bootVars>> /\ target_slot' = target_slot
         /\ state' # "IDLE" => \/ state # "IDLE" /\ remote' = remote
                               \/ remote' \in Images /\ remote'.version > running.version
         /\ state' \in {"SUCCESS", "UPDATING", "COMMITTED"} =>
              /\ UNCHANGED <<flash, remote, downloaded_size>>
              /\ \/ state \in {"SUCCESS", "UPDATING", "COMMITTED"}
                 \/ state = "DOWNLOADING" /\ DownloadVerified
         /\ state' \in {"UPDATING", "COMMITTED"} =>
              ota_prepare_update \/ EraseInfo \/ ProgramInfo
<1>. USE DEF IInv
<1>. DEFINE Moves ==
       /\ running \in Images /\ running' = running /\ current_slot' = current_slot
       /\ state' # "IDLE" => \/ state # "IDLE" /\ remote' = remote
                             \/ remote' \in Images /\ remote'.version > running.version
       /\ state' \in {"SUCCESS", "UPDATING", "COMMITTED"} =>
            /\ UNCHANGED <<flash, remote, downloaded_size>>
            /\ \/ state \in {"SUCCESS", "UPDATING", "COMMITTED"}
               \/ state = "DOWNLOADING" /\ DownloadVerified
       /\ state' \in {"UPDATING", "COMMITTED"} =>
            ota_prepare_update \/ EraseInfo \/ ProgramInfo
<1>. SUFFICES Moves
  <2>. UNCHANGED <<lastRun, bootVars>> BY DEF App
  <2>. QED BY DEF target_slot
<1>1. ASSUME NEW i \in Images, NEW size \in 0 .. MaxSize,
             ota_handle_push_update_request(i, size)
      PROVE  Moves
  <2>1. /\ running \in Images /\ ~(i.version <= running.version)
        /\ state' = "REQUEST_RECEIVED" /\ remote' = i
        /\ UNCHANGED <<running, current_slot>>
    BY <1>1 DEF ota_handle_push_update_request, Ready, PushRefused
  <2>2. i.version > running.version BY <2>1, ImageAssumption
  <2>. QED BY <2>1, <2>2
<1>2. CASE ota_start_download
  BY <1>2 DEF ota_start_download, Ready, ota_abort
<1>3. ASSUME NEW offset \in Offsets, NEW len \in 1 .. MaxLen,
             NEW d \in Images \cup {Junk}, ota_write_data_block(offset, len, d)
      PROVE  Moves
  BY <1>3 DEF ota_write_data_block, Ready, ota_abort, managerVars
<1>4. CASE MisalignedBlock \/ ClientAborts
  BY <1>4 DEF MisalignedBlock, ClientAborts, Ready, ota_abort, flashVars
<1>5. CASE ota_finish_download
  BY <1>5 DEF ota_finish_download, Ready, ota_abort, flashVars
<1>6. CASE ota_prepare_update BY <1>6 DEF ota_prepare_update, Ready
<1>7. CASE EraseSector
  BY <1>7 DEF EraseSector, OpInv, appVars, managerVars
<1>8. CASE ProgramCell BY <1>8 DEF ProgramCell, OpInv
<1>9. CASE EraseInfo
  BY <1>9 DEF EraseInfo, HAL_EraseInfo, OpInv, appVars, managerVars
<1>10. CASE ProgramInfo
  <2>1. /\ running \in Images /\ state = "UPDATING" /\ flash' = flash
        /\ UNCHANGED <<running, current_slot>>
    BY <1>10 DEF ProgramInfo, HAL_ProgramInfo, OpInv
  <2>2. /\ UNCHANGED remote
        /\ state' # "IDLE" => UNCHANGED downloaded_size
    BY <1>10 DEF ProgramInfo, managerVars, ota_abort
  <2>. QED BY <1>10, <2>1, <2>2
<1>11. ~OperationFails BY DEF OperationFails, HAL_Fails, TypeOK
<1>. HIDE DEF Moves
<1>. QED
  BY <1>1, <1>2, <1>3, <1>4, <1>5, <1>6, <1>7, <1>8, <1>9, <1>10, <1>11
     DEF App, Commands, FlashSteps

LEMMA AppTargetKept ==
  ASSUME MaxFaults = 0, UpdateInv, App
  PROVE  TargetInv'
<1>. SUFFICES ASSUME state' \in {"SUCCESS", "UPDATING", "COMMITTED"}
              PROVE  /\ downloaded_size' # 0
                     /\ CrcMatches(target_slot, downloaded_size, remote)'
  BY DEF TargetInv
<1>1. /\ UNCHANGED <<flash, remote, downloaded_size>> /\ target_slot' = target_slot
      /\ \/ state \in {"SUCCESS", "UPDATING", "COMMITTED"}
         \/ state = "DOWNLOADING" /\ DownloadVerified
  BY AppMoves DEF UpdateInv
<1>2. downloaded_size # 0 /\ CrcMatches(target_slot, downloaded_size, remote)
  BY <1>1, VerifiedMatches DEF UpdateInv, TargetInv, IInv
<1>. QED BY <1>1, <1>2 DEF CrcMatches

\* The commit writes what was verified, word by word.
LEMMA CommitRecorded ==
  ASSUME UpdateInv, IInv', ota_prepare_update \/ EraseInfo \/ ProgramInfo
  PROVE  RecordInv'
<1>. USE DEF UpdateInv, IInv
<1>1. CASE ota_prepare_update
  <2>1. /\ flash' = flash /\ bootInfo' = bootInfo
        /\ info' = Info(target_slot, remote, downloaded_size)
        /\ CrcMatches(target_slot, downloaded_size, remote)
    BY <1>1 DEF ota_prepare_update, TargetInv
  <2>2. Recorded(info)' BY <2>1 DEF Recorded, CrcMatches, Info
  <2>3. Recorded(bootInfo)' BY <2>1 DEF Recorded, CrcMatches, RecordInv
  <2>. QED BY <2>2, <2>3 DEF RecordInv
<1>2. CASE EraseInfo
  <2>1. flash' = flash /\ info' = info /\ bootInfo' = BlankInfo /\ Recorded(info)
    BY <1>2 DEF EraseInfo, HAL_EraseInfo, RecordInv
  <2>2. Recorded(info)' BY <2>1 DEF Recorded, CrcMatches
  <2>3. Recorded(bootInfo)' BY <2>1, ImageAssumption DEF Recorded, BlankInfo
  <2>. QED BY <2>2, <2>3 DEF RecordInv
<1>3. CASE ProgramInfo
  <2>1. /\ flash' = flash /\ info' = info /\ Recorded(info) /\ HAL_ProgramInfo
        /\ op.kind = "info_program" /\ op.addr \in 1 .. InfoWords
    BY <1>3 DEF ProgramInfo, HAL_ProgramInfo, RecordInv, OpInv
  <2>2. PICK n \in 1 .. InfoWords : n = op.addr BY <2>1
  <2>3. Words(n) BY <2>1, <2>2 DEF InfoInv, Words
  <2>4. Words(n + 1)' BY <2>1, <2>2, <2>3, WordProgrammed
  <2>5. \A w \in 1 .. InfoWords : bootInfo'[InfoWord[w]] \in {info'[InfoWord[w]], Blank}
    BY <2>4 DEF Words
  <2>6. PICK a \in InfoType, b \in InfoType : a = info' /\ b = bootInfo'
    BY DEF TypeOK
  <2>7. /\ b.boot_app \in {a.boot_app, Blank} /\ b.crc \in {a.crc, Blank}
        /\ b.size \in {a.size, Blank}
    BY <2>5, <2>6, WordsArePartly
  <2>8. Recorded(info)' BY <2>1 DEF Recorded, CrcMatches
  <2>9. Recorded(bootInfo)'
    BY <2>6, <2>7, <2>8, ImageAssumption DEF Recorded, Slots, OTA_SLOT_APP1, OTA_SLOT_APP2
  <2>. QED BY <2>8, <2>9 DEF RecordInv
<1>. QED BY <1>1, <1>2, <1>3

LEMMA AppUpdate ==
  ASSUME MaxFaults = 0, UpdateInv, App, IInv'
  PROVE  UpdateInv'
<1>. USE DEF UpdateInv
<1>1. /\ running \in Images /\ running' = running /\ UNCHANGED <<current_slot, lastRun>>
  BY AppMoves
<1>2. RecordInv'
  <2>1. CASE state' \in {"UPDATING", "COMMITTED"} BY <2>1, AppMoves, CommitRecorded
  <2>2. CASE state' \notin {"UPDATING", "COMMITTED"}
    <3>1. (IInv /\ running \in Images /\ state \notin {"UPDATING", "COMMITTED"}
             => RecordInv)'
      BY RunningIsRecorded, PTL
    <3>. QED BY <1>1, <2>2, <3>1
  <2>. QED BY <2>1, <2>2
<1>3. LastInv'
  <2>1. /\ lastRun = running /\ current_slot = lastRun.slot /\ lastRun.slot \in Slots
    BY <1>1, RunningIsLast
  <2>2. SlotUnchanged(lastRun.slot)
    BY <1>1, <2>1, RunningSlotKept DEF IInv, BaseInv, Next
  <2>3. PICK s \in Slots : s = lastRun.slot BY <2>1
  <2>4. Complete(s)' /\ flash'[addr_of_slot(s)] = flash[addr_of_slot(s)]
    BY <2>2, <2>3, CompleteKept DEF LastInv
  <2>5. Complete(lastRun.slot)' /\ Stored(lastRun.slot)' = lastRun'
    BY <1>1, <2>3, <2>4 DEF LastInv, Stored, Complete, CrcMatches
  <2>6. state' # "IDLE" => remote'.version > lastRun'.version
    BY <1>1, <2>1, AppMoves DEF LastInv
  <2>. QED BY <1>1, <2>1, <2>5, <2>6 DEF LastInv
<1>4. NamedInv' BY <1>1, ImageAssumption DEF NamedInv
<1>. QED BY <1>2, <1>3, <1>4, AppTargetKept

-------------------------------------------------------------------------------
(* The bootloader. *)

\* The flash cells are not the bootloader's business.
LEMMA FlashStays ==
  ASSUME flash' = flash, lastRun' = lastRun
  PROVE  /\ NewerImage' = NewerImage
         /\ Complete(lastRun.slot) => Complete(lastRun.slot)'
         /\ Stored(lastRun.slot)' = Stored(lastRun.slot)
         /\ bootInfo' = bootInfo /\ NamesComplete(bootInfo, lastRun.slot)
              => NamesComplete(bootInfo, lastRun.slot)'
         /\ bootInfo' = bootInfo /\ Recorded(bootInfo) => Recorded(bootInfo)'
<1>. USE DEF Complete, CrcMatches
<1>1. \A s : (Stored(s))' = Stored(s) /\ (Complete(s))' = Complete(s)
  BY DEF Stored
<1>2. NewerImage' = NewerImage BY DEF NewerImage, Stored
<1>3. bootInfo' = bootInfo /\ NamesComplete(bootInfo, lastRun.slot)
        => NamesComplete(bootInfo, lastRun.slot)'
  BY DEF NamesComplete, check_image, StackAndResetOk, Wanted
<1>4. bootInfo' = bootInfo /\ Recorded(bootInfo) => Recorded(bootInfo)'
  BY DEF Recorded
<1>. QED BY <1>1, <1>2, <1>3, <1>4

\* The bootloader's own record carries no CRC.
LEMMA BootRecordsNothing ==
  ASSUME IInv, bpc \in {"default", "fixed", "jump"}
  PROVE  info.crc = NoCrc
BY DEF IInv, InfoInv, DefaultInfo, Info

LEMMA BootStepEffect ==
  ASSUME MaxFaults = 0, UpdateInv, BootStep, IInv'
  PROVE  /\ flash' = flash /\ running = Blank /\ bpc # "app"
         /\ RecordInv'
         /\ ~(bpc \in {"default", "fixed", "jump"}) /\ NewerImage = Blank =>
              bootInfo' = bootInfo /\ bpc' \notin {"default", "fixed", "jump"}
<1>. USE DEF UpdateInv, IInv
<1>0. ~HAL_Fails BY DEF HAL_Fails, TypeOK
<1>1. running = Blank /\ bpc # "app"
  BY ImageAssumption
     DEF BootStep, ReadBootInfo, BootEraseInfo, BootProgramInfo, FallBack, NeitherBootable,
         OpInv, InfoInv
<1>2. NewerImage = Blank => /\ NamesComplete(bootInfo, lastRun.slot) /\ lastRun.slot \in Slots
                            /\ bpc \notin {"default", "fixed", "jump"}
  BY <1>1, RunningIsLast DEF NamedInv
<1>3. CASE ReadBootInfo
  <2>1. flash' = flash /\ bootInfo' = bootInfo /\ op.kind = "none"
    BY <1>3, NoOpType DEF ReadBootInfo, OpInv
  <2>2. Recorded(bootInfo)' BY <2>1 DEF RecordInv, Recorded, CrcMatches
  <2>3. op'.kind \in {"info_erase", "info_program"} => Recorded(info)'
    BY <1>3, <2>1, ImageAssumption DEF ReadBootInfo, WriteBootInfo, DefaultInfo, Info, Recorded
  <2>4. NewerImage = Blank => bpc' = "check"
    BY <1>2, <1>3 DEF ReadBootInfo, NamesComplete
  <2>. QED BY <1>1, <2>1, <2>2, <2>3, <2>4 DEF RecordInv
<1>4. CASE BootEraseInfo
  <2>1. /\ flash' = flash /\ info' = info /\ bootInfo' = BlankInfo
        /\ bpc \in {"default", "fixed"}
    BY <1>0, <1>4 DEF BootEraseInfo, HAL_EraseInfo
  <2>2. info.crc = NoCrc BY <2>1, BootRecordsNothing
  <2>3. RecordInv' BY <2>1, <2>2, ImageAssumption DEF RecordInv, Recorded, BlankInfo
  <2>. QED BY <1>1, <1>2, <2>1, <2>3
<1>5. CASE BootProgramInfo
  <2>1. /\ flash' = flash /\ info' = info /\ HAL_ProgramInfo /\ op.kind = "info_program"
        /\ op.addr \in 1 .. InfoWords /\ bpc \in {"default", "fixed"}
    BY <1>0, <1>5 DEF BootProgramInfo, HAL_ProgramInfo, OpInv
  <2>2. info.crc = NoCrc BY <2>1, BootRecordsNothing
  <2>3. PICK n \in 1 .. InfoWords : n = op.addr BY <2>1
  <2>4. Words(n) BY <2>1, <2>3 DEF InfoInv, Words
  <2>5. Words(n + 1)' BY <2>1, <2>3, <2>4, WordProgrammed
  <2>6. 3 \in 1 .. InfoWords /\ InfoWord[3] = "crc" BY DEF InfoWord, InfoWords
  <2>7. bootInfo'.crc \in {info'.crc, Blank} BY <2>5, <2>6 DEF Words
  <2>8. RecordInv' BY <2>1, <2>2, <2>7, ImageAssumption DEF RecordInv, Recorded
  <2>. QED BY <1>1, <1>2, <2>1, <2>8
<1>6. CASE FallBack
  <2>1. /\ flash' = flash /\ bootInfo' = bootInfo /\ info'.crc = NoCrc /\ bpc = "check"
        /\ ~WantBootable
    BY <1>6 DEF FallBack, WriteBootInfo, Info
  <2>2. RecordInv' BY <2>1, ImageAssumption DEF RecordInv, Recorded, CrcMatches
  <2>3. NewerImage # Blank
    BY <1>2, <2>1 DEF InfoInv, NamesComplete, want, WantBootable
  <2>. QED BY <1>1, <2>1, <2>2, <2>3
<1>7. CASE NeitherBootable
  <2>1. bpc' = "fatal" BY <1>7 DEF NeitherBootable
  <2>. QED BY <2>1 DEF InfoInv
<1>. QED BY <1>3, <1>4, <1>5, <1>6, <1>7 DEF BootStep

LEMMA BootStepUpdate ==
  ASSUME MaxFaults = 0, UpdateInv, BootStep, UNCHANGED <<appVars, losses, lastRun>>, IInv'
  PROVE  UpdateInv' /\ NewerImage' = NewerImage /\ running = Blank
<1>. USE DEF UpdateInv
<1>1. /\ flash' = flash /\ running = Blank /\ RecordInv'
      /\ UNCHANGED <<running, current_slot, state, remote, downloaded_size, lastRun>>
  BY BootStepEffect DEF appVars, managerVars
<1>2. /\ NewerImage' = NewerImage
      /\ Complete(lastRun.slot) => Complete(lastRun.slot)'
      /\ Stored(lastRun.slot)' = Stored(lastRun.slot)
  BY <1>1, FlashStays
<1>3. state = "IDLE" /\ Blank \notin Images BY <1>1, RunningIsLast
<1>4. TargetInv' BY <1>1, <1>3 DEF TargetInv
<1>5. LastInv' BY <1>1, <1>2, <1>3 DEF LastInv
<1>6. NamedInv'
  <2>. SUFFICES ASSUME NewerImage = Blank
                PROVE  /\ NamesComplete(bootInfo, lastRun.slot)'
                       /\ bpc' \notin {"default", "fixed", "jump"}
    BY <1>2 DEF NamedInv
  <2>1. NamesComplete(bootInfo, lastRun.slot) /\ bpc \notin {"default", "fixed", "jump"}
    BY <1>1 DEF NamedInv
  <2>2. bootInfo' = bootInfo /\ bpc' \notin {"default", "fixed", "jump"}
    BY <2>1, BootStepEffect
  <2>. QED BY <1>1, <2>1, <2>2, FlashStays
<1>. QED BY <1>1, <1>2, <1>4, <1>5, <1>6

\* The bootloader starts the image that ran last, or the newer one.
LEMMA StartEffect ==
  ASSUME UpdateInv, NEW slot \in Slots, boot_slot(slot), AppStarts(slot), IInv'
  PROVE  /\ flash' = flash /\ running = Blank /\ running' \in Images
         /\ lastRun' = running' /\ state' = "IDLE"
         /\ Complete(slot) /\ lastRun' = Stored(slot) /\ lastRun'.slot = slot
         /\ \/ lastRun' = lastRun /\ slot = lastRun.slot
            \/ /\ NewerImage \in Images /\ lastRun' = NewerImage
               /\ NewerImage.version > lastRun.version
               /\ slot = OtherSlot(lastRun.slot)
<1>. USE DEF UpdateInv, IInv
<1>1. /\ flash' = flash /\ state' = "IDLE" /\ Blank \notin Images /\ running = Blank
      /\ lastRun.slot \in Slots
  BY RunningIsLast, ImageAssumption DEF boot_slot, AppStarts, ManagerReset, OpInv
<1>2. Complete(slot)
  <2>1. CASE bpc = "check" /\ WantBootable /\ slot = want BY <2>1, ReadFacts
  <2>2. CASE bpc = "jump" BY <2>2 DEF InfoInv, BothComplete
  <2>. QED BY <2>1, <2>2 DEF boot_slot
<1>3. /\ running' = Stored(slot) /\ lastRun' = Stored(slot)
      /\ Stored(slot) \in Images /\ Stored(slot).slot = slot
  BY <1>2, StoredImage DEF AppStarts, Stored
<1>4. CASE slot = lastRun.slot BY <1>1, <1>2, <1>3, <1>4 DEF LastInv
<1>5. CASE slot # lastRun.slot
  <2>1. slot = OtherSlot(lastRun.slot) BY <1>1, <1>5 DEF Slots, OtherSlot
  <2>2. NewerImage # Blank
    <3>. SUFFICES ASSUME NewerImage = Blank PROVE FALSE OBVIOUS
    <3>1. NamesComplete(bootInfo, lastRun.slot) /\ bpc # "jump" BY <1>1 DEF NamedInv
    <3>2. bpc = "check" /\ slot = want /\ local = bootInfo
      BY <3>1 DEF boot_slot, InfoInv
    <3>. QED BY <1>5, <3>1, <3>2 DEF NamesComplete, want
  <2>. QED BY <1>1, <1>2, <1>3, <2>1, <2>2, NewerFacts
<1>. QED BY <1>4, <1>5

\* Once the newer image has been started no image is newer.
LEMMA StartNewer ==
  ASSUME UpdateInv, NEW slot \in Slots, boot_slot(slot), AppStarts(slot), IInv'
  PROVE  NewerImage' = IF lastRun' = lastRun THEN NewerImage ELSE Blank
<1>1. CASE lastRun' = lastRun BY <1>1, StartEffect, FlashStays
<1>2. CASE lastRun' # lastRun
  <2>1. /\ flash' = flash /\ lastRun'.slot = slot /\ slot = OtherSlot(lastRun.slot)
        /\ lastRun'.version > lastRun.version
    BY <1>2, StartEffect
  <2>2. lastRun.slot \in Slots /\ OtherSlot(slot) = lastRun.slot
    BY <2>1, RunningIsLast, SlotFacts
  <2>3. Stored(lastRun.slot) = lastRun BY DEF UpdateInv, LastInv
  <2>4. flash'[addr_of_slot(OtherSlot(lastRun'.slot))] = lastRun
    BY <2>1, <2>2, <2>3 DEF Stored
  <2>5. lastRun.version \in Nat /\ lastRun'.version \in Nat
    BY ImageAssumption DEF UpdateInv, IInv, TypeOK
  <2>6. ~(lastRun.version > lastRun'.version) BY <2>1, <2>5
  <2>. QED BY <1>2, <2>4, <2>6 DEF NewerImage, Stored
<1>. QED BY <1>1, <1>2

LEMMA StartUpdate ==
  ASSUME UpdateInv, NEW slot \in Slots, boot_slot(slot), AppStarts(slot), IInv'
  PROVE  UpdateInv'
<1>1. /\ running' \in Images /\ state' = "IDLE" /\ Blank \notin Images
      /\ flash' = flash /\ lastRun' = running' /\ Complete(slot)
      /\ lastRun' = Stored(slot) /\ lastRun'.slot = slot
  BY StartEffect, ImageAssumption
<1>2. RecordInv'
  <2>1. (IInv /\ running \in Images /\ state \notin {"UPDATING", "COMMITTED"} => RecordInv)'
    BY RunningIsRecorded, PTL
  <2>. QED BY <1>1, <2>1
<1>3. TargetInv' BY <1>1 DEF TargetInv
<1>4. LastInv'
  <2>1. Complete(lastRun.slot)' /\ Stored(lastRun.slot)' = lastRun'
    BY <1>1 DEF Stored, Complete, CrcMatches
  <2>. QED BY <1>1, <2>1 DEF LastInv
<1>5. NamedInv' BY <1>1 DEF NamedInv
<1>. QED BY <1>2, <1>3, <1>4, <1>5 DEF UpdateInv

-------------------------------------------------------------------------------
(* Resets. *)

\* What an operation cut short leaves behind is not an image, unless it was there.
LEMMA InterruptedImages ==
  ASSUME TypeOK, OpInv, Interrupted
  PROVE  \A c \in AppCells : flash'[c] \in Images => flash'[c] = flash[c]
<1>0. Blank \notin Images /\ Garbage \cap Images = {} BY ImageAssumption DEF Garbage
<1>1. CASE op.kind = "erase"
  <2>1. PICK part \in SUBSET Sector(op.addr), lost \in SUBSET Sector(op.addr) :
          \E g \in [lost -> Garbage] :
            flash' = [c \in AppCells |-> IF c \in lost THEN g[c]
                                         ELSE IF c \in part THEN Blank ELSE flash[c]]
    BY <1>1 DEF Interrupted
  <2>2. PICK g \in [lost -> Garbage] :
          flash' = [c \in AppCells |-> IF c \in lost THEN g[c]
                                       ELSE IF c \in part THEN Blank ELSE flash[c]]
    BY <2>1
  <2>. QED BY <1>0, <2>2
<1>2. CASE op.kind = "program"
  <2>1. PICK v \in GarbageAt(op.addr) \cup {flash[op.addr]} :
          flash' = [flash EXCEPT ![op.addr] = v]
    BY <1>2 DEF Interrupted
  <2>2. v \in Garbage \/ v = flash[op.addr] BY <2>1 DEF GarbageAt, Garbage
  <2>. QED BY <1>0, <2>1, <2>2 DEF TypeOK
<1>3. CASE op.kind \notin {"erase", "program"} BY <1>3, InterruptedEffect
<1>. QED BY <1>1, <1>2, <1>3

\* So a power loss can destroy the newer image, and make none.
LEMMA NewerImageLost ==
  ASSUME UpdateInv, Interrupted, lastRun' = lastRun
  PROVE  NewerImage' \in {NewerImage, Blank}
<1>. SUFFICES ASSUME NewerImage' # Blank PROVE NewerImage' = NewerImage
  OBVIOUS
<1>1. lastRun.slot \in Slots BY RunningIsLast
<1>2. PICK s \in Slots : s = OtherSlot(lastRun.slot) BY <1>1, SlotFacts
<1>3. /\ Complete(s)' /\ flash'[addr_of_slot(s)].version > lastRun.version
      /\ NewerImage' = flash'[addr_of_slot(s)]
  BY <1>2 DEF NewerImage, Stored, Complete, CrcMatches
<1>4. PICK i \in Images : /\ i.slot = s
                          /\ \A k \in 0 .. (i.size - 1) : flash'[addr_of_slot(s) + k] = i
  BY <1>3 DEF Complete, CrcMatches
<1>5. i.size \in 1 .. size_of_slot(s) BY <1>4, ImageAssumption
<1>6. ASSUME NEW k \in 0 .. (i.size - 1)
      PROVE  flash[addr_of_slot(s) + k] = i /\ flash'[addr_of_slot(s) + k] = i
  <2>1. addr_of_slot(s) + k \in AppCells BY <1>5, SlotFacts DEF SlotCells
  <2>2. flash'[addr_of_slot(s) + k] = i BY <1>4
  <2>. QED BY <2>1, <2>2, InterruptedImages DEF UpdateInv, IInv
<1>7. Complete(s) BY <1>4, <1>6 DEF Complete, CrcMatches
<1>8. 0 \in 0 .. (i.size - 1) /\ addr_of_slot(s) + 0 = addr_of_slot(s) BY <1>5, SlotFacts
<1>9. Stored(s) = i /\ flash'[addr_of_slot(s)] = i BY <1>6, <1>8 DEF Stored
<1>. QED BY <1>2, <1>3, <1>7, <1>9 DEF NewerImage

\* A reset or a power loss, by what was going on.
LEMMA RestartEffect ==
  ASSUME UpdateInv, SystemReset \/ PowerLoss
  PROVE  /\ lastRun' = lastRun
         /\ \/ UNCHANGED <<flash, bootInfo>>
            \/ flash' = flash /\ bootInfo' \in TornInfo /\ op.kind = "info_erase"
            \/ bootInfo' = bootInfo /\ running \in Images /\ state = "DOWNLOADING"
<1>. USE DEF UpdateInv, IInv
<1>1. lastRun' = lastRun BY DEF SystemReset, PowerLoss, Restart
<1>2. CASE SystemReset BY <1>1, <1>2 DEF SystemReset
<1>3. CASE PowerLoss
  <2>1. Interrupted BY <1>3 DEF PowerLoss
  <2>2. CASE op.kind \in {"erase", "program"}
    BY <1>1, <2>1, <2>2 DEF Interrupted, OpInv
  <2>3. CASE op.kind \notin {"erase", "program"}
    BY <1>1, <2>1, <2>3 DEF Interrupted
  <2>. QED BY <2>2, <2>3
<1>. QED BY <1>2, <1>3

LEMMA RestartUpdate ==
  ASSUME UpdateInv, SystemReset \/ PowerLoss
  PROVE  RecordInv' /\ TargetInv' /\ LastInv' /\ NamedInv'
<1>. USE DEF UpdateInv, IInv
<1>1. /\ bpc' = "read" /\ running' = Blank /\ state' = "IDLE" /\ op'.kind = "none"
      /\ lastRun' = lastRun /\ Blank \notin Images
  BY NoOpType, ImageAssumption DEF SystemReset, PowerLoss, Restart, ManagerReset
<1>2. PICK s \in Slots, b \in InfoType : s = lastRun.slot /\ b = bootInfo
  BY RunningIsLast DEF TypeOK
<1>3. SlotUnchanged(s)
  <2>1. CASE running \in Images
    BY <1>2, <2>1, RunningIsLast, RunningSlotKept DEF BaseInv, Next
  <2>2. CASE running \notin Images BY <2>2, RestartEffect DEF SlotUnchanged
  <2>. QED BY <2>1, <2>2
<1>4. LastInv'
  <2>1. Complete(s)' /\ flash'[addr_of_slot(s)] = flash[addr_of_slot(s)]
    BY <1>2, <1>3, CompleteKept DEF LastInv
  <2>2. Complete(lastRun.slot)' /\ Stored(lastRun.slot)' = lastRun'
    BY <1>1, <1>2, <2>1 DEF LastInv, Stored, Complete, CrcMatches
  <2>. QED BY <1>1, <2>2 DEF LastInv
<1>5. TargetInv' BY <1>1 DEF TargetInv
<1>6. ASSUME bootInfo' = bootInfo, NamesComplete(bootInfo, s)
      PROVE  NamesComplete(bootInfo, s)'
  <2>1. NamesComplete(b, s)' BY <1>2, <1>3, <1>6, NamesKept
  <2>. QED BY <1>2, <1>6, <2>1 DEF NamesComplete
<1>7. Recorded(bootInfo)'
  <2>1. CASE UNCHANGED <<flash, bootInfo>> BY <2>1 DEF RecordInv, Recorded, CrcMatches
  <2>2. CASE flash' = flash /\ bootInfo' \in TornInfo
    <3>1. /\ bootInfo'.boot_app \in {b.boot_app, Blank} /\ bootInfo'.crc \in {b.crc, Blank}
          /\ bootInfo'.size \in {b.size, Blank} /\ Recorded(b)
      BY <1>2, <2>2 DEF TornInfo, RecordInv
    <3>2. Recorded(b)' BY <2>2, <3>1, RecordKept
    <3>. QED BY <3>1, <3>2, ImageAssumption DEF Recorded, Slots, OTA_SLOT_APP1, OTA_SLOT_APP2
  <2>3. CASE bootInfo' = bootInfo /\ running \in Images /\ state = "DOWNLOADING"
    <3>1. NamesComplete(bootInfo, s) BY <1>2, <2>3, RunningIsLast DEF InfoInv
    <3>2. NamesComplete(bootInfo, s)' BY <1>6, <2>3, <3>1
    <3>. QED
      BY <3>2 DEF NamesComplete, Recorded, Wanted, check_image, Slots,
                  OTA_SLOT_APP1, OTA_SLOT_APP2
  <2>. QED BY <2>1, <2>2, <2>3, RestartEffect
<1>8. NamedInv'
  <2>. SUFFICES ASSUME NewerImage' = Blank PROVE NamesComplete(bootInfo, s)'
    BY <1>1, <1>2 DEF NamedInv, NamesComplete, Complete, CrcMatches, check_image, StackAndResetOk
  <2>1. CASE running = Blank
    <3>1. flash' = flash BY <1>1, <2>1, RestartEffect
    <3>2. NewerImage = Blank BY <1>1, <3>1, FlashStays
    <3>3. NamesComplete(bootInfo, s) /\ bpc \in {"read", "check"}
      BY <1>2, <2>1, <3>2 DEF NamedInv, TypeOK, BootSteps, InfoInv, OpInv
    <3>4. op.kind # "info_erase" BY <3>3, NoOpType DEF OpInv
    <3>5. bootInfo' = bootInfo BY <3>4, RestartEffect
    <3>. QED BY <1>6, <3>3, <3>5
  <2>2. CASE running \in Images /\ state \in {"SUCCESS", "UPDATING", "COMMITTED"}
    <3>1. flash' = flash BY <2>2, RestartEffect
    <3>2. NewerImage # Blank BY <1>1, <2>2, VerifiedIsNewer
    <3>. QED BY <1>1, <3>1, <3>2, FlashStays
  <2>3. CASE running \in Images /\ state \notin {"SUCCESS", "UPDATING", "COMMITTED"}
    <3>1. NamesComplete(bootInfo, s) BY <1>2, <2>3, RunningIsLast DEF InfoInv
    <3>2. op.kind # "info_erase" BY <2>3 DEF OpInv
    <3>. QED BY <1>6, <3>1, <3>2, RestartEffect
  <2>. QED BY <2>1, <2>2, <2>3, RunningIsLast
<1>. QED BY <1>1, <1>4, <1>5, <1>7, <1>8 DEF RecordInv

-------------------------------------------------------------------------------
LEMMA UpdateStep ==
  ASSUME MaxFaults = 0
  PROVE  UpdateInv /\ [Next]_vars => UpdateInv'
<1>. SUFFICES ASSUME UpdateInv, [Next]_vars PROVE UpdateInv'
  OBVIOUS
<1>1. IInv' BY SafeStep DEF UpdateInv
<1>2. CASE Boot BY <1>1, <1>2, BootStepUpdate, StartUpdate DEF Boot
<1>3. CASE App BY <1>1, <1>3, AppUpdate
<1>4. CASE SystemReset \/ PowerLoss BY <1>1, <1>4, RestartUpdate DEF UpdateInv
<1>5. CASE UNCHANGED vars
  <2>1. UNCHANGED <<flash, bootInfo, op, info, running, current_slot, state, remote,
                    downloaded_size, bpc, lastRun>>
    BY <1>5 DEF vars, flashVars, appVars, managerVars, bootVars
  <2>2. RecordInv' BY <2>1 DEF UpdateInv, RecordInv, Recorded, CrcMatches
  <2>3. TargetInv' BY <2>1 DEF UpdateInv, TargetInv, CrcMatches, target_slot
  <2>4. LastInv' BY <2>1, FlashStays DEF UpdateInv, LastInv
  <2>5. NamedInv' BY <2>1, FlashStays DEF UpdateInv, NamedInv
  <2>. QED BY <1>1, <2>2, <2>3, <2>4, <2>5 DEF UpdateInv
<1>. QED BY <1>2, <1>3, <1>4, <1>5 DEF Next

(***************************************************************************)
(* A BootInfo that records a CRC names a slot holding exactly that image,  *)
(* whatever was torn, overwritten or aborted before.                       *)
(***************************************************************************)
THEOREM RecordsAreTrue ==
  ASSUME MaxFaults = 0
  PROVE  Spec => []RecordedImageIsThere
<1>1. UpdateInv => RecordedImageIsThere
  BY DEF UpdateInv, RecordInv, Recorded, RecordedImageIsThere
<1>. QED BY <1>1, InitUpdate, UpdateStep, PTL DEF Spec

\* Only a start of the application changes what ran last.
LEMMA LastRunStep ==
  ASSUME MaxFaults = 0, UpdateInv, [Next]_vars
  PROVE  lastRun'.version >= lastRun.version
<1>1. IInv' BY SafeStep DEF UpdateInv
<1>2. lastRun.version \in Nat BY ImageAssumption DEF UpdateInv, IInv, TypeOK
<1>3. ASSUME NEW slot \in Slots, boot_slot(slot), AppStarts(slot)
      PROVE  lastRun'.version >= lastRun.version
  <2>1. \/ lastRun' = lastRun
        \/ lastRun' = NewerImage /\ NewerImage \in Images
           /\ NewerImage.version > lastRun.version
    BY <1>1, <1>3, StartEffect
  <2>2. NewerImage \in Images => NewerImage.version \in Nat BY ImageAssumption
  <2>. QED BY <1>2, <2>1, <2>2
<1>4. CASE lastRun' = lastRun BY <1>2, <1>4
<1>. QED
  BY <1>3, <1>4 DEF Next, Boot, App, SystemReset, PowerLoss, Restart, vars

(***************************************************************************)
(* Across resets, torn BootInfo and fallbacks included, the board never    *)
(* goes back to an image older than the one that ran last.                 *)
(***************************************************************************)
THEOREM NeverOlder ==
  ASSUME MaxFaults = 0
  PROVE  Spec => NoDowngrade
<1>1. UpdateInv /\ [Next]_vars => [lastRun'.version >= lastRun.version]_vars
  BY LastRunStep
<1>. QED BY <1>1, InitUpdate, UpdateStep, PTL DEF Spec, NoDowngrade

-------------------------------------------------------------------------------
(* The refinement: each step of the board is a step of AtomicUpdate, or none. *)

LEMMA StepIsAtomic ==
  ASSUME MaxFaults = 0, UpdateInv, UpdateInv', [Next]_vars
  PROVE  [Update!Next]_(Update!abstractVars)
<1>. DEFINE current == IF running = Blank THEN lastRun ELSE running
            up == running # Blank
<1>1. current = lastRun /\ current' = lastRun'
  <2>1. (UpdateInv =>
    /\ lastRun.slot \in Slots
    /\ running \in Images \cup {Blank} /\ Blank \notin Images
    /\ (IF running = Blank THEN lastRun ELSE running) = lastRun
    /\ running \in Images => /\ lastRun = running /\ current_slot = lastRun.slot
                             /\ target_slot = OtherSlot(lastRun.slot)
    /\ running = Blank => state = "IDLE")'
    BY RunningIsLast, PTL
  <2>. QED BY <2>1, RunningIsLast
<1>2. Blank \notin Images /\ running \in Images \cup {Blank} BY RunningIsLast
<1>3. NewerImage' = Blank \/ NewerImage' \in {i \in Images : i.version > lastRun'.version}
  <2>1. TypeOK' BY DEF UpdateInv, IInv
  <2>2. (TypeOK =>
    /\ OtherSlot(lastRun.slot) \in Slots
    /\ \/ NewerImage = Blank
       \/ /\ NewerImage \in Images /\ NewerImage.version > lastRun.version
          /\ Complete(OtherSlot(lastRun.slot))
          /\ Stored(OtherSlot(lastRun.slot)) = NewerImage)'
    BY NewerFacts, PTL
  <2>. QED BY <2>1, <2>2
<1>4. IInv' BY DEF UpdateInv
<1>. HIDE DEF current
<1>. SUFFICES \/ UNCHANGED <<current, NewerImage, up>>
              \/ /\ up /\ NewerImage' \in {i \in Images : i.version > current.version}
                 /\ UNCHANGED <<current, up>>
              \/ up /\ NewerImage' = Blank /\ UNCHANGED <<current, up>>
              \/ up /\ up' = FALSE /\ NewerImage' \in {NewerImage, Blank} /\ UNCHANGED current
              \/ /\ ~up /\ up'
                 /\ \/ UNCHANGED <<current, NewerImage>>
                    \/ NewerImage # Blank /\ current' = NewerImage /\ NewerImage' = Blank
  BY DEF current, Update!Next, Update!Store, Update!Discard, Update!Stop, Update!Start,
         Update!abstractVars
<1>5. CASE BootStep /\ UNCHANGED <<appVars, losses, lastRun>>
  <2>1. NewerImage' = NewerImage BY <1>4, <1>5, BootStepUpdate
  <2>. QED BY <1>1, <1>5, <2>1 DEF appVars
<1>6. ASSUME NEW slot \in Slots, boot_slot(slot), AppStarts(slot)
      PROVE  /\ ~up /\ up'
             /\ \/ UNCHANGED <<current, NewerImage>>
                \/ NewerImage # Blank /\ current' = NewerImage /\ NewerImage' = Blank
  <2>1. running = Blank /\ running' \in Images BY <1>4, <1>6, StartEffect
  <2>2. NewerImage' = IF lastRun' = lastRun THEN NewerImage ELSE Blank
    BY <1>4, <1>6, StartNewer
  <2>3. lastRun' = lastRun \/ (NewerImage \in Images /\ lastRun' = NewerImage)
    BY <1>4, <1>6, StartEffect
  <2>. QED BY <1>1, <1>2, <2>1, <2>2, <2>3
<1>7. CASE App
  <2>1. running \in Images /\ running' = running /\ lastRun' = lastRun
    BY <1>7, AppMoves DEF UpdateInv
  <2>. QED BY <1>1, <1>2, <1>3, <2>1
<1>8. CASE SystemReset \/ PowerLoss
  <2>1. running' = Blank /\ lastRun' = lastRun
    BY <1>8 DEF SystemReset, PowerLoss, Restart
  <2>2. NewerImage' \in {NewerImage, Blank}
    BY <1>8, <2>1, FlashStays, NewerImageLost DEF SystemReset, PowerLoss
  <2>3. CASE running = Blank
    <3>1. flash' = flash BY <1>2, <1>8, <2>3, RestartEffect
    <3>. QED BY <1>1, <2>1, <2>3, <3>1, FlashStays
  <2>. QED BY <1>1, <2>1, <2>2, <2>3
<1>9. CASE UNCHANGED vars
  <2>1. flash' = flash /\ lastRun' = lastRun /\ running' = running
    BY <1>9 DEF vars, flashVars, appVars
  <2>. QED BY <1>1, <2>1, FlashStays
<1>. QED BY <1>5, <1>6, <1>7, <1>8, <1>9 DEF Next, Boot

(***************************************************************************)
(* The board implements AtomicUpdate: with no HAL failure it is an image   *)
(* that runs and at most one whole, newer image that may replace it,       *)
(* whatever the flash words and BootInfo go through in between.            *)
(***************************************************************************)
THEOREM UpdatesAreAtomic ==
  ASSUME MaxFaults = 0
  PROVE  Spec => UpdateIsAtomic
<1>1. Init => Update!Init
  <2>. SUFFICES ASSUME Init PROVE Update!Init OBVIOUS
  <2>1. UpdateInv /\ NewerImage = Blank BY InitUpdate
  <2>2. running = Blank BY DEF Init, Shipped
  <2>3. lastRun \in Images BY <2>1 DEF UpdateInv, IInv, TypeOK
  <2>. QED BY <2>1, <2>2, <2>3 DEF Update!Init
<1>2. UpdateInv /\ UpdateInv' /\ [Next]_vars => [Update!Next]_(Update!abstractVars)
  BY StepIsAtomic
<1>. QED BY <1>1, <1>2, InitUpdate, UpdateStep, PTL DEF Spec, UpdateIsAtomic, Update!Spec
===============================================================================
