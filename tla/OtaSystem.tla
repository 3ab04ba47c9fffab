------------------------------- MODULE OtaSystem -------------------------------
(***************************************************************************)
(* The board: bootloader and application taking turns on one flash, with   *)
(* power losses (or watchdog resets) between any two words.  The PC and    *)
(* the network appear only as what they can ask of the manager: pushes of  *)
(* any image with any size, blocks in any order, duplicated or with other  *)
(* content than announced, the connection lost at any time.                *)
(***************************************************************************)
EXTENDS OtaManager, Bootloader

CONSTANTS
  MaxLosses,   \* bound: power losses in a behaviour
  MaxSize,     \* bound: largest image size a push announces
  Offsets,     \* the block offsets the PC sends
  MaxLen       \* bound: longest block, in cells

ASSUME BoundsAssumption ==
  /\ MaxLosses \in Nat /\ MaxSize \in Nat /\ MaxLen \in Nat \ {0}
  /\ Offsets \subseteq 0 .. (WordMod - 1) /\ MaxLen < WordMod

VARIABLES
  losses,    \* power losses so far
  lastRun    \* history: the image that ran last

vars == <<flashVars, appVars, bootVars, losses, lastRun>>

-------------------------------------------------------------------------------
\* A board as it leaves production: an image in slot A, the rest blank.
Shipped(i) ==
  /\ i.slot = OTA_SLOT_APP1
  /\ flash = [c \in AppCells |->
                IF c - APP1_ADDR < i.size THEN i ELSE Blank]
  /\ op = NoOp /\ info = BlankInfo /\ faults = 0
  /\ running = Blank /\ current_slot = OTA_SLOT_APP1 /\ ManagerInit
  /\ bpc = "read" /\ local = BlankInfo
  /\ losses = 0 /\ lastRun = i

\* Its first power-up: BootInfo is still erased.
FactoryInit == \E i \in Images : Shipped(i) /\ bootInfo = BlankInfo

\* Its first power-up is over: the bootloader has persisted the default.
Init == \E i \in Images : Shipped(i) /\ bootInfo = DefaultInfo

-------------------------------------------------------------------------------
\* Control passes to whatever is in the slot.  Junk stands for code that is not
\* a whole image: from there nothing is known until the next power-up.
AppStarts(slot) ==
  /\ current_slot' = slot
  /\ running' = IF Complete(slot) THEN flash[addr_of_slot(slot)] ELSE Junk
  /\ lastRun' = IF Complete(slot) THEN flash[addr_of_slot(slot)] ELSE lastRun
  /\ ManagerReset

Boot ==
  \/ /\ BootStep
     /\ UNCHANGED <<appVars, losses, lastRun>>
  \/ /\ \E slot \in Slots : boot_slot(slot) /\ AppStarts(slot)
     /\ UNCHANGED losses

\* RAM is lost; the bootloader starts over.
Restart ==
  /\ bpc' = "read" /\ local' = BlankInfo /\ info' = BlankInfo /\ op' = NoOp
  /\ running' = Blank /\ current_slot' = OTA_SLOT_APP1 /\ ManagerReset
  /\ UNCHANGED <<faults, lastRun>>

PowerLoss ==
  /\ losses < MaxLosses /\ losses' = losses + 1
  /\ Interrupted
  /\ Restart

\* NVIC_SystemReset, OTA_REBOOT_DELAY_MS after a committed update.
SystemReset ==
  /\ Ready /\ state = "COMMITTED"
  /\ Restart
  /\ UNCHANGED <<flash, bootInfo, losses>>

Commands ==
  \/ \E i \in Images, size \in 0 .. MaxSize : ota_handle_push_update_request(i, size)
  \/ ota_start_download
  \/ \E offset \in Offsets, len \in 1 .. MaxLen, d \in Images \cup {Junk} :
       ota_write_data_block(offset, len, d)
  \/ MisalignedBlock
  \/ ota_finish_download
  \/ ota_prepare_update
  \/ ClientAborts

FlashSteps ==
  EraseSector \/ ProgramCell \/ EraseInfo \/ ProgramInfo \/ OperationFails

App == (Commands \/ FlashSteps) /\ UNCHANGED <<bootVars, losses, lastRun>>

Next == Boot \/ App \/ SystemReset \/ PowerLoss

Spec        == Init /\ [][Next]_vars
FactorySpec == FactoryInit /\ [][Next]_vars

\* The bootloader runs to its end, the application finishes the flash operation
\* it is in and the reset it owes.  Nothing makes the PC do anything.
Fairness == WF_vars(Boot) /\ WF_vars(SystemReset)
FairSpec == Spec /\ Fairness

-------------------------------------------------------------------------------
TypeOK ==
  /\ flash \in [AppCells -> CellVals]
  /\ bootInfo \in InfoType /\ info \in InfoType /\ local \in InfoType
  /\ op \in [kind : OpKinds, addr : Nat, end : Nat, data : CellVals]
  /\ running \in Images \cup {Blank, Junk} /\ current_slot \in Slots
  /\ state \in States /\ remote \in Images \cup {Blank}
  /\ total_size \in Nat /\ downloaded_size \in Nat
  /\ download_crc \in Nat \cup {Bad}
  /\ faults \in 0 .. MaxFaults /\ losses \in 0 .. MaxLosses
  /\ bpc \in BootSteps /\ lastRun \in Images

-------------------------------------------------------------------------------
(* The inductive invariant behind BootsOnlyComplete. *)

\* Who is at work, and on what.
OpInv ==
  /\ bpc = "app" <=> running # Blank
  /\ bpc \in {"read", "check", "jump", "fatal"} \/ running = Junk => op = NoOp
  /\ bpc \in {"default", "fixed"} => op.kind \in {"info_erase", "info_program"}
  /\ op.kind = "none" => op = NoOp
  /\ op.kind \in {"erase", "program"} =>
       /\ running \in Images /\ state = "DOWNLOADING"
       /\ op.addr \in SlotCells(target_slot) /\ op.addr < op.end
       /\ op.end <= download_addr + download_size
  /\ op.kind = "program" => op.data # Blank
  /\ op.kind = "info_program" => op.addr \in 1 .. InfoWords /\ op.end = InfoWords + 1
  /\ running \in Images => (op.kind \in {"info_erase", "info_program"} <=> state = "UPDATING")

\* What the manager relies on.
ManagerInv ==
  /\ state # "IDLE" =>
       /\ running \in Images /\ remote \in Images
       /\ total_size \in 1 .. download_size
  /\ running \in Images => Complete(current_slot) /\ flash[addr_of_slot(current_slot)] = running

BothComplete == \A s \in Slots : Complete(s)

\* The BootInfo b sends the bootloader to slot s, which holds a whole image.
NamesComplete(b, s) ==
  /\ b.magic = Magic /\ Wanted(b) = s
  /\ Complete(s) /\ check_image(s, b.size, b.crc)

\* BootInfo is only ever unreliable while it does not matter which slot is booted.
InfoInv ==
  /\ running # Junk /\ bpc # "fatal"
  /\ BothComplete \/ \E s \in Slots : NamesComplete(bootInfo, s)
  /\ running \in Images =>
       \/ NamesComplete(bootInfo, current_slot)
       \/ BothComplete /\ state \in {"UPDATING", "COMMITTED"}
  /\ state \in {"SUCCESS", "UPDATING", "COMMITTED"} => BothComplete
  /\ bpc \in {"default", "fixed", "jump"} => BothComplete
  /\ bpc = "check" => local = bootInfo /\ bootInfo.magic = Magic
  /\ bpc = "default" => local = DefaultInfo /\ info = DefaultInfo
  /\ bpc \in {"fixed", "jump"} => info = Info(alt, NoCrc, 0)
  /\ bpc = "jump" => bootInfo = info
  /\ op.kind = "info_program" => \A w \in 1 .. InfoWords :
       bootInfo[InfoWord[w]] = IF w < op.addr THEN info[InfoWord[w]] ELSE Blank

IInv == TypeOK /\ OpInv /\ ManagerInv /\ InfoInv

-------------------------------------------------------------------------------
(***************************************************************************)
(* The bootloader never passes control to a half-written slot, whenever    *)
(* the power fails: with no HAL failure, ota_config.h:28-30 holds.         *)
(***************************************************************************)
BootsOnlyComplete == running # Junk

(***************************************************************************)
(* ota_config.h:28-30: the slot that runs is never destroyed, so after a   *)
(* power loss the old version runs again.  A slot whose vector table       *)
(* belongs to an image is never started with the rest of it missing.       *)
(***************************************************************************)
HalfWrittenNeverStarted ==
  running = Junk => flash[addr_of_slot(current_slot)] \notin Images

(***************************************************************************)
(* The board never ends blinking: a slot that can be booted is booted,     *)
(* even when a power loss tore the BootInfo that named it.                 *)
(***************************************************************************)
NeverBricked == bpc # "fatal"

(***************************************************************************)
(* The comment on Ota_Task (step 4 of the decisions): it blinks for ever   *)
(* only if neither slot is bootable.                                       *)
(***************************************************************************)
FatalOnlyIfNeitherBootable ==
  bpc = "fatal" => \A s \in Slots : ~StackAndResetOk(s)

(***************************************************************************)
(* A BootInfo that records a CRC names a slot holding exactly that image.  *)
(***************************************************************************)
RecordedImageIsThere ==
  /\ bootInfo.boot_app \in Slots /\ bootInfo.crc \in Images
  /\ bootInfo.size \notin {0, Blank}
  => CrcMatches(bootInfo.boot_app, bootInfo.size, bootInfo.crc)

(***************************************************************************)
(* Whatever the PC sends (offsets that wrap around 2^32 included) and      *)
(* whatever fails, no step changes a cell of the slot that is running.     *)
(***************************************************************************)
SlotUnchanged(s) == \A c \in SlotCells(s) : flash'[c] = flash[c]

RunningSlotUntouched ==
  [][(running \in Images) => SlotUnchanged(current_slot)]_vars

(***************************************************************************)
(* Across resets, torn BootInfo and fallbacks included, the board never    *)
(* goes back to an image older than the one that ran last.                 *)
(***************************************************************************)
NoDowngrade == [][lastRun'.version >= lastRun.version]_vars

(***************************************************************************)
(* The board implements AtomicUpdate: the flash words, the two protections *)
(* and BootInfo add up to one image that runs and at most one that may     *)
(* replace it.  A start from anything else would be a step it forbids.     *)
(***************************************************************************)
Stored(s) == flash[addr_of_slot(s)]

NewerImage ==
  LET other == OtherSlot(lastRun.slot) IN
  IF Complete(other) /\ Stored(other).version > lastRun.version THEN Stored(other) ELSE Blank

Update == INSTANCE AtomicUpdate WITH
  Firmware <- Images, Nothing <- Blank,
  current <- IF running = Blank THEN lastRun ELSE running,
  stored  <- NewerImage,
  up      <- running # Blank

UpdateIsAtomic == Update!Spec

(***************************************************************************)
(* A committed update takes effect: the image runs, even if the power      *)
(* fails between the commit and the reset.                                 *)
(***************************************************************************)
CommittedImageRuns ==
  \A i \in Images : (state = "COMMITTED" /\ remote = i) ~> (running = i)

(***************************************************************************)
(* Every start of the bootloader ends in a running application.            *)
(***************************************************************************)
EveryStartReachesAnApp == (bpc = "read") ~> (running \in Images)
===============================================================================
