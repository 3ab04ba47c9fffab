------------------------------ MODULE Bootloader ------------------------------
(***************************************************************************)
(* The bootloader's Ota_Task: read BootInfo, persist a default if there is *)
(* none, boot the slot it names if that passes the check, otherwise fall   *)
(* back on the other slot, otherwise blink for ever.                       *)
(*                                                                         *)
(* Its boot_info_write ignores what the HAL returns, so a failing erase or *)
(* program call changes what is in S11 and nothing else.  LEDs and delays  *)
(* are left out.                                                           *)
(***************************************************************************)
EXTENDS OtaFlash

VARIABLES
  bpc,    \* where Ota_Task is; "app" once it has jumped
  local   \* its RAM copy of BootInfo

bootVars == <<bpc, local>>

BootSteps == {"read", "default", "check", "fixed", "jump", "fatal", "app"}

\* Mutation: boot_app is not looked at.
Wanted_default(b) == OTA_SLOT_APP1

\* The slot a BootInfo asks for: anything but APP2 means APP1.
Wanted(b) == IF b.boot_app = OTA_SLOT_APP2 THEN OTA_SLOT_APP2 ELSE OTA_SLOT_APP1
want == Wanted(local)
alt  == OtherSlot(want)

\* boot_info_write(&new_info): starts with the erase of S11.
WriteBootInfo(new_info) ==
  /\ info' = new_info
  /\ op' = Op("info_erase", 0, 0, Blank)

DefaultInfo == Info(OTA_SLOT_APP1, NoCrc, 0)

ReadBootInfo ==
  /\ bpc = "read"
  /\ IF bootInfo.magic = Magic
     THEN local' = bootInfo /\ bpc' = "check" /\ UNCHANGED <<op, info>>
     ELSE local' = DefaultInfo /\ bpc' = "default" /\ WriteBootInfo(DefaultInfo)
  /\ UNCHANGED <<flash, bootInfo, faults>>

BootEraseInfo ==
  /\ bpc \in {"default", "fixed"} /\ op.kind = "info_erase"
  /\ HAL_EraseInfo \/ HAL_Fails
  /\ op' = Op("info_program", 1, InfoWords + 1, Blank)
  /\ UNCHANGED bootVars

BootProgramInfo ==
  /\ bpc \in {"default", "fixed"} /\ op.kind = "info_program"
  /\ HAL_ProgramInfo \/ HAL_Fails
  /\ IF op.addr + 1 < op.end
     THEN OpGoesOn(op.addr + 1) /\ UNCHANGED bpc
     ELSE OpEnds /\ bpc' = IF bpc = "default" THEN "check" ELSE "jump"
  /\ UNCHANGED local

WantBootable == check_image(want, local.size, local.crc)

\* Mutation: the fallback is held to the size and CRC recorded for the other slot.
AltBootable_recorded == check_image(alt, local.size, local.crc)

\* The fallback has no recorded size or CRC: structure only.
AltBootable == check_image(alt, 0, NoCrc)

FallBack ==
  /\ bpc = "check" /\ ~WantBootable /\ AltBootable
  /\ WriteBootInfo(Info(alt, NoCrc, 0))
  /\ bpc' = "fixed"
  /\ UNCHANGED <<flash, bootInfo, local, faults>>

NeitherBootable ==
  /\ bpc = "check" /\ ~WantBootable /\ ~AltBootable
  /\ bpc' = "fatal"
  /\ UNCHANGED <<flashVars, local>>

\* JumpToApplication(slot): control leaves the bootloader for good.
boot_slot(slot) ==
  /\ \/ bpc = "check" /\ WantBootable /\ slot = want
     \/ bpc = "jump" /\ slot = alt
  /\ bpc' = "app" /\ local' = BlankInfo /\ info' = BlankInfo
  /\ UNCHANGED <<flash, bootInfo, op, faults>>

BootStep ==
  \/ ReadBootInfo \/ BootEraseInfo \/ BootProgramInfo
  \/ FallBack \/ NeitherBootable
===============================================================================
