------------------------------- MODULE OtaFlash -------------------------------
(***************************************************************************)
(* The persistent storage the application and the bootloader share, and    *)
(* the driver through which they change it (User/ota/ota_flash.c).         *)
(*                                                                         *)
(* Flash is modelled in cells: one cell stands for a run of words that are *)
(* programmed together, except the first cell of a slot, which is exactly  *)
(* the two words (stack pointer, reset vector) the structural check of an  *)
(* image reads.  A CRC is modelled as perfect: it identifies the content.  *)
(* The BootInfo sector S11 is a record of its own, written word by word.   *)
(*                                                                         *)
(* Only one flash operation is ever in progress: the driver runs in the    *)
(* single OTA task of the application, or in the bootloader.  It is kept   *)
(* in `op', so that a power loss can strike between any two words.         *)
(***************************************************************************)
EXTENDS Integers

CONSTANTS
  APP1_ADDR, APP1_SIZE,  \* first cell and number of cells of slot A
  APP2_ADDR, APP2_SIZE,  \* first cell and number of cells of slot B
  WordMod,               \* addresses are computed modulo this (2^32 on the target)
  SectorEnd,             \* the first cell after the sector a cell belongs to
  Images,                \* firmware images that exist: [slot, size, version]
  Blank,                 \* an erased cell, or an erased BootInfo word
  Junk,                  \* a cell whose content is no image's
  Plausible,             \* the same, in a vector cell that would pass the check
  NoCrc,                 \* the CRC field 0 of a BootInfo without a known size
  Magic,                 \* BOOT_INFO_MAGIC
  MaxFaults              \* bound: how many HAL erase or program calls fail

OTA_SLOT_APP1 == 1
OTA_SLOT_APP2 == 2
Slots == {OTA_SLOT_APP1, OTA_SLOT_APP2}

addr_of_slot(s) == IF s = OTA_SLOT_APP2 THEN APP2_ADDR ELSE APP1_ADDR
size_of_slot(s) == IF s = OTA_SLOT_APP2 THEN APP2_SIZE ELSE APP1_SIZE
OtherSlot(s)    == IF s = OTA_SLOT_APP1 THEN OTA_SLOT_APP2 ELSE OTA_SLOT_APP1
SlotCells(s)    == addr_of_slot(s) .. (addr_of_slot(s) + size_of_slot(s) - 1)
AppCells        == SlotCells(OTA_SLOT_APP1) \cup SlotCells(OTA_SLOT_APP2)

\* Only in a vector cell does it matter what garbage looks like.
Garbage     == {Junk, Plausible}
GarbageAt(c) == IF \E s \in Slots : c = addr_of_slot(s) THEN Garbage ELSE {Junk}
CellVals    == Images \cup Garbage \cup {Blank}

(***************************************************************************)
(* The partition table of ota_config.h: the two slots follow each other,   *)
(* both end inside the address space, and no sector straddles a slot.      *)
(***************************************************************************)
ASSUME LayoutAssumption ==
  /\ APP1_ADDR \in Nat \ {0} /\ APP1_SIZE \in Nat \ {0}
  /\ APP2_ADDR \in Nat /\ APP2_SIZE \in Nat \ {0}
  /\ APP2_ADDR = APP1_ADDR + APP1_SIZE
  /\ APP2_SIZE <= APP1_SIZE
  /\ WordMod \in Nat /\ APP2_ADDR + APP1_SIZE < WordMod

ASSUME SectorAssumption ==
  /\ SectorEnd \in [AppCells -> Nat]
  /\ \A s \in Slots : \A c \in SlotCells(s) :
       /\ c < SectorEnd[c]
       /\ SectorEnd[c] <= addr_of_slot(s) + size_of_slot(s)

ASSUME ImageAssumption ==
  /\ \A i \in Images : /\ i.slot \in Slots
                       /\ i.size \in 1 .. size_of_slot(i.slot)
                       /\ i.version \in Nat
  /\ Blank \notin Images \cup Garbage
  /\ Junk \notin Images /\ Plausible \notin Images
  /\ NoCrc \notin Images
  /\ Blank \notin Int /\ Magic # Blank /\ NoCrc # Blank

ASSUME MaxFaultsAssumption == MaxFaults \in Nat

VARIABLES
  flash,      \* content of the two slots
  bootInfo,   \* the BootInfo words in S11
  op,         \* the flash operation in progress
  info,       \* the RAM copy boot_info_write programs from
  faults      \* HAL calls that have failed so far

flashVars == <<flash, bootInfo, op, info, faults>>

(***************************************************************************)
(* BootInfo: its words in the order they are programmed.  The last one     *)
(* stands for version and reserved[], which nothing decides on.            *)
(***************************************************************************)
InfoWord  == <<"magic", "boot_app", "crc", "size", "rest">>
InfoWords == 5

Info(slot, crc, size) ==
  [magic |-> Magic, boot_app |-> slot, crc |-> crc, size |-> size, rest |-> Magic]
BlankInfo ==
  [magic |-> Blank, boot_app |-> Blank, crc |-> Blank, size |-> Blank, rest |-> Blank]

InfoType ==
  [magic : {Magic, Blank}, boot_app : Slots \cup {Blank},
   crc : Images \cup {NoCrc, Blank}, size : Nat \cup {Blank}, rest : {Magic, Blank}]

(***************************************************************************)
(* Operations in progress.  `addr' is the next cell (or the next BootInfo  *)
(* word), `end' the first one after the operation, `data' what a program   *)
(* operation writes.                                                       *)
(***************************************************************************)
OpKinds == {"none", "erase", "program", "info_erase", "info_program"}
NoOp == [kind |-> "none", addr |-> 0, end |-> 0, data |-> Blank]
OpGoesOn(next) == op' = [op EXCEPT !.addr = next]
OpEnds == op' = NoOp
Op(kind, addr, end, data) == [kind |-> kind, addr |-> addr, end |-> end, data |-> data]

uint32_add(x, y) == IF x + y < WordMod THEN x + y ELSE x + y - WordMod

-------------------------------------------------------------------------------
(* The two guards of every erase and every write. *)

range_in_app_partition(addr, size) ==
  \/ size = 0
  \/ /\ uint32_add(addr, size) >= addr
     /\ \E s \in Slots : /\ addr >= addr_of_slot(s)
                         /\ uint32_add(addr, size) <= addr_of_slot(s) + size_of_slot(s)

\* Mutation: the protected range is as long as the smaller slot.
range_hits_protected_short(addr, size, protected) ==
  /\ size # 0
  /\ addr < protected + APP2_SIZE
  /\ uint32_add(addr, size) > protected

\* The protected range is APP1_SIZE long whichever slot is protected.
range_hits_protected(addr, size, protected) ==
  /\ size # 0
  /\ addr < protected + APP1_SIZE
  /\ uint32_add(addr, size) > protected

\* Mutation: the protection of the running slot is not consulted.
RangeAllowed_unprotected(addr, size, protected) == range_in_app_partition(addr, size)

RangeAllowed(addr, size, protected) ==
  /\ range_in_app_partition(addr, size)
  /\ ~range_hits_protected(addr, size, protected)

Sector(c) == {d \in AppCells : SectorEnd[d] = SectorEnd[c]}
ota_flash_erase_span(addr, size) == SectorEnd[addr + size - 1] - addr

-------------------------------------------------------------------------------
(* What the hardware does to the storage. *)

\* Programming can only clear bits: over anything but blank it leaves garbage.
Programmed(c, new) ==
  IF flash[c] = Blank \/ flash[c] = new THEN {new} ELSE GarbageAt(c)
InfoProgrammed(old, new) ==
  IF old = Blank \/ old = new THEN new ELSE Blank

\* A BootInfo word that is half erased or half programmed behaves like a blank
\* one: a wrong magic, slot APP1, a wrong CRC, or a size that fails the check.
TornInfo ==
  [magic : {bootInfo.magic, Blank}, boot_app : {bootInfo.boot_app, Blank},
   crc : {bootInfo.crc, Blank}, size : {bootInfo.size, Blank},
   rest : {bootInfo.rest, Blank}]

HAL_EraseSector ==
  /\ flash' = [c \in AppCells |-> IF c \in Sector(op.addr) THEN Blank ELSE flash[c]]
  /\ UNCHANGED <<bootInfo, info, faults>>

HAL_ProgramCell ==
  /\ \E v \in Programmed(op.addr, op.data) :
       flash' = [flash EXCEPT ![op.addr] = v]
  /\ UNCHANGED <<bootInfo, info, faults>>

HAL_EraseInfo ==
  /\ bootInfo' = BlankInfo
  /\ UNCHANGED <<flash, info, faults>>

HAL_ProgramInfo ==
  LET w == InfoWord[op.addr] IN
  /\ bootInfo' = [bootInfo EXCEPT ![w] = InfoProgrammed(@, info[w])]
  /\ UNCHANGED <<flash, info, faults>>

\* What an operation cut short by a reset or a HAL failure leaves behind.
Interrupted ==
  \/ /\ op.kind = "erase"
     /\ \E part, lost \in SUBSET Sector(op.addr) : \E g \in [lost -> Garbage] :
          /\ \A c \in lost : g[c] \in GarbageAt(c)
          /\ flash' = [c \in AppCells |-> IF c \in lost THEN g[c]
                                         ELSE IF c \in part THEN Blank ELSE flash[c]]
     /\ UNCHANGED bootInfo
  \/ /\ op.kind = "program"
     /\ \E v \in GarbageAt(op.addr) \cup {flash[op.addr]} :
          flash' = [flash EXCEPT ![op.addr] = v]
     /\ UNCHANGED bootInfo
  \/ op.kind = "info_erase" /\ bootInfo' \in TornInfo /\ UNCHANGED flash
  \/ op.kind \in {"none", "info_program"} /\ UNCHANGED <<flash, bootInfo>>

\* The HAL call under way returns an error.
HAL_Fails ==
  /\ faults < MaxFaults /\ faults' = faults + 1
  /\ Interrupted
  /\ UNCHANGED info

-------------------------------------------------------------------------------
(* Reading an image back. *)

StackAndResetOk(slot) ==
  LET v == flash[addr_of_slot(slot)] IN
  \/ v = Plausible
  \/ v \in Images /\ v.slot = slot

\* CRC over the first `size' cells of a slot equals the CRC of image i.
CrcMatches(slot, size, i) ==
  /\ i \in Images /\ size = i.size
  /\ \A k \in 0 .. (size - 1) : flash[addr_of_slot(slot) + k] = i

\* ota_flash_check_image, and the bootloader's app_image_check that mirrors it.
\* A size of 0 means `not recorded': only the structure is checked.
check_image(slot, size, crc) ==
  /\ size # Blank
  /\ StackAndResetOk(slot)
  /\ size # 0 => size <= size_of_slot(slot) /\ CrcMatches(slot, size, crc)

\* Slot s holds the whole of an image linked for it.
Complete(s) ==
  \E i \in Images : i.slot = s /\ CrcMatches(s, i.size, i)
===============================================================================
