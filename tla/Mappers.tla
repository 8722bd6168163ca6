------------------------------ MODULE Mappers ------------------------------
(***************************************************************************)
(* The bank registers of the Game Boy cartridges (gb/gbMemory.cpp), the    *)
(* windows of the memory map they move, and what a reset and a save state  *)
(* (gb/GB.cpp) make of both.                                               *)
(*                                                                         *)
(* A byte, a register and the number of a bank are the sets of their one   *)
(* bits, so that `&' is \cap, `|' is \cup and a size mask is a set.  The   *)
(* windows are 0x4000-0x7fff (`rom', a 16K bank of the cartridge) and      *)
(* 0xa000-0xbfff (`ram', an 8K bank of its RAM or gbMemory itself).        *)
(* Cartridges have a RAM (MBC2 and MBC7 one inside, in gbMemory) and no    *)
(* rumble motor; the clock of MBC3 and the serial memory of MBC7 are left  *)
(* out.                                                                    *)
(***************************************************************************)
EXTENDS Integers

CONSTANTS
  Cartridges,  \* the mappers of the cartridges that are played
  Values,      \* the bytes a program writes to the registers
  RomMask,     \* gbRomSizeMask, in banks
  RamMask,     \* gbRamSizeMask, in banks
  Slots        \* the save-state files

Byte  == 0 .. 7
Int32 == 0 .. 31

Mappers == {"MBC1", "MBC2", "MBC3", "MBC5", "MBC7", "HuC1", "HuC3"}
HasRam(k) == k \notin {"MBC2", "MBC7"}   \* these use gbMemory instead of gbRam

ASSUME CartridgesAssumption == Cartridges \subseteq Mappers
ASSUME ValuesAssumption     == Values \subseteq SUBSET Byte
ASSUME MaskAssumption       == /\ RomMask \in {0 .. k : k \in 0 .. 8}
                               /\ RamMask \in {{}} \cup {0 .. k : k \in 1 .. 3}

VARIABLES
  mapper,   \* the mapper of the cartridge in use; it does not change
  c,        \* its registers, and the two windows
  saved     \* the save states: c at the time

vars == <<mapper, c, saved>>

(* Where a program writes: bits 13 and 14 choose the register, MBC2 looks  *)
(* at bit 8, MBC5 at bit 12 besides.                                       *)
Addresses == {{}, {8}, {13}, {8, 13}, {12, 13}, {14}, {13, 14}}

ToEnable(a)  == a \cap {13, 14} = {}
ToROM(a)     == a \cap {13, 14} = {13}
ToRAM(a)     == a \cap {13, 14} = {14}
ToModel(a)   == {13, 14} \subseteq a

One      == {0}
MinusOne == Int32         \* mapperRAMBank = -1
GbMemory == {-1}          \* the window shows gbMemory

Registers ==
  [ramEnable : BOOLEAN, romBank : SUBSET Byte, high : SUBSET Byte, ramBank : SUBSET Int32,
   ramAddress : SUBSET RamMask, model : BOOLEAN, ramFlag : SUBSET Byte,
   rom : SUBSET RomMask, ram : (SUBSET RamMask) \cup {GbMemory}]

NonZero(v)  == IF v = {} THEN One ELSE v
Shift(v, n) == {i + n : i \in v}
Enables(v)  == {1, 3} \subseteq v         \* (value & 0x0a) == 0x0a

Rom(bank, high, n) == (bank \cup Shift(high, n)) \cap RomMask

Ram(bank) == bank \cap RamMask

-----------------------------------------------------------------------------
(* Writes to the registers.                                                *)

(* `if (value == register) break', else the register and its window.       *)
SelectROM(r, v, high, n) ==
  IF v = r.romBank THEN r ELSE [r EXCEPT !.romBank = v, !.rom = Rom(v, high, n)]
SelectRAM(r, v) ==
  IF v = r.ramBank THEN r
  ELSE [r EXCEPT !.ramBank = v, !.ramAddress = Ram(v), !.ram = Ram(v)]

(* MBC1 and HuC1: the RAM bank in the 4/32 model, else two more bits of    *)
(* the ROM bank.                                                           *)
RamOrHigh(r, v) ==
  IF r.model THEN SelectRAM(r, v \cap 0 .. 1)
  ELSE [r EXCEPT !.high = v \cap 0 .. 1, !.rom = Rom(r.romBank, v \cap 0 .. 1, 5)]

mapperMBC1ROM(r, a, v) ==
  CASE ToEnable(a) -> [r EXCEPT !.ramEnable = Enables(v)]
    [] ToROM(a)   -> SelectROM(r, NonZero(v), IF r.model THEN {} ELSE r.high, 5)
    [] ToRAM(a)   -> RamOrHigh(r, v)
    [] ToModel(a) -> [r EXCEPT !.model = 0 \in v]

mapperMBC2ROM(r, a, v) ==
  CASE ToEnable(a) /\ 8 \notin a -> [r EXCEPT !.ramEnable = v \cap 0 .. 3 = {1, 3}]
    [] ToROM(a) /\ 8 \in a       -> SelectROM(r, NonZero(v \cap 0 .. 3), {}, 0)
    [] OTHER                     -> r

(* Values from 8 on choose a register of the clock instead of a RAM bank.  *)
mapperMBC3ROM(r, a, v) ==
  CASE ToEnable(a) -> [r EXCEPT !.ramEnable = Enables(v)]
    [] ToROM(a)   -> SelectROM(r, NonZero(v \cap 0 .. 6), {}, 0)
    [] ToRAM(a)   -> IF v \subseteq 0 .. 2 THEN SelectRAM(r, v)
                     ELSE IF r.ramEnable THEN [r EXCEPT !.ramBank = MinusOne] ELSE r
    [] ToModel(a) -> r

mapperMBC5ROM(r, a, v) ==
  CASE ToEnable(a) -> [r EXCEPT !.ramEnable = Enables(v)]
    [] ToROM(a) /\ 12 \notin a -> SelectROM(r, v, r.high, 8)
    [] ToROM(a) /\ 12 \in a ->
         IF v \cap One = r.high THEN r
         ELSE [r EXCEPT !.high = v \cap One, !.rom = Rom(r.romBank, v \cap One, 8)]
    [] ToRAM(a)   -> SelectRAM(r, v \cap 0 .. 3)
    [] ToModel(a) -> r

mapperMBC7ROM(r, a, v) ==
  CASE ToROM(a)   -> SelectROM(r, NonZero(v \cap 0 .. 6), {}, 0)
    [] ToRAM(a)   -> IF v \subseteq 0 .. 2
                     THEN [r EXCEPT !.ramBank = v, !.ramAddress = Ram(v \cap 0 .. 1),
                                    !.ramEnable = FALSE, !.ram = GbMemory]
                     ELSE [r EXCEPT !.ramEnable = FALSE]
    [] OTHER      -> r

mapperHuC1ROM(r, a, v) ==
  CASE ToEnable(a) -> [r EXCEPT !.ramEnable = Enables(v)]
    [] ToROM(a)   -> SelectROM(r, NonZero(v \cap 0 .. 5), {}, 0)
    [] ToRAM(a)   -> RamOrHigh(r, v)
    [] ToModel(a) -> [r EXCEPT !.model = 0 \in v]

mapperHuC3ROM(r, a, v) ==
  CASE ToEnable(a) -> [r EXCEPT !.ramEnable = v = {1, 3}, !.ramFlag = v,
                                 !.ramBank = IF v = {1, 3} THEN @ ELSE MinusOne]
    [] ToROM(a)   -> SelectROM(r, NonZero(v \cap 0 .. 6), {}, 0)
    [] ToRAM(a)   -> SelectRAM(r, v \cap 0 .. 1)
    [] ToModel(a) -> r

Written(r, a, v) ==
  CASE mapper = "MBC1" -> mapperMBC1ROM(r, a, v)
    [] mapper = "MBC2" -> mapperMBC2ROM(r, a, v)
    [] mapper = "MBC3" -> mapperMBC3ROM(r, a, v)
    [] mapper = "MBC5" -> mapperMBC5ROM(r, a, v)
    [] mapper = "MBC7" -> mapperMBC7ROM(r, a, v)
    [] mapper = "HuC1" -> mapperHuC1ROM(r, a, v)
    [] mapper = "HuC3" -> mapperHuC3ROM(r, a, v)

Write(a, v) ==
  /\ c' = Written(c, a, v)
  /\ UNCHANGED <<mapper, saved>>

-----------------------------------------------------------------------------
(* Reset and save states.                                                  *)

PowerOn(k) ==
  [ramEnable |-> FALSE, romBank |-> One, high |-> {}, ramBank |-> {}, ramAddress |-> {},
   model |-> FALSE, ramFlag |-> {}, rom |-> One,
   ram |-> IF HasRam(k) THEN {} ELSE GbMemory]

(* Mutant of the next: no register of a cartridge is reset.                *)
ResetWindows ==
  /\ c' = [c EXCEPT !.rom = One, !.ram = PowerOn(mapper).ram]
  /\ UNCHANGED <<mapper, saved>>

(* gbReset: gbDataMBC7 is not among what is cleared.                       *)
Reset ==
  /\ c' = IF mapper = "MBC7" THEN [c EXCEPT !.rom = One, !.ram = GbMemory]
          ELSE PowerOn(mapper)
  /\ UNCHANGED <<mapper, saved>>

(* Mutant: the high bit of the bank is not looked at.                      *)
UpdateLowOnly(r) == [r EXCEPT !.rom = Rom(r.romBank, {}, 8), !.ram = Ram(r.ramBank)]

(* The memoryUpdateMap... functions.  The map of gbMemory is in place when *)
(* they are called.                                                        *)
memoryUpdateMapMBC1(r) ==
  [r EXCEPT !.rom = Rom(r.romBank, IF r.model THEN r.high ELSE {}, 5), !.ram = r.ramAddress]
memoryUpdateMapMBC2(r) == [r EXCEPT !.rom = Rom(r.romBank, {}, 0), !.ram = GbMemory]
memoryUpdateMapMBC3(r) ==
  [r EXCEPT !.rom = Rom(r.romBank, {}, 0),
            !.ram = IF r.ramBank = MinusOne THEN GbMemory ELSE Ram(r.ramBank)]
memoryUpdateMapMBC5(r) == [r EXCEPT !.rom = Rom(r.romBank, r.high, 8), !.ram = Ram(r.ramBank)]
memoryUpdateMapMBC7(r) == [r EXCEPT !.rom = Rom(One, {}, 0), !.ram = GbMemory]  \* gbDataMBC5's bank
memoryUpdateMapHuC(r)  == [r EXCEPT !.rom = Rom(r.romBank, {}, 0), !.ram = Ram(r.ramBank)]

Mapped(r) ==
  CASE mapper = "MBC1" -> memoryUpdateMapMBC1(r)
    [] mapper = "MBC2" -> memoryUpdateMapMBC2(r)
    [] mapper = "MBC3" -> memoryUpdateMapMBC3(r)
    [] mapper = "MBC5" -> memoryUpdateMapMBC5(r)
    [] mapper = "MBC7" -> memoryUpdateMapMBC7(r)
    [] mapper \in {"HuC1", "HuC3"} -> memoryUpdateMapHuC(r)

Save(n) ==
  /\ saved' = [saved EXCEPT ![n] = c]
  /\ UNCHANGED <<mapper, c>>

(* gbReadSaveState: gbDataMBC7 is not in the file.                         *)
Load(n) ==
  /\ c' = Mapped(IF mapper = "MBC7" THEN c ELSE saved[n])
  /\ UNCHANGED <<mapper, saved>>

-----------------------------------------------------------------------------
(* A save state of the game as it starts is in every slot.                 *)
Init ==
  /\ mapper \in Cartridges
  /\ c = PowerOn(mapper)
  /\ saved = [n \in Slots |-> PowerOn(mapper)]

Next ==
  \/ \E a \in Addresses, v \in Values : Write(a, v)
  \/ Reset
  \/ \E n \in Slots : Save(n) \/ Load(n)

Spec == Init /\ [][Next]_vars
-----------------------------------------------------------------------------
(* Properties.                                                             *)

(* The registers keep their widths and the windows stay in the cartridge.  *)
TypeOK ==
  /\ mapper \in Cartridges
  /\ c \in Registers
  /\ saved \in [Slots -> Registers]

(* A ROM of up to 512K needs no high address of MBC1 and HuC1.  Of a larger *)
(* one the high address is lost: memoryUpdateMapMBC1 uses it if the model   *)
(* is 1, and the writes do if it is 0 (gbMemory.cpp:99, 35).                *)
HighUnused(r) == mapper \in {"MBC1", "HuC1"} => r.high = {}

(* A program that is saved and loaded again finds the banks it had mapped, *)
(* although the map is not in the save state but computed from registers,  *)
(* by other code than that of the writes.  (MBC7's registers are not in    *)
(* the save state; with bank -1 a program does not read the window.)       *)
LoadRestoresMap ==
  \A n \in Slots : HighUnused(saved[n]) /\ mapper # "MBC7" =>
    /\ Mapped(saved[n]).rom = saved[n].rom
    /\ saved[n].ramBank = MinusOne \/ Mapped(saved[n]).ram = saved[n].ram

(* The bank that a write to the ROM bank register names.                   *)
NamedROM(a, v) ==
  CASE mapper = "MBC1"             -> NonZero(v)
    [] mapper = "MBC2"             -> NonZero(v \cap 0 .. 3)
    [] mapper \in {"MBC3", "HuC3"} -> NonZero(v \cap 0 .. 6)
    [] mapper = "HuC1"             -> NonZero(v \cap 0 .. 5)
    [] mapper = "MBC5"             -> IF 12 \in a THEN c.romBank \cup Shift(v \cap One, 8)
                                      ELSE v \cup Shift(c.high, 8)

(* A write to the ROM bank register shows that bank, also when the code    *)
(* returns early because the register has the value already: resets and    *)
(* loads have not moved the window behind the register's back.             *)
BankIsSelected ==
  \A a \in Addresses, v \in Values :
    /\ ToROM(a) /\ (mapper = "MBC2" => 8 \in a)
    /\ HighUnused(c) /\ mapper # "MBC7"
    => Written(c, a, v).rom = NamedROM(a, v) \cap RomMask
=============================================================================
