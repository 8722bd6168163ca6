--------------------------- MODULE MappersProofs ---------------------------
(***************************************************************************)
(* For cartridges of every size: the windows stay inside, loading restores *)
(* them, and the bank a program writes is the bank it sees.                *)
(***************************************************************************)
EXTENDS Mappers, TLAPS

(* The windows show what the registers say.                                *)
RomAgrees(r) == HighUnused(r) /\ mapper # "MBC7" =>
                  r.rom = Rom(r.romBank, IF mapper = "MBC5" THEN r.high ELSE {}, 8)
RamAgrees(r) ==
  /\ mapper = "MBC1" => r.ramAddress = Ram(r.ramBank)
  /\ HasRam(mapper) /\ r.ramBank # MinusOne => r.ram = Ram(r.ramBank)
  /\ ~HasRam(mapper) => r.ram = GbMemory

Agrees(r) == r \in Registers /\ RomAgrees(r) /\ RamAgrees(r)

(* The inductive invariant.                                                *)
MapInv ==
  /\ mapper \in Cartridges
  /\ Agrees(c)
  /\ saved \in [Slots -> Registers]
  /\ \A n \in Slots : Agrees(saved[n])

(* Every cartridge has more than one bank.                                 *)
LEMMA BankZero == 0 \in RomMask
BY MaskAssumption

(* Cutting a bank to the size of the cartridge.                            *)
LEMMA Cut ==
  ASSUME NEW b, NEW h, NEW n
  PROVE  Rom(b, h, n) \in SUBSET RomMask /\ Ram(b) \in SUBSET RamMask
BY DEF Rom, Ram

(* Without a high address the shift does not matter.                       *)
LEMMA NoHigh ==
  ASSUME NEW b, NEW n
  PROVE  Rom(b, {}, n) = b \cap RomMask
BY DEF Rom, Shift

(* The state after power-on.                                               *)
LEMMA PowerOnAgrees ==
  ASSUME mapper \in Cartridges
  PROVE  Agrees(PowerOn(mapper))
<1>1. PowerOn(mapper) \in Registers
  <2>1. One \in SUBSET Byte /\ One \in SUBSET RomMask
    BY BankZero DEF One, Byte
  <2> DEFINE w == IF HasRam(mapper) THEN {} ELSE GbMemory
             none == {}
  <2>2. none \in SUBSET RamMask /\ none \in SUBSET Byte /\ none \in SUBSET Int32
    OBVIOUS
  <2>4. w \in (SUBSET RamMask) \cup {GbMemory}
    <3>1. CASE HasRam(mapper)
      BY <3>1, <2>2
    <3>2. CASE ~HasRam(mapper)
      BY <3>2
    <3> QED BY <3>1, <3>2
  <2>3. PowerOn(mapper) =
          [ramEnable |-> FALSE, romBank |-> One, high |-> none, ramBank |-> none,
           ramAddress |-> none, model |-> FALSE, ramFlag |-> none, rom |-> One, ram |-> w]
    BY DEF PowerOn
  <2> HIDE DEF w, none
  <2> QED BY <2>1, <2>2, <2>3, <2>4 DEF Registers
<1>2. RomAgrees(PowerOn(mapper))
  <2>1. Rom(One, {}, 8) = One
    BY NoHigh, BankZero DEF One
  <2> QED BY <2>1 DEF RomAgrees, PowerOn
<1>3. RamAgrees(PowerOn(mapper))
  BY DEF RamAgrees, PowerOn, Ram
<1> QED BY <1>1, <1>2, <1>3 DEF Agrees

(* Bank 0 is not selected: bank 1 is.                                      *)
LEMMA NonZeroType ==
  ASSUME NEW v \in SUBSET Byte
  PROVE  NonZero(v) \in SUBSET Byte
BY DEF NonZero, One, Byte

-----------------------------------------------------------------------------
(* Selecting banks keeps map and registers together.                       *)

(* A change of the registers the windows do not depend on.                 *)
LEMMA OtherRegisters ==
  ASSUME NEW r, Agrees(r), NEW q \in Registers,
         q.romBank = r.romBank, q.high = r.high, q.ramBank = r.ramBank,
         q.ramAddress = r.ramAddress, q.rom = r.rom, q.ram = r.ram
  PROVE  Agrees(q)
BY DEF Agrees, RomAgrees, RamAgrees, HighUnused

(* A new ROM bank, with the high bits the mapper has.                      *)
LEMMA SelectROMAgrees ==
  ASSUME NEW r, Agrees(r), NEW v \in SUBSET Byte, NEW h, NEW n,
         mapper = "MBC5" => h = r.high /\ n = 8,
         mapper # "MBC5" /\ HighUnused(r) => h = {},
         NEW q, q = SelectROM(r, v, h, n)
  PROVE  Agrees(q)
<1>0. r \in Registers
  BY DEF Agrees
<1>1. /\ q \in Registers /\ q = [r EXCEPT !.romBank = q.romBank, !.rom = q.rom]
      /\ q.romBank = v
      /\ r.romBank # v => q.rom = Rom(v, h, n)
      /\ r.romBank = v => q.rom = r.rom
  BY <1>0, Cut DEF SelectROM, Registers
<1>2. q.high = r.high /\ q.ramBank = r.ramBank /\ q.ramAddress = r.ramAddress /\ q.ram = r.ram
  BY <1>1 DEF Agrees, Registers
<1>3. RamAgrees(q)
  BY <1>2 DEF Agrees, RamAgrees
<1>4. RomAgrees(q)
  <2>1. CASE mapper = "MBC5"
    BY <1>1, <1>2, <2>1 DEF Agrees, RomAgrees, HighUnused
  <2>2. CASE mapper # "MBC5"
    <3>1. CASE HighUnused(q) /\ mapper # "MBC7"
      <4>1. HighUnused(r) /\ h = {}
        BY <1>2, <3>1, <2>2 DEF HighUnused
      <4>2. r.rom = Rom(r.romBank, {}, 8)
        BY <2>2, <3>1, <4>1 DEF Agrees, RomAgrees
      <4>3. Rom(v, {}, n) = Rom(v, {}, 8)
        BY NoHigh
      <4>4. q.rom = Rom(v, {}, 8)
        BY <1>1, <4>1, <4>2, <4>3
      <4> QED BY <1>1, <2>2, <4>4 DEF RomAgrees
    <3>2. CASE ~(HighUnused(q) /\ mapper # "MBC7")
      BY <3>2 DEF RomAgrees
    <3> QED BY <3>1, <3>2
  <2> QED BY <2>1, <2>2
<1> QED BY <1>1, <1>3, <1>4 DEF Agrees

(* A new RAM bank.                                                         *)
LEMMA SelectRAMAgrees ==
  ASSUME NEW r, Agrees(r), HasRam(mapper), NEW v \in SUBSET Byte,
         NEW q, q = SelectRAM(r, v)
  PROVE  Agrees(q)
<1>0. r \in Registers
  BY DEF Agrees
<1>1. /\ q \in Registers
      /\ q = [r EXCEPT !.ramBank = q.ramBank, !.ramAddress = q.ramAddress, !.ram = q.ram]
      /\ q.ramBank = v
      /\ r.ramBank # v => q.ram = Ram(v) /\ q.ramAddress = Ram(v)
      /\ r.ramBank = v => q = r
  <2>1. v \in SUBSET Int32 /\ Ram(v) \in SUBSET RamMask
    BY Cut DEF Byte, Int32
  <2> QED BY <1>0, <2>1 DEF SelectRAM, Registers
<1>2. q.high = r.high /\ q.romBank = r.romBank /\ q.rom = r.rom
  BY <1>1 DEF Agrees, Registers
<1> QED BY <1>1, <1>2 DEF Agrees, RomAgrees, RamAgrees, HighUnused

(* The RAM bank or the high bits of MBC1 and HuC1.                         *)
LEMMA RamOrHighAgrees ==
  ASSUME mapper \in {"MBC1", "HuC1"}, NEW r, Agrees(r), NEW v \in SUBSET Byte
  PROVE  Agrees(RamOrHigh(r, v))
<1> DEFINE w == v \cap 0 .. 1
<1>1. w \in SUBSET Byte
  OBVIOUS
<1>2. CASE r.model
  BY <1>1, <1>2, SelectRAMAgrees DEF RamOrHigh, HasRam
<1>3. CASE ~r.model
  <2> DEFINE q == [r EXCEPT !.high = w, !.rom = Rom(r.romBank, w, 5)]
  <2>1. q = RamOrHigh(r, v)
    BY <1>3 DEF RamOrHigh
  <2>2. /\ q \in Registers /\ q.high = w /\ q.rom = Rom(r.romBank, w, 5)
        /\ q.romBank = r.romBank /\ q.ramBank = r.ramBank
        /\ q.ramAddress = r.ramAddress /\ q.ram = r.ram
    BY <1>1, Cut DEF Agrees, Registers
  <2> HIDE DEF q
  <2>3. RamAgrees(q)
    BY <2>2 DEF Agrees, RamAgrees
  <2>4. RomAgrees(q)
    <3>1. w = {} => Rom(r.romBank, w, 5) = Rom(r.romBank, {}, 8)
      BY NoHigh
    <3> QED BY <2>2, <3>1 DEF RomAgrees, HighUnused
  <2> QED BY <2>1, <2>2, <2>3, <2>4 DEF Agrees
<1> QED BY <1>2, <1>3

(* Bank -1: the window is left where it is.                                *)
LEMMA MinusOneAgrees ==
  ASSUME mapper = "MBC3", NEW r, Agrees(r)
  PROVE  Agrees([r EXCEPT !.ramBank = MinusOne])
<1> DEFINE q == [r EXCEPT !.ramBank = MinusOne]
<1>1. /\ q \in Registers /\ q.ramBank = MinusOne /\ q.romBank = r.romBank
      /\ q.high = r.high /\ q.rom = r.rom /\ q.ram = r.ram
  BY DEF Agrees, Registers, MinusOne
<1> HIDE DEF q
<1>2. Agrees(q)
  BY <1>1 DEF Agrees, RomAgrees, RamAgrees, HighUnused, HasRam
<1> QED BY <1>2 DEF q

(* The same in HuC3, where the flag register does it.                      *)
LEMMA HuC3FlagAgrees ==
  ASSUME mapper = "HuC3", NEW r, Agrees(r), NEW v \in SUBSET Byte
  PROVE  Agrees([r EXCEPT !.ramEnable = v = {1, 3}, !.ramFlag = v,
                          !.ramBank = IF v = {1, 3} THEN @ ELSE MinusOne])
<1> DEFINE q == [r EXCEPT !.ramEnable = v = {1, 3}, !.ramFlag = v,
                          !.ramBank = IF v = {1, 3} THEN @ ELSE MinusOne]
<1>0. MinusOne \in SUBSET Int32
  BY DEF MinusOne
<1>1. /\ q \in Registers /\ q.ramBank \in {r.ramBank, MinusOne} /\ q.romBank = r.romBank
      /\ q.high = r.high /\ q.rom = r.rom /\ q.ram = r.ram
  BY <1>0 DEF Agrees, Registers
<1> HIDE DEF q
<1>2. Agrees(q)
  BY <1>1 DEF Agrees, RomAgrees, RamAgrees, HighUnused, HasRam
<1> QED BY <1>2 DEF q

(* MBC7 has no RAM to show.                                                *)
LEMMA MBC7BankAgrees ==
  ASSUME mapper = "MBC7", NEW r, Agrees(r), NEW v \in SUBSET Byte
  PROVE  Agrees([r EXCEPT !.ramBank = v, !.ramAddress = Ram(v \cap 0 .. 1),
                          !.ramEnable = FALSE, !.ram = GbMemory])
<1> DEFINE q == [r EXCEPT !.ramBank = v, !.ramAddress = Ram(v \cap 0 .. 1),
                          !.ramEnable = FALSE, !.ram = GbMemory]
<1>0. v \in SUBSET Int32 /\ Ram(v \cap 0 .. 1) \in SUBSET RamMask
  BY Cut DEF Byte, Int32
<1>1. q \in Registers /\ q.ram = GbMemory
  BY <1>0 DEF Agrees, Registers
<1> HIDE DEF q
<1>2. Agrees(q)
  BY <1>1 DEF Agrees, RomAgrees, RamAgrees, HasRam
<1> QED BY <1>2 DEF q

(* The ninth bit of MBC5's bank.                                           *)
LEMMA HighBitAgrees ==
  ASSUME mapper = "MBC5", NEW r, Agrees(r), NEW v \in SUBSET Byte
  PROVE  Agrees([r EXCEPT !.high = v \cap One, !.rom = Rom(r.romBank, v \cap One, 8)])
<1> DEFINE w == v \cap One
           q == [r EXCEPT !.high = w, !.rom = Rom(r.romBank, w, 8)]
<1>0. w \in SUBSET Byte /\ Rom(r.romBank, w, 8) \in SUBSET RomMask
  BY Cut
<1> HIDE DEF w
<1>1. /\ q \in Registers /\ q.high = w /\ q.rom = Rom(r.romBank, w, 8)
      /\ q.romBank = r.romBank /\ q.ramBank = r.ramBank /\ q.ram = r.ram
  BY <1>0 DEF Agrees, Registers
<1> HIDE DEF q
<1>2. Agrees(q)
  BY <1>1 DEF Agrees, RomAgrees, RamAgrees, HighUnused, HasRam
<1> QED BY <1>2 DEF q, w

(* Enabling the RAM, the model: no window depends on them.                 *)
LEMMA FlagsAgree ==
  ASSUME NEW r, Agrees(r), NEW b \in BOOLEAN
  PROVE  Agrees([r EXCEPT !.ramEnable = b]) /\ Agrees([r EXCEPT !.model = b])
<1> DEFINE q == [r EXCEPT !.ramEnable = b]
           p == [r EXCEPT !.model = b]
<1>1. /\ q \in Registers /\ q.romBank = r.romBank /\ q.high = r.high
      /\ q.ramBank = r.ramBank /\ q.ramAddress = r.ramAddress
      /\ q.rom = r.rom /\ q.ram = r.ram
  BY DEF Agrees, Registers
<1>2. /\ p \in Registers /\ p.romBank = r.romBank /\ p.high = r.high
      /\ p.ramBank = r.ramBank /\ p.ramAddress = r.ramAddress
      /\ p.rom = r.rom /\ p.ram = r.ram
  BY DEF Agrees, Registers
<1> HIDE DEF q, p
<1>3. Agrees(q) /\ Agrees(p)
  BY <1>1, <1>2, OtherRegisters
<1> QED BY <1>3 DEF q, p

(* Every address names one register.                                       *)
LEMMA OneRegister ==
  ASSUME NEW a \in Addresses
  PROVE  \/ ToEnable(a) /\ ~ToROM(a) /\ ~ToRAM(a) /\ ~ToModel(a)
         \/ ~ToEnable(a) /\ ToROM(a) /\ ~ToRAM(a) /\ ~ToModel(a)
         \/ ~ToEnable(a) /\ ~ToROM(a) /\ ToRAM(a) /\ ~ToModel(a)
         \/ ~ToEnable(a) /\ ~ToROM(a) /\ ~ToRAM(a) /\ ToModel(a)
BY DEF Addresses, ToEnable, ToROM, ToRAM, ToModel

(* No write to any mapper separates map and registers: one case for each.  *)
LEMMA WrittenAgrees ==
  ASSUME mapper \in Mappers, NEW r, Agrees(r), NEW a \in Addresses, NEW v \in SUBSET Byte
  PROVE  Agrees(Written(r, a, v))
<1>1. \A k \in Nat : v \cap 0 .. k \in SUBSET Byte /\ NonZero(v \cap 0 .. k) \in SUBSET Byte
  BY NonZeroType
<1>2. NonZero(v) \in SUBSET Byte
  BY NonZeroType
<1>3. \A b \in BOOLEAN : Agrees([r EXCEPT !.ramEnable = b]) /\ Agrees([r EXCEPT !.model = b])
  BY FlagsAgree
<1>4. Enables(v) \in BOOLEAN /\ (0 \in v) \in BOOLEAN /\ (v \cap 0 .. 3 = {1, 3}) \in BOOLEAN
  BY DEF Enables
<1>5. mapper \notin {"MBC1", "HuC1", "MBC5"} => \A w \in SUBSET Byte : Agrees(SelectROM(r, w, {}, 0))
  BY SelectROMAgrees
<1>7. CASE mapper = "MBC1"
  <2>1. Agrees(SelectROM(r, NonZero(v), IF r.model THEN {} ELSE r.high, 5))
    BY <1>2, <1>7, SelectROMAgrees DEF HighUnused
  <2>2. Agrees(RamOrHigh(r, v))
    BY <1>7, RamOrHighAgrees
  <2>3. Agrees(mapperMBC1ROM(r, a, v))
    BY <1>3, <1>4, <2>1, <2>2, OneRegister DEF mapperMBC1ROM
  <2> QED BY <1>7, <2>3 DEF Written
<1>8. CASE mapper = "MBC2"
  <2>1. Agrees(SelectROM(r, NonZero(v \cap 0 .. 3), {}, 0))
    BY <1>1, <1>5, <1>8
  <2>3. Agrees(mapperMBC2ROM(r, a, v))
    BY <1>3, <1>4, <2>1, OneRegister DEF mapperMBC2ROM
  <2> QED BY <1>8, <2>3 DEF Written
<1>9. CASE mapper = "MBC3"
  <2>1. Agrees(SelectROM(r, NonZero(v \cap 0 .. 6), {}, 0))
    BY <1>1, <1>5, <1>9
  <2>2. Agrees(SelectRAM(r, v))
    BY <1>9, SelectRAMAgrees DEF HasRam
  <2>3. Agrees([r EXCEPT !.ramBank = MinusOne])
    BY <1>9, MinusOneAgrees
  <2>4. Agrees(mapperMBC3ROM(r, a, v))
    BY <1>3, <1>4, <2>1, <2>2, <2>3, OneRegister DEF mapperMBC3ROM
  <2> QED BY <1>9, <2>4 DEF Written
<1>10. CASE mapper = "MBC5"
  <2>1. Agrees(SelectROM(r, v, r.high, 8))
    BY <1>10, SelectROMAgrees
  <2>2. Agrees([r EXCEPT !.high = v \cap One, !.rom = Rom(r.romBank, v \cap One, 8)])
    BY <1>10, HighBitAgrees
  <2>3. Agrees(SelectRAM(r, v \cap 0 .. 3))
    BY <1>1, <1>10, SelectRAMAgrees DEF HasRam
  <2>4. Agrees(mapperMBC5ROM(r, a, v))
    BY <1>3, <1>4, <2>1, <2>2, <2>3, OneRegister DEF mapperMBC5ROM
  <2> QED BY <1>10, <2>4 DEF Written
<1>11. CASE mapper = "MBC7"
  <2>1. Agrees(SelectROM(r, NonZero(v \cap 0 .. 6), {}, 0))
    BY <1>1, <1>5, <1>11
  <2>2. Agrees([r EXCEPT !.ramBank = v, !.ramAddress = Ram(v \cap 0 .. 1),
                         !.ramEnable = FALSE, !.ram = GbMemory])
    BY <1>11, MBC7BankAgrees
  <2>3. Agrees(mapperMBC7ROM(r, a, v))
    BY <1>3, <2>1, <2>2, OneRegister DEF mapperMBC7ROM
  <2> QED BY <1>11, <2>3 DEF Written
<1>12. CASE mapper = "HuC1"
  <2>1. Agrees(SelectROM(r, NonZero(v \cap 0 .. 5), {}, 0))
    BY <1>1, <1>12, SelectROMAgrees
  <2>2. Agrees(RamOrHigh(r, v))
    BY <1>12, RamOrHighAgrees
  <2>3. Agrees(mapperHuC1ROM(r, a, v))
    BY <1>3, <1>4, <2>1, <2>2, OneRegister DEF mapperHuC1ROM
  <2> QED BY <1>12, <2>3 DEF Written
<1>13. CASE mapper = "HuC3"
  <2>1. Agrees(SelectROM(r, NonZero(v \cap 0 .. 6), {}, 0))
    BY <1>1, <1>5, <1>13
  <2>2. Agrees([r EXCEPT !.ramEnable = v = {1, 3}, !.ramFlag = v,
                         !.ramBank = IF v = {1, 3} THEN @ ELSE MinusOne])
    BY <1>13, HuC3FlagAgrees
  <2>3. Agrees(SelectRAM(r, v \cap 0 .. 1))
    BY <1>1, <1>13, SelectRAMAgrees DEF HasRam
  <2>4. Agrees(mapperHuC3ROM(r, a, v))
    BY <2>1, <2>2, <2>3, OneRegister DEF mapperHuC3ROM
  <2> QED BY <1>13, <2>4 DEF Written
<1> QED BY <1>7, <1>8, <1>9, <1>10, <1>11, <1>12, <1>13 DEF Mappers
-----------------------------------------------------------------------------
(* Loading.                                                                *)

(* The rebuilt map shows what the registers say, and these stay.           *)
LEMMA MappedAgrees ==
  ASSUME mapper \in Mappers, NEW r, Agrees(r)
  PROVE  /\ Agrees(Mapped(r))
         /\ HighUnused(r) /\ mapper # "MBC7" =>
              /\ Mapped(r).rom = r.rom
              /\ r.ramBank = MinusOne \/ Mapped(r).ram = r.ram
<1> DEFINE q == Mapped(r)
<1>1. \A b, h, n : Rom(b, h, n) \in SUBSET RomMask /\ Ram(b) \in SUBSET RamMask
  BY Cut
<1>2. r \in Registers
  BY DEF Agrees
<1>3. /\ q \in Registers
      /\ q.romBank = r.romBank /\ q.high = r.high /\ q.ramBank = r.ramBank
      /\ q.ramAddress = r.ramAddress
      /\ mapper = "MBC5" => q.rom = Rom(r.romBank, r.high, 8)
      /\ mapper = "MBC1" => q.rom = Rom(r.romBank, IF r.model THEN r.high ELSE {}, 5)
      /\ mapper \in {"MBC2", "MBC3"} => q.rom = Rom(r.romBank, {}, 0)
      /\ mapper \in {"HuC1", "HuC3"} => q.rom = Rom(r.romBank, {}, 0)
      /\ mapper = "MBC1" => q.ram = r.ramAddress
      /\ mapper = "MBC3" => q.ram = IF r.ramBank = MinusOne THEN GbMemory ELSE Ram(r.ramBank)
      /\ mapper \in {"MBC5", "HuC1", "HuC3"} => q.ram = Ram(r.ramBank)
      /\ mapper \in {"MBC2", "MBC7"} => q.ram = GbMemory
  <2>1. CASE mapper = "MBC1"
    BY <1>1, <1>2, <2>1 DEF Mapped, memoryUpdateMapMBC1, Registers
  <2>2. CASE mapper = "MBC2"
    BY <1>1, <1>2, <2>2 DEF Mapped, memoryUpdateMapMBC2, Registers
  <2>3. CASE mapper = "MBC3"
    BY <1>1, <1>2, <2>3 DEF Mapped, memoryUpdateMapMBC3, Registers
  <2>4. CASE mapper = "MBC5"
    BY <1>1, <1>2, <2>4 DEF Mapped, memoryUpdateMapMBC5, Registers
  <2>5. CASE mapper = "MBC7"
    BY <1>1, <1>2, <2>5 DEF Mapped, memoryUpdateMapMBC7, Registers
  <2>6. CASE mapper \in {"HuC1", "HuC3"}
    BY <1>1, <1>2, <2>6 DEF Mapped, memoryUpdateMapHuC, Registers
  <2> QED BY <2>1, <2>2, <2>3, <2>4, <2>5, <2>6 DEF Mappers
<1> HIDE DEF q
<1>4. HighUnused(q) <=> HighUnused(r)
  BY <1>3 DEF HighUnused
<1>5. HighUnused(r) /\ mapper # "MBC7" =>
        q.rom = Rom(r.romBank, IF mapper = "MBC5" THEN r.high ELSE {}, 8)
  <2>1. mapper \in {"MBC1", "HuC1"} /\ HighUnused(r) => r.high = {}
    BY DEF HighUnused
  <2>2. \A n, k : Rom(r.romBank, {}, n) = Rom(r.romBank, {}, k)
    BY NoHigh
  <2>3. CASE mapper = "MBC5"
    BY <1>3, <2>3
  <2>4. CASE mapper \in {"MBC1", "HuC1"}
    <3> SUFFICES ASSUME HighUnused(r)
                 PROVE  q.rom = Rom(r.romBank, {}, 8)
      BY <2>4
    <3>1. (IF r.model THEN r.high ELSE {}) = {}
      BY <2>1, <2>4
    <3> QED BY <1>3, <2>2, <2>4, <3>1
  <2>5. CASE mapper \in {"MBC2", "MBC3", "HuC3"}
    BY <1>3, <2>2, <2>5
  <2> QED BY <2>3, <2>4, <2>5 DEF Mappers
<1>6. RomAgrees(q)
  BY <1>3, <1>4, <1>5 DEF RomAgrees
<1>7. RamAgrees(q)
  BY <1>3 DEF RamAgrees, Agrees, HasRam, Mappers
<1>8. HighUnused(r) /\ mapper # "MBC7" => q.rom = r.rom
  BY <1>5 DEF Agrees, RomAgrees
<1>9. mapper # "MBC7" => r.ramBank = MinusOne \/ q.ram = r.ram
  BY <1>3, <1>7 DEF RamAgrees, Agrees
<1> QED BY <1>3, <1>6, <1>7, <1>8, <1>9 DEF Agrees, q

-----------------------------------------------------------------------------
(* The invariant.                                                          *)

(* It holds when the game starts.                                          *)
LEMMA InitMapInv == Init => MapInv
BY PowerOnAgrees DEF Init, MapInv, Agrees

(* Every step keeps it.                                                    *)
LEMMA NextMapInv == MapInv /\ [Next]_vars => MapInv'
<1> SUFFICES ASSUME MapInv, [Next]_vars PROVE MapInv'
  OBVIOUS
<1>0. mapper \in Mappers
  BY CartridgesAssumption DEF MapInv
<1>1. ASSUME NEW a \in Addresses, NEW v \in Values, Write(a, v) PROVE MapInv'
  <2>1. Agrees(c')
    BY <1>0, <1>1, ValuesAssumption, WrittenAgrees DEF Write, MapInv
  <2> QED BY <1>1, <2>1 DEF Write, MapInv, Agrees, RomAgrees, RamAgrees, HighUnused
<1>2. CASE Reset
  <2>1. Agrees(PowerOn(mapper))
    BY PowerOnAgrees DEF MapInv
  <2>2. CASE mapper = "MBC7"
    <3> DEFINE q == [c EXCEPT !.rom = One, !.ram = GbMemory]
    <3>1. One \in SUBSET RomMask
      BY BankZero DEF One
    <3>2. q \in Registers /\ q.ram = GbMemory
      BY <3>1 DEF MapInv, Agrees, Registers
    <3>3. c' = q
      BY <1>2, <2>2 DEF Reset
    <3> HIDE DEF q
    <3>4. Agrees(q)
      BY <2>2, <3>2 DEF Agrees, RomAgrees, RamAgrees, HasRam
    <3> QED BY <1>2, <3>3, <3>4 DEF Reset, MapInv, Agrees, RomAgrees, RamAgrees, HighUnused
  <2>3. CASE mapper # "MBC7"
    <3>1. Agrees(c')
      BY <1>2, <2>1, <2>3 DEF Reset
    <3> QED BY <1>2, <3>1 DEF Reset, MapInv, Agrees, RomAgrees, RamAgrees, HighUnused
  <2> QED BY <2>2, <2>3
<1>3. ASSUME NEW n \in Slots, Save(n) PROVE MapInv'
  <2>1. /\ saved' \in [Slots -> Registers]
        /\ \A k \in Slots : saved'[k] \in {saved[k], c}
    BY <1>3 DEF Save, MapInv, Agrees
  <2>2. \A k \in Slots : Agrees(saved'[k])
    BY <2>1 DEF MapInv
  <2> QED BY <1>3, <2>1, <2>2 DEF Save, MapInv, Agrees, RomAgrees, RamAgrees, HighUnused
<1>4. ASSUME NEW n \in Slots, Load(n) PROVE MapInv'
  <2>1. Agrees(c')
    BY <1>0, <1>4, MappedAgrees DEF Load, MapInv
  <2> QED BY <1>4, <2>1 DEF Load, MapInv, Agrees, RomAgrees, RamAgrees, HighUnused
<1>5. CASE UNCHANGED vars
  BY <1>5 DEF vars, MapInv, Agrees, RomAgrees, RamAgrees, HighUnused
<1> QED BY <1>1, <1>2, <1>3, <1>4, <1>5 DEF Next

(* It holds always.                                                        *)
LEMMA MapAgrees == Spec => []MapInv
BY InitMapInv, NextMapInv, PTL DEF Spec

-----------------------------------------------------------------------------
(* The theorems.                                                           *)

(* The windows stay inside the cartridge and the registers keep their      *)
(* widths, whatever is written.                                            *)
THEOREM MappersTypes == Spec => []TypeOK
<1>1. MapInv => TypeOK
  BY DEF MapInv, Agrees, TypeOK
<1> QED BY <1>1, MapAgrees, PTL

(* The map that a load computes is the map of when the state was saved.    *)
THEOREM LoadsRestore == Spec => []LoadRestoresMap
<1>1. MapInv => LoadRestoresMap
  <2> SUFFICES ASSUME MapInv, NEW n \in Slots, HighUnused(saved[n]), mapper # "MBC7"
               PROVE  /\ Mapped(saved[n]).rom = saved[n].rom
                      /\ saved[n].ramBank = MinusOne \/ Mapped(saved[n]).ram = saved[n].ram
    BY DEF LoadRestoresMap
  <2>1. mapper \in Mappers
    BY CartridgesAssumption DEF MapInv
  <2> QED BY <2>1, MappedAgrees DEF MapInv
<1> QED BY <1>1, MapAgrees, PTL

(* The bank a program writes is the bank it sees.                          *)
THEOREM BanksAreSelected == Spec => []BankIsSelected
<1>1. MapInv => BankIsSelected
  <2> SUFFICES ASSUME MapInv, NEW a \in Addresses, NEW v \in Values,
                      ToROM(a), mapper = "MBC2" => 8 \in a, HighUnused(c), mapper # "MBC7"
               PROVE  Written(c, a, v).rom = NamedROM(a, v) \cap RomMask
    BY DEF BankIsSelected
  <2>1. mapper \in Mappers /\ c \in Registers
        /\ c.rom = Rom(c.romBank, IF mapper = "MBC5" THEN c.high ELSE {}, 8)
    BY CartridgesAssumption DEF MapInv, Agrees, RomAgrees
  <2>2. \A k, h, n : SelectROM(c, k, h, n).rom = IF k = c.romBank THEN c.rom ELSE Rom(k, h, n)
    BY <2>1 DEF SelectROM, Registers
  <2>3. \A k, n : mapper # "MBC5" => SelectROM(c, k, {}, n).rom = k \cap RomMask
    BY <2>1, <2>2, NoHigh
  <2>4. ~ToEnable(a) /\ ~ToRAM(a) /\ ~ToModel(a)
    BY OneRegister
  <2>5. CASE mapper = "MBC1"
    <3>1. (IF c.model THEN {} ELSE c.high) = {}
      BY <2>5 DEF HighUnused
    <3>2. Written(c, a, v) = SelectROM(c, NonZero(v), {}, 5)
      BY <2>4, <2>5, <3>1 DEF Written, mapperMBC1ROM
    <3> QED BY <2>3, <2>5, <3>2 DEF NamedROM
  <2>6. CASE mapper = "MBC2"
    <3>1. Written(c, a, v) = SelectROM(c, NonZero(v \cap 0 .. 3), {}, 0)
      BY <2>4, <2>6 DEF Written, mapperMBC2ROM
    <3> QED BY <2>3, <2>6, <3>1 DEF NamedROM
  <2>7. CASE mapper \in {"MBC3", "HuC3"}
    <3>1. Written(c, a, v) = SelectROM(c, NonZero(v \cap 0 .. 6), {}, 0)
      BY <2>4, <2>7 DEF Written, mapperMBC3ROM, mapperHuC3ROM
    <3> QED BY <2>3, <2>7, <3>1 DEF NamedROM
  <2>8. CASE mapper = "HuC1"
    <3>1. Written(c, a, v) = SelectROM(c, NonZero(v \cap 0 .. 5), {}, 0)
      BY <2>4, <2>8 DEF Written, mapperHuC1ROM
    <3> QED BY <2>3, <2>8, <3>1 DEF NamedROM
  <2>9. CASE mapper = "MBC5"
    <3>1. c.rom = Rom(c.romBank, c.high, 8)
      BY <2>1, <2>9
    <3>2. CASE 12 \notin a
      <4>1. Written(c, a, v) = SelectROM(c, v, c.high, 8)
        BY <2>4, <2>9, <3>2 DEF Written, mapperMBC5ROM
      <4>2. Written(c, a, v).rom = Rom(v, c.high, 8)
        BY <2>2, <3>1, <4>1
      <4> QED BY <2>9, <3>2, <4>2 DEF NamedROM, Rom
    <3>3. CASE 12 \in a
      <4>1. Written(c, a, v) = IF v \cap One = c.high THEN c
                 ELSE [c EXCEPT !.high = v \cap One, !.rom = Rom(c.romBank, v \cap One, 8)]
        BY <2>4, <2>9, <3>3 DEF Written, mapperMBC5ROM
      <4>2. Written(c, a, v).rom = Rom(c.romBank, v \cap One, 8)
        BY <2>1, <3>1, <4>1 DEF Registers
      <4> QED BY <2>9, <3>3, <4>2 DEF NamedROM, Rom
    <3> QED BY <3>2, <3>3
  <2> QED BY <2>1, <2>5, <2>6, <2>7, <2>8, <2>9 DEF Mappers
<1> QED BY <1>1, MapAgrees, PTL
=============================================================================
