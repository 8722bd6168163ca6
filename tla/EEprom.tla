------------------------------- MODULE EEprom -------------------------------
(* The EEPROM of a Game Boy Advance cartridge, gba/EEprom.cpp: a serial chip  *)
(* that a game drives by DMA, one bit a transfer.  The emulator learns how    *)
(* large the chip is from the length of the DMA.  eepromByte goes with        *)
(* eepromBits, and the buffer is kept as the bits it holds.                   *)
EXTENDS SaveCounter, Sequences

CONSTANTS
  NarrowBits, WideBits,  \* the address bits of the two chips: 6, 14
  UnusedBits,            \* how many of the wide address are always 0: 4
  DataBits               \* the bits of a block: 64
ASSUME EEpromAssumption ==
  /\ {NarrowBits, WideBits, DataBits} \subseteq Nat \ {0} /\ UnusedBits \in Nat
  /\ UnusedBits + NarrowBits < WideBits /\ DataBits > 1
  /\ {NarrowBits + 3, NarrowBits + DataBits + 3}
       \cap {WideBits + 3, WideBits + DataBits + 3} = {}

VARIABLES eepromMode, eepromBits, eepromBuffer, eepromAddress, eepromInUse,
          eepromSize, eepromData
eepromVars == <<eepromMode, eepromBits, eepromBuffer, eepromAddress, eepromInUse,
                eepromSize, eepromData>>

Bit == {0, 1}
\* A block is known by the bits of its address, the highest first.
Blocks == {c \in [1 .. WideBits -> Bit] : \A i \in 1 .. UnusedBits : c[i] = 0}
SmallBlocks == {c \in Blocks : \A i \in 1 .. WideBits - NarrowBits : c[i] = 0}
SmallSize == 512
LargeSize == 8192
Zeros == [i \in 1 .. DataBits |-> 0]
FirstBlock == [i \in 1 .. WideBits |-> 0]
Dummies == 4  \* the bits before the data that is read
EEpromModes == {"IDLE", "READADDRESS", "READDATA", "READDATA2", "WRITEDATA"}

EEpromTypeOK ==
  /\ eepromMode \in EEpromModes /\ eepromBits \in 0 .. WideBits + DataBits + 3
  /\ eepromBuffer \in Seq(Bit) /\ eepromAddress \in Blocks
  /\ eepromInUse \in BOOLEAN /\ eepromSize \in {SmallSize, LargeSize}
  /\ eepromData \in [Blocks -> [1 .. DataBits -> Bit]]

\* The DMA has the length of a command to the large chip.
Wide(cpuDmaCount) == cpuDmaCount \in {WideBits + 3, WideBits + DataBits + 3}
Width(cpuDmaCount) == IF Wide(cpuDmaCount) THEN WideBits ELSE NarrowBits

\* The address in a command, behind its first two bits.
AddressIn(buffer, width) ==
  [i \in 1 .. WideBits |->
     IF i <= WideBits - width THEN 0 ELSE buffer[i - (WideBits - width) + 2]]

eepromStart(bit) ==
  /\ eepromMode = "IDLE"
  /\ eepromMode' = "READADDRESS" /\ eepromBits' = 1 /\ eepromBuffer' = <<bit>>
  /\ UNCHANGED <<eepromAddress, eepromInUse, eepromSize, eepromData,
                 systemSaveUpdateCounter>>

eepromTakeAddress(bit, cpuDmaCount) ==
  /\ eepromMode = "READADDRESS"
  /\ eepromBits + 1 # Width(cpuDmaCount) + 3
  /\ eepromBits' = eepromBits + 1 /\ eepromBuffer' = Append(eepromBuffer, bit)
  /\ UNCHANGED <<eepromMode, eepromAddress, eepromInUse, eepromSize, eepromData,
                 systemSaveUpdateCounter>>

\* The bit behind the address: the end of a request to read (the second bit of
\* the command is 1), or the first bit of the data to write.
eepromHasAddress(bit, cpuDmaCount) ==
  /\ eepromMode = "READADDRESS"
  /\ eepromBits + 1 = Width(cpuDmaCount) + 3
  /\ eepromInUse' = TRUE
  /\ eepromSize' = IF Wide(cpuDmaCount) THEN LargeSize ELSE eepromSize
  /\ eepromAddress' = AddressIn(eepromBuffer, Width(cpuDmaCount))
  /\ \/ /\ eepromBuffer[2] = 0
        /\ eepromMode' = "WRITEDATA" /\ eepromBits' = 1 /\ eepromBuffer' = <<bit>>
     \/ /\ eepromBuffer[2] = 1
        /\ eepromMode' = "READDATA" /\ eepromBits' = 0
        /\ eepromBuffer' = Append(eepromBuffer, bit)
  /\ UNCHANGED <<eepromData, systemSaveUpdateCounter>>

\* A write while the chip has data to give is lost.
eepromStopRead ==
  /\ eepromMode \in {"READDATA", "READDATA2"} /\ eepromMode' = "IDLE"
  /\ UNCHANGED <<eepromBits, eepromBuffer, eepromAddress, eepromInUse, eepromSize,
                 eepromData, systemSaveUpdateCounter>>

eepromTakeData(bit) ==
  /\ eepromMode = "WRITEDATA" /\ eepromBits < DataBits
  /\ eepromBits' = eepromBits + 1 /\ eepromBuffer' = Append(eepromBuffer, bit)
  /\ IF eepromBits' = DataBits
       THEN /\ eepromInUse' = TRUE /\ saveUpdated
            /\ eepromData' = [eepromData EXCEPT ![eepromAddress] = eepromBuffer']
       ELSE UNCHANGED <<eepromInUse, eepromData, systemSaveUpdateCounter>>
  /\ UNCHANGED <<eepromMode, eepromAddress, eepromSize>>

eepromStop ==
  /\ eepromMode = "WRITEDATA" /\ eepromBits = DataBits
  /\ eepromMode' = "IDLE" /\ eepromBits' = 0
  /\ UNCHANGED <<eepromBuffer, eepromAddress, eepromInUse, eepromSize, eepromData,
                 systemSaveUpdateCounter>>

\* A write that is not part of a DMA does nothing.
eepromWrite(bit, cpuDmaCount) ==
  \/ cpuDmaCount = 0 /\ UNCHANGED <<eepromVars, systemSaveUpdateCounter>>
  \/ /\ cpuDmaCount # 0
     /\ \/ eepromStart(bit) \/ eepromTakeAddress(bit, cpuDmaCount)
        \/ eepromHasAddress(bit, cpuDmaCount)
        \/ eepromStopRead \/ eepromTakeData(bit) \/ eepromStop

\* What the game reads, and what the read does.
eepromRead ==
  CASE eepromMode = "READDATA" -> 0
    [] eepromMode = "READDATA2" -> eepromData[eepromAddress][eepromBits + 1]
    [] OTHER -> 1
eepromReadDone ==
  /\ \/ eepromMode \notin {"READDATA", "READDATA2"} /\ UNCHANGED <<eepromMode, eepromBits>>
     \/ /\ eepromMode = "READDATA" /\ eepromBits + 1 < Dummies
        /\ eepromBits' = eepromBits + 1 /\ UNCHANGED eepromMode
     \/ /\ eepromMode = "READDATA" /\ eepromBits + 1 = Dummies
        /\ eepromMode' = "READDATA2" /\ eepromBits' = 0
     \/ /\ eepromMode = "READDATA2" /\ eepromBits' = eepromBits + 1
        /\ eepromMode' = IF eepromBits' = DataBits THEN "IDLE" ELSE eepromMode
  /\ UNCHANGED <<eepromBuffer, eepromAddress, eepromInUse, eepromSize, eepromData>>

eepromReset ==
  /\ eepromMode' = "IDLE" /\ eepromBits' = 0 /\ eepromAddress' = FirstBlock
  /\ eepromInUse' = FALSE /\ eepromSize' = SmallSize

\* The part of a save state that is the chip's.
eepromSaveGame == eepromVars
eepromReadGame(s) ==
  /\ eepromMode' = s[1] /\ eepromBits' = s[2] /\ eepromBuffer' = s[3]
  /\ eepromAddress' = s[4] /\ eepromInUse' = s[5] /\ eepromSize' = s[6]
  /\ eepromData' = s[7]
=============================================================================
