------------------------------- MODULE Flash -------------------------------
(* The flash memory of a Game Boy Advance cartridge, gba/Flash.cpp, and the   *)
(* SRAM that shares its array, gba/Sram.cpp.  A game talks to the flash chip  *)
(* by writes to two unlock addresses; what such a write means depends on the  *)
(* writes before it.  Only the cells the game uses are kept.                  *)
EXTENDS SaveCounter

CONSTANTS Cells,      \* the addresses of a bank that the game uses
          SectorSize  \* 4096
ASSUME FlashAssumption == Cells \subseteq Nat /\ SectorSize \in Nat \ {0}

K5555 == 21845  \* 0x5555
K2AAA == 10922  \* 0x2AAA
Banks == {0, 1}
Bytes == 0 .. 255
Array == Banks \X (Cells \cup {K5555, K2AAA})

VARIABLES
  flashState, flashReadState,
  flashSize,      \* in banks: 0x10000 is 1, 0x20000 is 2
  flashDeviceID,  \* with flashManufacturerID: those of a chip of 1 or 2 banks
  flashBank,
  flashSaveMemory
flashVars == <<flashState, flashReadState, flashSize, flashDeviceID, flashBank,
               flashSaveMemory>>

Programs == {"CMD_5", "PROGRAM", "SETBANK"}  \* the next write does something
FlashStates == {"READ_ARRAY", "CMD_1", "CMD_2", "CMD_3", "CMD_4", "AUTOSELECT"}
                 \cup Programs
FlashReadStates == {"READ_ARRAY", "AUTOSELECT", "ERASE_COMPLETE"}

FlashTypeOK ==
  /\ flashState \in FlashStates /\ flashReadState \in FlashReadStates
  /\ flashSize \in {1, 2} /\ flashDeviceID \in {1, 2} /\ flashBank \in Banks
  /\ flashSaveMemory \in [Array -> Bytes]

\* The state in which a write of a byte to an address is part of a command,
\* and the state that follows it.
Commands ==
  {<<"READ_ARRAY", K5555, 170, "CMD_1">>, <<"CMD_1", K2AAA, 85, "CMD_2">>,
   <<"CMD_2", K5555, 144, "AUTOSELECT">>, <<"CMD_2", K5555, 128, "CMD_3">>,
   <<"CMD_2", K5555, 160, "PROGRAM">>, <<"CMD_3", K5555, 170, "CMD_4">>,
   <<"CMD_4", K2AAA, 85, "CMD_5">>, <<"AUTOSELECT", K5555, 170, "CMD_1">>}
  \cup (IF flashSize = 2 THEN {<<"CMD_2", K5555, 176, "SETBANK">>} ELSE {})

flashCommand(address, byte) ==
  \E s \in FlashStates :
    /\ <<flashState, address, byte, s>> \in Commands
    /\ flashState' = s
    /\ flashReadState' = IF s = "AUTOSELECT" THEN s ELSE flashReadState
    /\ UNCHANGED <<flashSize, flashDeviceID, flashBank, flashSaveMemory,
                   systemSaveUpdateCounter>>

\* A write that is not part of a command ends it.  After the first two writes
\* of one it does not end the identification of the chip.
flashAbort(address, byte) ==
  /\ flashState \notin Programs
  /\ \A s \in FlashStates : <<flashState, address, byte, s>> \notin Commands
  /\ flashState' = "READ_ARRAY"
  /\ flashReadState' = IF flashState \in {"READ_ARRAY", "CMD_1"}
                         THEN flashReadState ELSE "READ_ARRAY"
  /\ UNCHANGED <<flashSize, flashDeviceID, flashBank, flashSaveMemory,
                 systemSaveUpdateCounter>>

Erased(cells) ==
  [c \in Array |-> IF c \in cells THEN 0 ELSE flashSaveMemory[c]]
Sector(address) ==
  {c \in Array : c[1] = flashBank /\ c[2] \div SectorSize = address \div SectorSize}
Chip == {c \in Array : c[1] < flashSize}

\* Mutant: the game is not told that the chip is erased.
EraseUnseen(address, byte) ==
  /\ flashState = "CMD_5" /\ byte \in {48, 16}
  /\ flashSaveMemory' = Erased(IF byte = 48 THEN Sector(address) ELSE Chip)
  /\ flashState' = "READ_ARRAY" /\ saveUpdated
  /\ UNCHANGED <<flashReadState, flashSize, flashDeviceID, flashBank>>

\* The erased chip waits in CMD_5 until the game sees that it is done.
flashErasing(address, byte) ==
  /\ flashState = "CMD_5" /\ byte \in {48, 16}
  /\ flashSaveMemory' = Erased(IF byte = 48 THEN Sector(address) ELSE Chip)
  /\ flashReadState' = "ERASE_COMPLETE"
  /\ saveUpdated
  /\ UNCHANGED <<flashState, flashSize, flashDeviceID, flashBank>>

flashToArray == flashState' = "READ_ARRAY" /\ flashReadState' = "READ_ARRAY"

flashNoErase(byte) ==
  /\ flashState = "CMD_5" /\ byte \notin {48, 16} /\ flashToArray
  /\ UNCHANGED <<flashSize, flashDeviceID, flashBank, flashSaveMemory,
                 systemSaveUpdateCounter>>

flashProgram(address, byte) ==
  /\ flashState = "PROGRAM"
  /\ flashSaveMemory' = [flashSaveMemory EXCEPT ![<<flashBank, address>>] = byte]
  /\ saveUpdated /\ flashToArray
  /\ UNCHANGED <<flashSize, flashDeviceID, flashBank>>

flashSetBank(address, byte) ==
  /\ flashState = "SETBANK"
  /\ flashBank' = IF address = 0 THEN byte % 2 ELSE flashBank
  /\ flashToArray
  /\ UNCHANGED <<flashSize, flashDeviceID, flashSaveMemory, systemSaveUpdateCounter>>

flashWrite(address, byte) ==
  \/ flashCommand(address, byte) \/ flashAbort(address, byte)
  \/ flashErasing(address, byte) \/ flashNoErase(byte)
  \/ flashProgram(address, byte) \/ flashSetBank(address, byte)

\* What the game reads, and what the read does: it takes note of the end of an
\* erase.
flashRead(address) ==
  CASE flashReadState = "READ_ARRAY" -> flashSaveMemory[<<flashBank, address>>]
    [] flashReadState = "AUTOSELECT" ->
         IF address % 256 \in {0, 1} THEN flashDeviceID ELSE 0
    [] flashReadState = "ERASE_COMPLETE" -> 255
flashReadDone ==
  /\ IF flashReadState = "ERASE_COMPLETE" THEN flashToArray
       ELSE UNCHANGED <<flashState, flashReadState>>
  /\ UNCHANGED <<flashSize, flashDeviceID, flashBank, flashSaveMemory>>

\* Mutant: a reset leaves the chip in the middle of a command.
ResetBankOnly == flashBank' = 0 /\ UNCHANGED <<flashState, flashReadState>>

flashReset == flashToArray /\ flashBank' = 0
flashSetSize(size) == flashSize' = size /\ flashDeviceID' = size

\* The part of a save state that is the chip's: all but its identification.
flashSaveGame == <<flashState, flashReadState, flashSize, flashBank, flashSaveMemory>>
flashReadGame(s) ==
  /\ flashState' = s[1] /\ flashReadState' = s[2] /\ flashSize' = s[3]
  /\ flashBank' = s[4] /\ flashSaveMemory' = s[5] /\ UNCHANGED flashDeviceID

\* The SRAM is the first bank, without commands.
sramWrite(address, byte) ==
  /\ flashSaveMemory' = [flashSaveMemory EXCEPT ![<<0, address>>] = byte]
  /\ saveUpdated
  /\ UNCHANGED <<flashState, flashReadState, flashSize, flashDeviceID, flashBank>>
=============================================================================
