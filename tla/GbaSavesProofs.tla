--------------------------- MODULE GbaSavesProofs ---------------------------
(* Theorems about GbaSaves: in every reachable state the chip is where the     *)
(* game is, so that what it does is what was ordered.                         *)
EXTENDS GbaSaves, TLAPS

----------------------------------------------------------------------------
(* The invariant                                                              *)

\* The parts of a save state: F the flash memory's, E the EEPROM's, R the
\* clock's, t the save type, and of the game the order o, how much of it is done,
\* d, what was read, g, the bank b and the memory m that is expected.

\* So many bits of f are in s.
Starts(s, f, n) ==
  s \in Seq({0, 1}) /\ Len(s) = n /\ \A i \in 1 .. n : s[i] = f[i]

\* A memory holds nothing outside the chip.
InChip(c) ==
  CASE chip = "EEPROM512" -> c \in SmallBlocks [] chip = "EEPROM8K" -> TRUE
    [] chip \notin EEPROMs -> c[1] < FlashBanks
Values == IF chip \in EEPROMs THEN [1 .. DataBits -> Bit] ELSE Bytes
Fits(m) ==
  m \in [AllCells -> Values] /\ \A c \in AllCells : ~InChip(c) => m[c] = Blank[c]

\* A chip that is not there.
NoFlash(F) ==
  /\ F[1] = "READ_ARRAY" /\ F[2] = "READ_ARRAY" /\ F[3] = FlashBanks /\ F[4] = 0
  /\ F[5] = [c \in Array |-> 0]
NoEEprom(E) ==
  /\ E[1] = "IDLE" /\ E[2] = 0 /\ E[3] = <<>> /\ E[4] = FirstBlock /\ E[5] = FALSE
  /\ E[6] = SmallSize /\ E[7] = [c \in Blocks |-> Zeros]
NoRtc(R) ==
  /\ R[1] = 0 /\ R[2] = 0 /\ R[3] = 0 /\ R[4] = "IDLE" /\ R[5] = 0
  /\ R[6] = <<>> /\ R[7] = <<>>

\* The flash memory follows its commands.
FlashOrder(o) ==
  \/ o.kind = "program" /\ o.cell \in Cells /\ o.value \in Data
  \/ o.kind \in {"sector", "read"} /\ o.cell \in Cells
  \/ o.kind \in {"chip", "identify"} /\ o.cell = 0
  \/ o.kind = "bank" /\ o.value \in 0 .. FlashBanks - 1
Erasing(o) == o.kind \in {"sector", "chip"}
FlashStateAt(o, d) ==
  CASE d = 0 \/ d = Length(o) -> "READ_ARRAY"
    [] d = 1 /\ d # Length(o) -> "CMD_1" [] d = 2 -> "CMD_2"
    [] d = 3 /\ o.kind = "program" -> "PROGRAM"
    [] d = 3 /\ o.kind = "bank" -> IF FlashBanks = 2 THEN "SETBANK" ELSE "READ_ARRAY"
    [] d \in {3, 4} /\ o.kind = "identify" -> "AUTOSELECT"
    [] d = 3 /\ Erasing(o) -> "CMD_3" [] d = 4 /\ Erasing(o) -> "CMD_4"
    [] d \in {5, 6} /\ Erasing(o) -> "CMD_5"
FlashReadStateAt(o, d) ==
  CASE d \in {3, 4} /\ o.kind = "identify" -> "AUTOSELECT"
    [] d = 6 /\ Erasing(o) -> "ERASE_COMPLETE" [] OTHER -> "READ_ARRAY"
FlashGot(o, d, b, m) ==
  CASE d = 1 /\ o.kind = "read" -> <<m[<<b, o.cell>>]>>
    [] d \in {4, 5} /\ o.kind = "identify" -> <<FlashBanks>>
    [] d = 7 -> <<255>> [] OTHER -> <<>>
FlashAt(F, t, o, d, g, b, m) ==
  /\ F[3] = FlashBanks /\ F[4] = b /\ F[5] = m /\ b \in 0 .. FlashBanks - 1
  /\ t \in {0, 2}
  /\ \/ o = NoOrder /\ d = 0 /\ g = <<>> /\ F[1] = "READ_ARRAY" /\ F[2] = "READ_ARRAY"
     \/ /\ FlashOrder(o) /\ d \in 0 .. Length(o)
        /\ F[1] = FlashStateAt(o, d) /\ F[2] = FlashReadStateAt(o, d)
        /\ g = FlashGot(o, d, b, m)
        /\ o.kind # "read" /\ d > 0 => t = 2

\* The SRAM has no commands.
SramAt(F, t, o, d, g, b, m) ==
  /\ F[1] = "READ_ARRAY" /\ F[2] = "READ_ARRAY" /\ F[3] = 1 /\ F[4] = 0 /\ F[5] = m
  /\ t \in {0, 1} /\ b = 0
  /\ \/ o = NoOrder /\ d = 0 /\ g = <<>>
     \/ /\ o.kind \in {"read", "write"} /\ o.cell \in Cells \ {K5555}
        /\ o.kind = "write" => o.value \in Data
        /\ d \in {0, 1}
        /\ g = IF d = 1 /\ o.kind = "read" THEN <<m[<<0, o.cell>>]>> ELSE <<>>

\* The EEPROM goes through the bits of a DMA.
EEpromOrder(o) ==
  /\ o.kind \in {"read", "write"} /\ o.cell \in EEpromBlocks
  /\ o.kind = "write" => o.value \in BlockData
DmaBits(o) == [i \in 1 .. DmaLength(o) |-> DmaBit(o, i)]
Gave(g, block, n) ==
  /\ g \in Seq(Bit) /\ Len(g) = Dummies + n
  /\ \A j \in 1 .. n : g[Dummies + j] = block[j]
Idles(E, o, d, g, m) ==
  /\ E[1] = "IDLE" /\ E[2] \in 0 .. DataBits
  /\ \/ d = 0 /\ g = <<>>
     \/ d = Length(o) /\ o.kind = "write" /\ g = <<>>
     \/ d = Length(o) /\ o.kind = "read" /\ Gave(g, m[o.cell], DataBits)
TakesAddress(E, o, d, g) ==
  /\ d \in 1 .. AddressBits + 2 /\ g = <<>>
  /\ E[1] = "READADDRESS" /\ E[2] = d /\ Starts(E[3], DmaBits(o), d)
TakesData(E, o, d, g) ==
  /\ o.kind = "write" /\ d \in AddressBits + 3 .. DmaLength(o) - 1 /\ g = <<>>
  /\ E[1] = "WRITEDATA" /\ E[2] = d - AddressBits - 2
  /\ Starts(E[3], o.value, d - AddressBits - 2)
  /\ E[4] = o.cell
GivesDummies(E, o, d, g) ==
  /\ o.kind = "read" /\ d \in DmaLength(o) .. DmaLength(o) + Dummies - 1
  /\ E[1] = "READDATA" /\ E[2] = d - DmaLength(o) /\ E[4] = o.cell
  /\ g \in Seq(Bit) /\ Len(g) = d - DmaLength(o)
GivesData(E, o, d, g, m) ==
  /\ o.kind = "read"
  /\ d \in DmaLength(o) + Dummies .. DmaLength(o) + Dummies + DataBits - 1
  /\ E[1] = "READDATA2" /\ E[2] = d - DmaLength(o) - Dummies /\ E[4] = o.cell
  /\ Gave(g, m[o.cell], d - DmaLength(o) - Dummies)
EEpromAt(E, o, d, g, m) ==
  /\ E[3] \in Seq(Bit) /\ E[4] \in Blocks /\ E[5] \in BOOLEAN
  /\ E[6] \in {SmallSize, LargeSize} /\ (chip = "EEPROM512" => E[6] = SmallSize)
  /\ E[7] = m
  /\ \/ o = NoOrder /\ d = 0 /\ g = <<>> /\ E[1] = "IDLE" /\ E[2] \in 0 .. DataBits
     \/ /\ EEpromOrder(o)
        /\ \/ Idles(E, o, d, g, m) \/ TakesAddress(E, o, d, g) \/ TakesData(E, o, d, g)
           \/ GivesDummies(E, o, d, g) \/ GivesData(E, o, d, g, m)

\* The clock takes a command, and then data or gives it.
Asks(o) == o.cell \in {GetControl, GetDate, GetTime}
RtcOrder(o) == o.kind = "command" /\ o.cell \in RtcCommands /\ o.time \in 0 .. now
Latched(o, data) == \E s \in o.time .. now : data = Answer(o.cell, s)
RtcGot(o, g) == IF Asks(o) THEN Latched(o, g) ELSE g = <<>>
RtcRests(R, o, d, g) ==
  /\ R[4] = "IDLE"
  /\ \/ d = 0 /\ R[1] \in {0, 1} /\ g = <<>>
     \/ d = 1 /\ R[1] \in {0, 1} /\ R[3] = 1 /\ g = <<>>
     \/ d = 2 /\ R[1] = 1 /\ R[3] = 1 /\ g = <<>>
     \/ d = Length(o) - 1 /\ SCK(R[1]) = 1 /\ R[3] = 1 /\ RtcGot(o, g)
     \/ d = Length(o) /\ R[1] = 1 /\ R[3] = 1 /\ RtcGot(o, g)
TakesCommand(R, o, d, g) ==
  /\ R[4] = "COMMAND" /\ R[3] = 1 /\ g = <<>>
  /\ \/ d = 3 /\ R[1] = 1 /\ R[5] = 0 /\ R[6] = <<>>
     \/ /\ d \in 4 .. 19 /\ R[2] = 7 /\ SCK(R[1]) = 1 - (d % 2)
        /\ R[5] = (d - 4) \div 2 /\ Starts(R[6], o.cell, (d - 4) \div 2)
TakesControl(R, o, d, g) ==
  /\ o.cell = SetControl /\ d \in 20 .. 19 + 2 * ControlBits /\ g = <<>>
  /\ R[4] = "READDATA" /\ R[2] = 7 /\ R[3] = 1 /\ SCK(R[1]) = 1 - (d % 2)
  /\ R[5] = (d - 20) \div 2 /\ Len(R[7]) = ControlBits
TurnsRound(R, o, d, g) ==
  /\ Asks(o) /\ d = 20 /\ g = <<>>
  /\ R[4] = "DATA" /\ R[3] = 1 /\ SCK(R[1]) = 1 /\ R[5] = 0 /\ Latched(o, R[7])
Answers(R, o, d, g) ==
  /\ Asks(o) /\ d \in 21 .. 20 + 3 * AnswerBits(o.cell)
  /\ R[2] = 5 /\ R[3] = 1 /\ Latched(o, R[7])
  /\ Starts(g, R[7], (d - 21) \div 3)
  /\ IF d = 20 + 3 * AnswerBits(o.cell) THEN R[4] = "IDLE"
       ELSE R[4] = "DATA" /\ R[5] = (d - 20) \div 3
  /\ SCK(R[1]) = IF d % 3 = 1 THEN 0 ELSE 1
  /\ d % 3 = 2 => SIO(R[1]) = R[7][(d - 20) \div 3]
RtcTyped(R) ==
  /\ R[1] \in Pins /\ R[2] \in Pins /\ R[3] \in Pins
  /\ R[5] \in 0 .. 8 + DateBits + TimeBits + ControlBits
  /\ R[6] \in Seq({0, 1}) /\ R[7] \in Seq({0, 1})
RtcAt(R, o, d, g) ==
  /\ RtcTyped(R)
  /\ \/ o = NoOrder /\ d = 0 /\ g = <<>> /\ R[4] = "IDLE" /\ R[1] \in {0, 1}
     \/ /\ RtcOrder(o)
        /\ \/ RtcRests(R, o, d, g) \/ TakesCommand(R, o, d, g)
           \/ TakesControl(R, o, d, g) \/ TurnsRound(R, o, d, g) \/ Answers(R, o, d, g)

\* The chip, or a saved one, is where the game is.
InStep(F, E, R, t, G) ==
  /\ Fits(G[5])
  /\ chip \in Flashes =>
       FlashAt(F, t, G[1], G[2], G[3], G[4], G[5]) /\ NoEEprom(E) /\ NoRtc(R)
  /\ chip = "SRAM" =>
       SramAt(F, t, G[1], G[2], G[3], G[4], G[5]) /\ NoEEprom(E) /\ NoRtc(R)
  /\ chip \in EEPROMs =>
       EEpromAt(E, G[1], G[2], G[3], G[5]) /\ NoFlash(F) /\ NoRtc(R) /\ t = 0 /\ G[4] = 0
  /\ chip = "RTC" =>
       RtcAt(R, G[1], G[2], G[3]) /\ NoFlash(F) /\ NoEEprom(E) /\ t = 0 /\ G[4] = 0
         /\ G[5] = Blank

\* The battery file holds what was expected when it was written.
FuncOfType(t) ==
  CASE t = 0 -> "flashSaveDecide" [] t = 1 -> "sramWrite" [] t = 2 -> "flashWrite"
FileFits ==
  /\ Fits(saved) /\ (chip = "RTC" => saved = Blank)
  /\ \/ file.kind = "none" /\ file.size = 0 /\ saved = Blank
     \/ /\ file.kind = (IF chip \in EEPROMs THEN "eeprom" ELSE "flash")
        /\ file.holds = saved
        /\ file.size \in IF chip \in EEPROMs THEN {SmallSize, LargeSize} ELSE {FlashBanks}
Common ==
  /\ chip \in Chips /\ cpuSaveType \in SaveTypes /\ now \in 0 .. MaxTime
  /\ systemSaveUpdateCounter \in 0 .. SYSTEM_SAVE_UPDATED
  /\ flashDeviceID = FlashBanks
  /\ cpuSaveGameFunc = FuncOfType(saveType)
  /\ gbaSaveType \in {0, TypeOfChip}
  /\ used \in BOOLEAN /\ (used => SaveTypeNow # 0)
  /\ FileFits

Inv ==
  /\ Common
  /\ InStep(flashSaveGame, eepromSaveGame, rtcSaveGame, saveType, gameVars)
  /\ state # <<>> => InStep(state[1], state[2], state[3], state[4], state[5])

----------------------------------------------------------------------------
(* The flash memory                                                           *)

\* How long the commands of a game to the flash memory are.
LEMMA FlashLengths ==
  ASSUME NEW o, chip \in Flashes, FlashOrder(o)
  PROVE  /\ o.kind # "none"
         /\ o.kind = "program" => Length(o) = 4
         /\ Erasing(o) => Length(o) = 7
         /\ o.kind = "bank" => Length(o) = 4
         /\ o.kind = "identify" => Length(o) = 5
         /\ o.kind = "read" => Length(o) = 1
<1>1. o.kind \in {"program", "sector", "chip", "bank", "identify", "read"}
  BY DEF FlashOrder
<1>2. o.kind # "none" /\ Length(o) = Len(FlashScript(o))
  BY <1>1 DEF Length, Flashes, EEPROMs
<1> QED  BY <1>1, <1>2 DEF FlashScript, Erasing

\* What the accesses of such a command are.
LEMMA FlashAccesses ==
  ASSUME NEW o, NEW i, chip \in Flashes, FlashOrder(o)
  PROVE  AccessOf(o, i) = FlashScript(o)[i]
BY DEF AccessOf, Flashes, EEPROMs

Plain(x, op, a, b) == x.op = op /\ x.a = a /\ x.b = b /\ x.commits = FALSE
Commits(x, op, a, b) == x.op = op /\ x.a = a /\ x.b = b /\ x.commits = TRUE
LEMMA Writes ==
  ASSUME NEW a, NEW b
  PROVE  Plain(Write(a, b), "write", a, b) /\ Commits(Commit(Write(a, b)), "write", a, b)
BY DEF Plain, Commits, Commit, Write, Access
LEMMA Reads ==
  ASSUME NEW op, NEW a, NEW b, NEW first PROVE Plain(Access(op, a, b, first), op, a, b)
BY DEF Plain, Access
LEMMA ProgramAccesses ==
  ASSUME NEW o, chip \in Flashes, FlashOrder(o), o.kind = "program"
  PROVE  /\ AccessOf(o, 1) = Write(K5555, 170)
         /\ AccessOf(o, 2) = Write(K2AAA, 85)
         /\ AccessOf(o, 3) = Write(K5555, 160)
         /\ AccessOf(o, 4) = Commit(Write(o.cell, o.value))
<1>1. FlashScript(o) =
        <<Write(K5555, 170),
          Write(K2AAA, 85),
          Write(K5555, 160),
          Commit(Write(o.cell, o.value))>>
  BY DEF FlashScript
<1>2. /\ AccessOf(o, 1) = FlashScript(o)[1]
      /\ AccessOf(o, 2) = FlashScript(o)[2]
      /\ AccessOf(o, 3) = FlashScript(o)[3]
      /\ AccessOf(o, 4) = FlashScript(o)[4]
  BY FlashAccesses
<1> QED  BY <1>1, <1>2 DEF Access

LEMMA SectorAccesses ==
  ASSUME NEW o, chip \in Flashes, FlashOrder(o), o.kind = "sector"
  PROVE  /\ AccessOf(o, 1) = Write(K5555, 170)
         /\ AccessOf(o, 2) = Write(K2AAA, 85)
         /\ AccessOf(o, 3) = Write(K5555, 128)
         /\ AccessOf(o, 4) = Write(K5555, 170)
         /\ AccessOf(o, 5) = Write(K2AAA, 85)
         /\ AccessOf(o, 6) = Commit(Write(o.cell, 48))
         /\ AccessOf(o, 7) = Access("poll", o.cell, 0, TRUE)
<1>1. FlashScript(o) =
        <<Write(K5555, 170),
          Write(K2AAA, 85),
          Write(K5555, 128),
          Write(K5555, 170),
          Write(K2AAA, 85),
          Commit(Write(o.cell, 48)),
          Access("poll", o.cell, 0, TRUE)>>
  BY DEF FlashScript
<1>2. /\ AccessOf(o, 1) = FlashScript(o)[1]
      /\ AccessOf(o, 2) = FlashScript(o)[2]
      /\ AccessOf(o, 3) = FlashScript(o)[3]
      /\ AccessOf(o, 4) = FlashScript(o)[4]
      /\ AccessOf(o, 5) = FlashScript(o)[5]
      /\ AccessOf(o, 6) = FlashScript(o)[6]
      /\ AccessOf(o, 7) = FlashScript(o)[7]
  BY FlashAccesses
<1> QED  BY <1>1, <1>2 DEF Access

LEMMA ChipAccesses ==
  ASSUME NEW o, chip \in Flashes, FlashOrder(o), o.kind = "chip"
  PROVE  /\ AccessOf(o, 1) = Write(K5555, 170)
         /\ AccessOf(o, 2) = Write(K2AAA, 85)
         /\ AccessOf(o, 3) = Write(K5555, 128)
         /\ AccessOf(o, 4) = Write(K5555, 170)
         /\ AccessOf(o, 5) = Write(K2AAA, 85)
         /\ AccessOf(o, 6) = Commit(Write(K5555, 16))
         /\ AccessOf(o, 7) = Access("poll", o.cell, 0, TRUE)
<1>1. FlashScript(o) =
        <<Write(K5555, 170),
          Write(K2AAA, 85),
          Write(K5555, 128),
          Write(K5555, 170),
          Write(K2AAA, 85),
          Commit(Write(K5555, 16)),
          Access("poll", o.cell, 0, TRUE)>>
  BY DEF FlashScript
<1>2. /\ AccessOf(o, 1) = FlashScript(o)[1]
      /\ AccessOf(o, 2) = FlashScript(o)[2]
      /\ AccessOf(o, 3) = FlashScript(o)[3]
      /\ AccessOf(o, 4) = FlashScript(o)[4]
      /\ AccessOf(o, 5) = FlashScript(o)[5]
      /\ AccessOf(o, 6) = FlashScript(o)[6]
      /\ AccessOf(o, 7) = FlashScript(o)[7]
  BY FlashAccesses
<1> QED  BY <1>1, <1>2 DEF Access

LEMMA BankAccesses ==
  ASSUME NEW o, chip \in Flashes, FlashOrder(o), o.kind = "bank"
  PROVE  /\ AccessOf(o, 1) = Write(K5555, 170)
         /\ AccessOf(o, 2) = Write(K2AAA, 85)
         /\ AccessOf(o, 3) = Write(K5555, 176)
         /\ AccessOf(o, 4) = Write(0, o.value)
<1>1. FlashScript(o) =
        <<Write(K5555, 170),
          Write(K2AAA, 85),
          Write(K5555, 176),
          Write(0, o.value)>>
  BY DEF FlashScript
<1>2. /\ AccessOf(o, 1) = FlashScript(o)[1]
      /\ AccessOf(o, 2) = FlashScript(o)[2]
      /\ AccessOf(o, 3) = FlashScript(o)[3]
      /\ AccessOf(o, 4) = FlashScript(o)[4]
  BY FlashAccesses
<1> QED  BY <1>1, <1>2 DEF Access

LEMMA IdentifyAccesses ==
  ASSUME NEW o, chip \in Flashes, FlashOrder(o), o.kind = "identify"
  PROVE  /\ AccessOf(o, 1) = Write(K5555, 170)
         /\ AccessOf(o, 2) = Write(K2AAA, 85)
         /\ AccessOf(o, 3) = Write(K5555, 144)
         /\ AccessOf(o, 4) = Access("read", 1, 0, TRUE)
         /\ AccessOf(o, 5) = Write(K5555, 240)
<1>1. FlashScript(o) =
        <<Write(K5555, 170),
          Write(K2AAA, 85),
          Write(K5555, 144),
          Access("read", 1, 0, TRUE),
          Write(K5555, 240)>>
  BY DEF FlashScript
<1>2. /\ AccessOf(o, 1) = FlashScript(o)[1]
      /\ AccessOf(o, 2) = FlashScript(o)[2]
      /\ AccessOf(o, 3) = FlashScript(o)[3]
      /\ AccessOf(o, 4) = FlashScript(o)[4]
      /\ AccessOf(o, 5) = FlashScript(o)[5]
  BY FlashAccesses
<1> QED  BY <1>1, <1>2 DEF Access

LEMMA ReadAccesses ==
  ASSUME NEW o, chip \in Flashes, FlashOrder(o), o.kind = "read"
  PROVE  AccessOf(o, 1) = Access("read", o.cell, 0, TRUE)
<1>1. FlashScript(o) =
        <<Access("read", o.cell, 0, TRUE)>>
  BY DEF FlashScript
<1>2. AccessOf(o, 1) = FlashScript(o)[1]
  BY FlashAccesses
<1> QED  BY <1>1, <1>2 DEF Access

\* A write that is part of a command takes the chip to its next state.
LEMMA CommandTaken ==
  ASSUME NEW a, NEW b, NEW s \in FlashStates, flashWrite(a, b),
         <<flashState, a, b, s>> \in Commands
  PROVE  /\ flashState' = s
         /\ flashReadState' = (IF s = "AUTOSELECT" THEN s ELSE flashReadState)
         /\ UNCHANGED <<flashSize, flashDeviceID, flashBank, flashSaveMemory,
                        systemSaveUpdateCounter>>
<1>1. flashState \notin Programs
  BY DEF Commands, Programs
<1>2. ~flashAbort(a, b)
  BY DEF flashAbort
<1>3. flashCommand(a, b)
  BY <1>1, <1>2 DEF flashWrite, flashErasing, flashNoErase, flashProgram,
                    flashSetBank, Programs
<1>4. PICK r \in FlashStates :
        /\ <<flashState, a, b, r>> \in Commands
        /\ flashState' = r
        /\ flashReadState' = (IF r = "AUTOSELECT" THEN r ELSE flashReadState)
        /\ UNCHANGED <<flashSize, flashDeviceID, flashBank, flashSaveMemory,
                       systemSaveUpdateCounter>>
  BY <1>3 DEF flashCommand
<1>5. r = s
  BY <1>4 DEF Commands, K5555, K2AAA
<1> QED  BY <1>4, <1>5

\* A write that is not part of one ends it.
LEMMA CommandEnds ==
  ASSUME NEW a, NEW b, flashWrite(a, b), flashState \notin Programs,
         \A s \in FlashStates : <<flashState, a, b, s>> \notin Commands
  PROVE  /\ flashState' = "READ_ARRAY"
         /\ flashReadState' = (IF flashState \in {"READ_ARRAY", "CMD_1"}
                                 THEN flashReadState ELSE "READ_ARRAY")
         /\ UNCHANGED <<flashSize, flashDeviceID, flashBank, flashSaveMemory,
                        systemSaveUpdateCounter>>
<1>1. ~flashCommand(a, b)
  BY DEF flashCommand
<1>2. flashAbort(a, b)
  BY <1>1 DEF flashWrite, flashErasing, flashNoErase, flashProgram, flashSetBank,
              Programs
<1> QED  BY <1>2 DEF flashAbort

\* The last write of a command does what it says.
LEMMA CommandDone ==
  ASSUME NEW a, NEW b, flashWrite(a, b), flashState \in Programs
  PROVE  /\ flashState = "CMD_5" /\ b \in {48, 16} => flashErasing(a, b)
         /\ flashState = "PROGRAM" => flashProgram(a, b)
         /\ flashState = "SETBANK" => flashSetBank(a, b)
<1>1. ~flashCommand(a, b)
  BY DEF flashCommand, Commands, Programs
<1>2. ~flashAbort(a, b)
  BY DEF flashAbort
<1> QED
  BY <1>1, <1>2 DEF flashWrite, flashErasing, flashNoErase, flashProgram,
                    flashSetBank, Programs

\* What the next access of the game does to the game, for a write, for the write
\* that completes an order and for a read.
GoesOn ==
  /\ done' = done + 1
  /\ bank' = IF order.kind = "bank" /\ done' = 4 THEN order.value ELSE bank
  /\ UNCHANGED <<now, chip, cpuSaveType, file, state, order, saved, bounds>>
LEMMA GoWrites ==
  ASSUME NEW a, NEW b, Go, AccessOf(order, done + 1) = Write(a, b), used \in BOOLEAN
  PROVE  cpuSaveGame(a, b) /\ GoesOn /\ expected' = expected /\ used' = used
<1>1. Plain(AccessOf(order, done + 1), "write", a, b)
  BY Writes
<1>2. Do(AccessOf(order, done + 1)) /\ GoesOn /\ UNCHANGED <<expected, used>>
  BY <1>1 DEF Go, Plain, GoesOn
<1>3. cpuSaveGame(a, b)
  BY <1>1, <1>2 DEF Do, Plain
<1> QED  BY <1>2, <1>3
LEMMA GoCommits ==
  ASSUME NEW a, NEW b, Go, AccessOf(order, done + 1) = Commit(Write(a, b)),
         used \in BOOLEAN
  PROVE  cpuSaveGame(a, b) /\ GoesOn /\ expected' = Effect(order) /\ used' = TRUE
<1>1. Commits(AccessOf(order, done + 1), "write", a, b)
  BY Writes
<1>2. Do(AccessOf(order, done + 1)) /\ GoesOn /\ expected' = Effect(order) /\ used' = TRUE
  BY <1>1 DEF Go, Commits, GoesOn
<1>3. cpuSaveGame(a, b)
  BY <1>1, <1>2 DEF Do, Commits
<1> QED  BY <1>2, <1>3
LEMMA GoReads ==
  ASSUME NEW op \in {"read", "poll"}, NEW a, Go, used \in BOOLEAN,
         AccessOf(order, done + 1) = Access(op, a, 0, TRUE),
         op = "poll" => flashRead(a) = 255
  PROVE  readFlash(a) /\ GoesOn /\ UNCHANGED <<expected, used>>
<1>1. Plain(AccessOf(order, done + 1), op, a, 0)
  BY DEF Plain, Access
<1>2. Do(AccessOf(order, done + 1)) /\ GoesOn /\ UNCHANGED <<expected, used>>
  BY <1>1 DEF Go, Plain, GoesOn
<1>3. readFlash(a)
  BY <1>1, <1>2 DEF Do, Plain
<1> QED  BY <1>2, <1>3

\* A write to flash memory that starts at the first unlock address, or is sent
\* to a chip already known as one, reaches it.
LEMMA FlashIsWritten ==
  ASSUME NEW a, NEW b, cpuSaveGame(a, b), cpuSaveGameFunc = FuncOfType(saveType),
         saveType \in {0, 2}, a = K5555 \/ saveType = 2
  PROVE  /\ flashWrite(a, b) /\ saveType' = 2 /\ cpuSaveGameFunc' = FuncOfType(2)
         /\ UNCHANGED <<eepromVars, rtcVars, gbaSaveType, got>>
BY DEF cpuSaveGame, flashSaveDecide, FuncOfType

\* What the proof of a step of the flash memory needs, and what it shows.
FlashNow ==
  /\ chip \in Flashes /\ FlashOrder(order) /\ used \in BOOLEAN
  /\ FlashAt(flashSaveGame, saveType, order, done, got, bank, expected)
  /\ cpuSaveGameFunc = FuncOfType(saveType) /\ flashDeviceID = FlashBanks
  /\ Fits(expected) /\ done \in Nat /\ done # Length(order)
FlashSteps ==
  /\ FlashAt(flashSaveGame, saveType, order, done, got, bank, expected)'
  /\ Fits(expected)' /\ cpuSaveGameFunc' = FuncOfType(saveType')
  /\ used' => used \/ saveType' # 0
  /\ saveType # 0 => saveType' # 0
  /\ systemSaveUpdateCounter' \in {systemSaveUpdateCounter, SYSTEM_SAVE_UPDATED}
  /\ UNCHANGED <<flashDeviceID, eepromVars, rtcVars, gbaSaveType, now, chip, cpuSaveType,
                 file, state, order, saved>>

\* What the step has to leave behind.
LEMMA FlashNext ==
  ASSUME FlashNow, GoesOn, done + 1 \in 0 .. Length(order),
         UNCHANGED <<flashSize, flashDeviceID, eepromVars, rtcVars, gbaSaveType>>,
         flashState' = FlashStateAt(order, done + 1),
         flashReadState' = FlashReadStateAt(order, done + 1),
         flashBank' = bank', bank' \in 0 .. FlashBanks - 1,
         flashSaveMemory' = expected', Fits(expected'),
         got' = FlashGot(order, done + 1, bank', expected'),
         saveType' = 2 \/ (order.kind = "read" /\ saveType' = saveType),
         cpuSaveGameFunc' = FuncOfType(saveType'),
         used' => used \/ saveType' # 0,
         systemSaveUpdateCounter' \in {systemSaveUpdateCounter, SYSTEM_SAVE_UPDATED}
  PROVE  FlashSteps
<1>1. /\ chip' = chip /\ done' = done + 1 /\ order' = order
      /\ UNCHANGED <<now, cpuSaveType, file, state, saved>>
  BY DEF GoesOn
<1>2. FlashBanks' = FlashBanks
  BY <1>1 DEF FlashBanks
<1>3. AddressBits' = AddressBits
  BY <1>1 DEF AddressBits
<1>4. Length(order)' = Length(order)
  BY <1>1, <1>3 DEF Length, DmaLength
<1>5. FlashOrder(order)' = FlashOrder(order)
  BY <1>1, <1>2 DEF FlashOrder
<1>6. FlashStateAt(order, done)' = FlashStateAt(order, done + 1)
  BY <1>1, <1>2, <1>4 DEF FlashStateAt
<1>7. FlashReadStateAt(order, done)' = FlashReadStateAt(order, done + 1)
  BY <1>1 DEF FlashReadStateAt
<1>8. FlashGot(order, done, bank, expected)' = FlashGot(order, done + 1, bank', expected')
  BY <1>1, <1>2 DEF FlashGot
<1>9. Fits(expected)'
  BY <1>1, <1>2 DEF Fits, InChip, Values, AllCells, Blank
<1> QED
  BY <1>1, <1>2, <1>4, <1>5, <1>6, <1>7, <1>8, <1>9
  DEF FlashSteps, FlashNow, FlashAt, flashSaveGame

\* A write in the middle of a command, and one that the chip does not take.
LEMMA FlashWriteStep ==
  ASSUME FlashNow, Go, NEW a, NEW b, NEW s \in FlashStates,
         AccessOf(order, done + 1) = Write(a, b), a = K5555 \/ saveType = 2,
         <<flashState, a, b, s>> \in Commands,
         done + 1 # 4 \/ order.kind # "bank", done + 1 \in 0 .. Length(order),
         s = FlashStateAt(order, done + 1),
         FlashReadStateAt(order, done + 1) =
           (IF s = "AUTOSELECT" THEN s ELSE flashReadState),
         got = FlashGot(order, done + 1, bank, expected)
  PROVE  FlashSteps
<1>1. /\ cpuSaveGame(a, b) /\ GoesOn /\ expected' = expected /\ used' = used
  BY GoWrites DEF FlashNow
<1>2. /\ flashWrite(a, b) /\ saveType' = 2 /\ cpuSaveGameFunc' = FuncOfType(2)
      /\ UNCHANGED <<eepromVars, rtcVars, gbaSaveType, got>>
  BY <1>1, FlashIsWritten DEF FlashNow, FlashAt
<1>3. /\ flashState' = s
      /\ flashReadState' = (IF s = "AUTOSELECT" THEN s ELSE flashReadState)
      /\ UNCHANGED <<flashSize, flashDeviceID, flashBank, flashSaveMemory,
                     systemSaveUpdateCounter>>
  BY <1>2, CommandTaken
<1>4. bank' = bank
  BY <1>1 DEF GoesOn
<1> QED
  BY <1>1, <1>2, <1>3, <1>4, FlashNext DEF FlashNow, FlashAt, flashSaveGame
LEMMA FlashEndStep ==
  ASSUME FlashNow, Go, NEW a, NEW b,
         AccessOf(order, done + 1) = Write(a, b), saveType = 2,
         flashState \notin Programs,
         \A s \in FlashStates : <<flashState, a, b, s>> \notin Commands,
         done + 1 # 4 \/ order.kind # "bank" \/ order.value = bank,
         done + 1 \in 0 .. Length(order),
         "READ_ARRAY" = FlashStateAt(order, done + 1),
         FlashReadStateAt(order, done + 1) = "READ_ARRAY",
         flashState \in {"READ_ARRAY", "CMD_1"} => flashReadState = "READ_ARRAY",
         got = FlashGot(order, done + 1, bank, expected)
  PROVE  FlashSteps
<1>1. /\ cpuSaveGame(a, b) /\ GoesOn /\ expected' = expected /\ used' = used
  BY GoWrites DEF FlashNow
<1>2. /\ flashWrite(a, b) /\ saveType' = 2 /\ cpuSaveGameFunc' = FuncOfType(2)
      /\ UNCHANGED <<eepromVars, rtcVars, gbaSaveType, got>>
  BY <1>1, FlashIsWritten DEF FlashNow, FlashAt
<1>3. /\ flashState' = "READ_ARRAY" /\ flashReadState' = "READ_ARRAY"
      /\ UNCHANGED <<flashSize, flashDeviceID, flashBank, flashSaveMemory,
                     systemSaveUpdateCounter>>
  BY <1>2, CommandEnds
<1>4. bank' = bank
  BY <1>1 DEF GoesOn
<1> QED
  BY <1>1, <1>2, <1>3, <1>4, FlashNext DEF FlashNow, FlashAt, flashSaveGame

\* What an order does to the cells stays in the chip.
LEMMA EffectFits ==
  ASSUME FlashNow, order.kind = "program" \/ Erasing(order)
  PROVE  Fits(Effect(order))
<1>1. /\ AllCells = Array /\ Values = Bytes /\ Blank = [c \in Array |-> 0]
      /\ \A c \in Array : InChip(c) <=> c[1] < FlashBanks
  BY DEF FlashNow, AllCells, Values, Blank, InChip, Flashes, EEPROMs
<1>2. expected \in [Array -> Bytes] /\ \A c \in Array : ~InChip(c) => expected[c] = 0
  BY <1>1 DEF FlashNow, Fits
<1>3. CASE order.kind = "program"
  <2>1. Effect(order) = [expected EXCEPT ![<<bank, order.cell>>] = order.value]
    BY <1>3 DEF Effect, Target, FlashNow, Flashes, EEPROMs
  <2>2. order.cell \in Cells /\ order.value \in Bytes /\ bank < FlashBanks
    BY <1>3, SavesAssumption DEF FlashNow, FlashOrder, FlashAt, FlashBanks
  <2>3. \A c \in Array : ~InChip(c) => c # <<bank, order.cell>>
    BY <1>1, <2>2
  <2> QED  BY <1>1, <1>2, <2>1, <2>2, <2>3 DEF Fits
<1>4. CASE Erasing(order)
  <2>1. Effect(order) = [c \in Array |-> IF Erases(order, c) THEN 0 ELSE expected[c]]
    BY <1>1, <1>4 DEF Effect, Erasing
  <2> QED  BY <1>1, <1>2, <2>1 DEF Fits, Bytes
<1> QED  BY <1>3, <1>4

\* The last write of an order to program a cell or to erase does what the order
\* should.
LEMMA FlashCommitStep ==
  ASSUME FlashNow, Go, NEW a, NEW b, saveType = 2,
         AccessOf(order, done + 1) = Commit(Write(a, b)),
         \/ order.kind = "program" /\ done = 3 /\ a = order.cell /\ b = order.value
         \/ order.kind = "sector" /\ done = 5 /\ a = order.cell /\ b = 48
         \/ order.kind = "chip" /\ done = 5 /\ a = K5555 /\ b = 16,
         done + 1 \in 0 .. Length(order),
         flashState = FlashStateAt(order, done), flashReadState = "READ_ARRAY",
         got = <<>>
  PROVE  FlashSteps
<1>1. /\ cpuSaveGame(a, b) /\ GoesOn /\ expected' = Effect(order) /\ used' = TRUE
  BY GoCommits DEF FlashNow
<1>2. /\ flashWrite(a, b) /\ saveType' = 2 /\ cpuSaveGameFunc' = FuncOfType(2)
      /\ UNCHANGED <<eepromVars, rtcVars, gbaSaveType, got>>
  BY <1>1, FlashIsWritten DEF FlashNow, FlashAt
<1>3. Length(order) = IF order.kind = "program" THEN 4 ELSE 7
  BY FlashLengths DEF FlashNow, Erasing
<1>4. bank' = bank /\ Fits(expected')
  BY <1>1, EffectFits DEF GoesOn, Erasing
<1>5. /\ flashSaveMemory = expected /\ flashBank = bank /\ bank \in 0 .. FlashBanks - 1
      /\ flashSize = FlashBanks
  BY DEF FlashNow, FlashAt, flashSaveGame
<1>6. got' = FlashGot(order, done + 1, bank', expected')
  BY <1>2 DEF FlashGot
<1>7. CASE order.kind = "program"
  <2>1. flashState = "PROGRAM"
    BY <1>3, <1>7 DEF FlashStateAt, Erasing
  <2>2. flashProgram(a, b)
    BY <1>2, <2>1, CommandDone DEF Programs
  <2>3. expected' = [expected EXCEPT ![<<bank, order.cell>>] = order.value]
    BY <1>1, <1>7 DEF Effect, Target, FlashNow, Flashes, EEPROMs
  <2>4. /\ flashState' = FlashStateAt(order, done + 1)
        /\ flashReadState' = FlashReadStateAt(order, done + 1)
    BY <1>3, <1>7, <2>2 DEF FlashStateAt, FlashReadStateAt, flashProgram, flashToArray
  <2>5. /\ flashSaveMemory' = expected' /\ flashBank' = bank'
        /\ UNCHANGED <<flashSize, flashDeviceID>>
        /\ systemSaveUpdateCounter' = SYSTEM_SAVE_UPDATED
    BY <1>4, <1>5, <1>7, <2>2, <2>3 DEF flashProgram, saveUpdated
  <2> QED  BY <1>1, <1>2, <1>4, <1>5, <1>6, <2>4, <2>5, FlashNext
<1>8. CASE Erasing(order)
  <2>1. flashState = "CMD_5"
    BY <1>3, <1>8 DEF FlashStateAt, Erasing
  <2>2. flashErasing(a, b)
    BY <1>2, <1>8, <2>1, CommandDone DEF Programs, Erasing
  <2>3. expected' = [c \in Array |-> IF Erases(order, c) THEN 0 ELSE expected[c]]
    BY <1>1, <1>8 DEF Effect, AllCells, Erasing, FlashNow, Flashes, EEPROMs
  <2>4. flashSaveMemory' = expected'
    BY <1>5, <1>8, <2>2, <2>3 DEF flashErasing, Erased, Erases, Sector, Chip, Erasing
  <2>5. /\ flashState' = FlashStateAt(order, done + 1)
        /\ flashReadState' = FlashReadStateAt(order, done + 1)
    BY <1>3, <1>8, <2>1, <2>2 DEF FlashStateAt, FlashReadStateAt, flashErasing, Erasing
  <2>6. /\ flashBank' = bank' /\ UNCHANGED <<flashSize, flashDeviceID>>
        /\ systemSaveUpdateCounter' = SYSTEM_SAVE_UPDATED
    BY <1>4, <1>5, <2>2 DEF flashErasing, saveUpdated
  <2> QED  BY <1>1, <1>2, <1>4, <1>5, <1>6, <2>4, <2>5, <2>6, FlashNext
<1> QED  BY <1>7, <1>8 DEF Erasing
\* The commands start alike.
LEMMA Unlocks ==
  ASSUME NEW o, chip \in Flashes, FlashOrder(o), o.kind # "read"
  PROVE  AccessOf(o, 1) = Write(K5555, 170) /\ AccessOf(o, 2) = Write(K2AAA, 85)
<1>1. o.kind \in {"program", "sector", "chip", "bank", "identify"}
  BY DEF FlashOrder
<1> QED
  BY <1>1, ProgramAccesses, SectorAccesses, ChipAccesses, BankAccesses, IdentifyAccesses
  DEF Access
LEMMA Erases345 ==
  ASSUME NEW o, chip \in Flashes, FlashOrder(o), Erasing(o)
  PROVE  /\ AccessOf(o, 3) = Write(K5555, 128) /\ AccessOf(o, 4) = Write(K5555, 170)
         /\ AccessOf(o, 5) = Write(K2AAA, 85)
         /\ AccessOf(o, 7) = Access("poll", o.cell, 0, TRUE)
BY SectorAccesses, ChipAccesses DEF Erasing, Access

\* Where the chip is before an access.
LEMMA FlashWhere ==
  ASSUME FlashNow
  PROVE  /\ done \in 0 .. Length(order) /\ done + 1 \in 0 .. Length(order)
         /\ flashState = FlashStateAt(order, done)
         /\ flashReadState = FlashReadStateAt(order, done)
         /\ got = FlashGot(order, done, bank, expected)
         /\ order.kind # "read" /\ done > 0 => saveType = 2
         /\ flashSize = FlashBanks /\ flashBank = bank /\ flashSaveMemory = expected
         /\ bank \in 0 .. FlashBanks - 1
         /\ saveType \in {0, 2}
<1>1. order # NoOrder
  BY DEF FlashNow, FlashOrder, NoOrder
<1>2. Length(order) \in Nat
  BY FlashLengths DEF FlashNow, FlashOrder, Erasing
<1> QED  BY <1>1, <1>2 DEF FlashNow, FlashAt, flashSaveGame

\* Each access takes the flash memory and the game on together.
LEMMA FlashGo == ASSUME FlashNow, Go PROVE FlashSteps
<1>0. chip \in Flashes /\ FlashOrder(order) /\ used \in BOOLEAN /\ flashSize = FlashBanks
  BY FlashWhere DEF FlashNow
<1>1. CASE order.kind = "read"
  <2>1. done = 0 /\ Length(order) = 1 /\ flashReadState = "READ_ARRAY"
    BY <1>0, <1>1, FlashWhere, FlashLengths DEF FlashNow, FlashReadStateAt
  <2>2. readFlash(order.cell) /\ GoesOn /\ UNCHANGED <<expected, used>>
    BY <1>0, <1>1, <2>1, ReadAccesses, GoReads DEF Access
  <2>3. got' = <<expected[<<bank, order.cell>>]>> /\ UNCHANGED <<flashState, flashReadState>>
        /\ UNCHANGED <<flashSize, flashDeviceID, flashBank, flashSaveMemory, eepromVars,
                       rtcVars, gbaSaveType, saveType, cpuSaveGameFunc,
                       systemSaveUpdateCounter>>
    BY <2>1, <2>2, FlashWhere DEF readFlash, flashRead, flashReadDone, typeVars
  <2>4. bank' = bank
    BY <1>1, <2>2 DEF GoesOn
  <2>5. /\ FlashStateAt(order, done + 1) = "READ_ARRAY" /\ flashState = "READ_ARRAY"
        /\ FlashReadStateAt(order, done + 1) = "READ_ARRAY"
        /\ got' = FlashGot(order, done + 1, bank', expected')
    BY <1>1, <2>1, <2>2, <2>3, <2>4, FlashWhere DEF FlashStateAt, FlashReadStateAt, FlashGot
  <2>6. Fits(expected')
    BY <2>2 DEF FlashNow
  <2>7. cpuSaveGameFunc' = FuncOfType(saveType')
    BY <2>3 DEF FlashNow
  <2> QED  BY <1>1, <2>1, <2>2, <2>3, <2>4, <2>5, <2>6, <2>7, FlashWhere, FlashNext
<1>2. CASE order.kind # "read" /\ done = 0
  <2>1. Length(order) > 3
    BY <1>0, <1>2, FlashLengths DEF FlashOrder, Erasing
  <2>2. AccessOf(order, done + 1) = Write(K5555, 170)
    BY <1>0, <1>2, Unlocks
  <2>3. flashState = "READ_ARRAY" /\ flashReadState = "READ_ARRAY" /\ got = <<>>
    BY <1>2, FlashWhere DEF FlashStateAt, FlashReadStateAt, FlashGot
  <2>4. <<flashState, K5555, 170, "CMD_1">> \in Commands
    BY <2>3 DEF Commands
  <2>5. /\ FlashStateAt(order, done + 1) = "CMD_1"
        /\ FlashReadStateAt(order, done + 1) = "READ_ARRAY"
        /\ FlashGot(order, done + 1, bank, expected) = <<>>
    BY <1>2, <2>1 DEF FlashStateAt, FlashReadStateAt, FlashGot
  <2> QED  BY <1>2, <2>1, <2>2, <2>3, <2>4, <2>5, FlashWhere, FlashWriteStep DEF FlashStates
<1>3. CASE order.kind # "read" /\ done = 1
  <2>1. Length(order) > 3
    BY <1>0, <1>3, FlashLengths DEF FlashOrder, Erasing
  <2>2. AccessOf(order, done + 1) = Write(K2AAA, 85)
    BY <1>0, <1>3, Unlocks
  <2>3. flashState = "CMD_1" /\ flashReadState = "READ_ARRAY" /\ got = <<>>
    BY <1>3, <2>1, FlashWhere DEF FlashStateAt, FlashReadStateAt, FlashGot
  <2>4. <<flashState, K2AAA, 85, "CMD_2">> \in Commands
    BY <2>3 DEF Commands
  <2>5. /\ FlashStateAt(order, done + 1) = "CMD_2"
        /\ FlashReadStateAt(order, done + 1) = "READ_ARRAY"
        /\ FlashGot(order, done + 1, bank, expected) = <<>>
    BY <1>3, <2>1 DEF FlashStateAt, FlashReadStateAt, FlashGot
  <2> QED  BY <1>3, <2>1, <2>2, <2>3, <2>4, <2>5, FlashWhere, FlashWriteStep DEF FlashStates
<1>4. CASE order.kind = "program" /\ done \notin {0, 1}
  <2>1. Length(order) = 4 /\ done \in {2, 3} /\ saveType = 2
    BY <1>0, <1>4, FlashLengths, FlashWhere
  <2>2. flashReadState = "READ_ARRAY" /\ got = <<>>
    BY <1>4, <2>1, FlashWhere DEF FlashReadStateAt, FlashGot, Erasing
  <2>3. CASE done = 2
    <3>1. AccessOf(order, done + 1) = Write(K5555, 160)
      BY <1>0, <1>4, <2>3, ProgramAccesses
    <3>2. flashState = "CMD_2"
      BY <2>1, <2>3, FlashWhere DEF FlashStateAt
    <3>3. <<flashState, K5555, 160, "PROGRAM">> \in Commands
      BY <3>2 DEF Commands
    <3>4. /\ FlashStateAt(order, done + 1) = "PROGRAM"
          /\ FlashReadStateAt(order, done + 1) = "READ_ARRAY"
          /\ FlashGot(order, done + 1, bank, expected) = <<>>
      BY <1>4, <2>1, <2>3 DEF FlashStateAt, FlashReadStateAt, FlashGot, Erasing
    <3> QED
      BY <1>4, <2>1, <2>2, <2>3, <3>1, <3>3, <3>4, FlashWhere, FlashWriteStep
      DEF FlashStates, Programs
  <2>4. CASE done = 3
    <3>1. AccessOf(order, done + 1) = Commit(Write(order.cell, order.value))
      BY <1>0, <1>4, <2>4, ProgramAccesses
    <3> QED  BY <1>4, <2>1, <2>2, <2>4, <3>1, FlashWhere, FlashCommitStep
  <2> QED  BY <2>1, <2>3, <2>4
<1>5. CASE Erasing(order) /\ done \notin {0, 1}
  <2>1. Length(order) = 7 /\ done \in {2, 3, 4, 5, 6} /\ saveType = 2
    BY <1>0, <1>5, FlashLengths, FlashWhere DEF Erasing
  <2>2. got = <<>> /\ (done # 6 => flashReadState = "READ_ARRAY")
    BY <1>5, <2>1, FlashWhere DEF FlashReadStateAt, FlashGot, Erasing
  <2>3. ASSUME done \in {2, 3, 4} PROVE FlashSteps
    <3>1. AccessOf(order, done + 1) = IF done = 2 THEN Write(K5555, 128)
            ELSE IF done = 3 THEN Write(K5555, 170) ELSE Write(K2AAA, 85)
      BY <1>0, <1>5, <2>3, Erases345 DEF Access
    <3>2. flashState = IF done = 2 THEN "CMD_2" ELSE IF done = 3 THEN "CMD_3" ELSE "CMD_4"
      BY <1>5, <2>1, <2>3, FlashWhere DEF FlashStateAt, Erasing
    <3>3. /\ FlashStateAt(order, done + 1) =
               IF done = 2 THEN "CMD_3" ELSE IF done = 3 THEN "CMD_4" ELSE "CMD_5"
          /\ FlashReadStateAt(order, done + 1) = "READ_ARRAY"
          /\ FlashGot(order, done + 1, bank, expected) = <<>>
      BY <1>5, <2>1, <2>3 DEF FlashStateAt, FlashReadStateAt, FlashGot, Erasing
    <3>4. CASE done = 2
      <4>1. <<flashState, K5555, 128, "CMD_3">> \in Commands
        BY <3>2, <3>4 DEF Commands
      <4> QED
        BY <1>5, <2>1, <2>2, <3>1, <3>3, <3>4, <4>1, FlashWhere, FlashWriteStep
        DEF FlashStates
    <3>5. CASE done = 3
      <4>1. <<flashState, K5555, 170, "CMD_4">> \in Commands
        BY <3>2, <3>5 DEF Commands
      <4> QED
        BY <1>5, <2>1, <2>2, <3>1, <3>3, <3>5, <4>1, FlashWhere, FlashWriteStep
        DEF FlashStates, Erasing
    <3>6. CASE done = 4
      <4>1. <<flashState, K2AAA, 85, "CMD_5">> \in Commands
        BY <3>2, <3>6 DEF Commands
      <4>2. "CMD_5" \in FlashStates /\ AccessOf(order, done + 1) = Write(K2AAA, 85)
        BY <3>1, <3>6 DEF FlashStates, Programs
      <4>3. FlashStateAt(order, done + 1) = "CMD_5"
        BY <3>3, <3>6
      <4> QED  BY <2>1, <2>2, <3>3, <3>6, <4>1, <4>2, <4>3, FlashWhere, FlashWriteStep
    <3> QED  BY <2>3, <3>4, <3>5, <3>6
  <2>4. CASE done = 5
    <3>1. CASE order.kind = "sector"
      <4>1. AccessOf(order, done + 1) = Commit(Write(order.cell, 48))
        BY <1>0, <2>4, <3>1, SectorAccesses DEF Access
      <4> QED  BY <2>1, <2>2, <2>4, <3>1, <4>1, FlashWhere, FlashCommitStep
    <3>2. CASE order.kind = "chip"
      <4>1. AccessOf(order, done + 1) = Commit(Write(K5555, 16))
        BY <1>0, <2>4, <3>2, ChipAccesses DEF Access
      <4> QED  BY <2>1, <2>2, <2>4, <3>2, <4>1, FlashWhere, FlashCommitStep
    <3> QED  BY <1>5, <3>1, <3>2 DEF Erasing
  <2>5. CASE done = 6
    <3>1. flashReadState = "ERASE_COMPLETE" /\ flashRead(order.cell) = 255
      BY <1>5, <2>5, FlashWhere DEF FlashReadStateAt, flashRead
    <3>2. AccessOf(order, done + 1) = Access("poll", order.cell, 0, TRUE)
      BY <1>0, <1>5, <2>5, Erases345 DEF Access
    <3>3. readFlash(order.cell) /\ GoesOn /\ UNCHANGED <<expected, used>>
      BY <1>0, <3>1, <3>2, GoReads
    <3>4. got' = <<255>> /\ flashState' = "READ_ARRAY" /\ flashReadState' = "READ_ARRAY"
          /\ UNCHANGED <<flashSize, flashDeviceID, flashBank, flashSaveMemory, eepromVars,
                         rtcVars, gbaSaveType, saveType, cpuSaveGameFunc,
                         systemSaveUpdateCounter>>
      BY <3>1, <3>3 DEF readFlash, flashReadDone, flashToArray, typeVars
    <3>5. bank' = bank
      BY <1>5, <3>3 DEF GoesOn, Erasing
    <3>6. /\ FlashStateAt(order, done + 1) = "READ_ARRAY"
          /\ FlashReadStateAt(order, done + 1) = "READ_ARRAY"
          /\ got' = FlashGot(order, done + 1, bank', expected')
      BY <1>5, <2>1, <2>5, <3>4 DEF FlashStateAt, FlashReadStateAt, FlashGot, Erasing
    <3>7. Fits(expected') /\ cpuSaveGameFunc' = FuncOfType(saveType')
      BY <3>3, <3>4 DEF FlashNow
    <3> QED  BY <2>1, <3>3, <3>4, <3>5, <3>6, <3>7, FlashWhere, FlashNext
  <2> QED  BY <2>1, <2>3, <2>4, <2>5
<1>6. CASE order.kind = "bank" /\ done \notin {0, 1}
  <2>1. Length(order) = 4 /\ done \in {2, 3} /\ saveType = 2
    BY <1>0, <1>6, FlashLengths, FlashWhere
  <2>2. flashReadState = "READ_ARRAY" /\ got = <<>>
    BY <1>6, <2>1, FlashWhere DEF FlashReadStateAt, FlashGot, Erasing
  <2>3. order.value \in 0 .. FlashBanks - 1 /\ FlashBanks \in {1, 2}
    BY <1>0, <1>6 DEF FlashOrder, FlashBanks
  <2>4. CASE done = 2
    <3>1. AccessOf(order, done + 1) = Write(K5555, 176)
      BY <1>0, <1>6, <2>4, BankAccesses
    <3>2. flashState = "CMD_2"
      BY <2>1, <2>4, FlashWhere DEF FlashStateAt
    <3>3. /\ FlashStateAt(order, done + 1) =
               IF FlashBanks = 2 THEN "SETBANK" ELSE "READ_ARRAY"
          /\ FlashReadStateAt(order, done + 1) = "READ_ARRAY"
          /\ FlashGot(order, done + 1, bank, expected) = <<>>
      BY <1>6, <2>1, <2>4 DEF FlashStateAt, FlashReadStateAt, FlashGot, Erasing
    <3>4. CASE FlashBanks = 2
      <4>1. <<flashState, K5555, 176, "SETBANK">> \in Commands
        BY <1>0, <3>2, <3>4 DEF Commands
      <4>2. "SETBANK" \in FlashStates /\ FlashStateAt(order, done + 1) = "SETBANK"
        BY <3>3, <3>4 DEF FlashStates, Programs
      <4> QED
        BY <2>1, <2>2, <2>4, <3>1, <3>3, <4>1, <4>2, FlashWhere, FlashWriteStep
    <3>5. CASE FlashBanks = 1
      <4>1. \A s \in FlashStates : <<flashState, K5555, 176, s>> \notin Commands
        BY <1>0, <3>2, <3>5 DEF Commands, K5555, K2AAA
      <4>2. flashState \notin Programs
        BY <3>2 DEF Programs
      <4> QED
        BY <2>1, <2>2, <2>4, <3>1, <3>2, <3>3, <3>5, <4>1, <4>2, FlashWhere, FlashEndStep
    <3> QED  BY <2>3, <3>4, <3>5
  <2>5. CASE done = 3
    <3>1. AccessOf(order, done + 1) = Write(0, order.value)
      BY <1>0, <1>6, <2>5, BankAccesses
    <3>2. flashState = IF FlashBanks = 2 THEN "SETBANK" ELSE "READ_ARRAY"
      BY <1>6, <2>1, <2>5, FlashWhere DEF FlashStateAt, Erasing
    <3>3. /\ FlashStateAt(order, done + 1) = "READ_ARRAY"
          /\ FlashReadStateAt(order, done + 1) = "READ_ARRAY"
          /\ \A b, m : FlashGot(order, done + 1, b, m) = <<>>
      BY <1>6, <2>1, <2>5 DEF FlashStateAt, FlashReadStateAt, FlashGot, Erasing
    <3>4. CASE FlashBanks = 2
      <4>1. /\ cpuSaveGame(0, order.value) /\ GoesOn
            /\ expected' = expected /\ used' = used
        BY <1>0, <3>1, GoWrites
      <4>2. /\ flashWrite(0, order.value) /\ saveType' = 2
            /\ cpuSaveGameFunc' = FuncOfType(2)
            /\ UNCHANGED <<eepromVars, rtcVars, gbaSaveType, got>>
        BY <2>1, <4>1, FlashIsWritten DEF FlashNow, FlashAt
      <4>3. flashSetBank(0, order.value)
        BY <3>2, <3>4, <4>2, CommandDone DEF Programs
      <4>4. bank' = order.value
        BY <1>6, <2>5, <4>1 DEF GoesOn
      <4>5. flashBank' = bank' /\ flashState' = "READ_ARRAY" /\ flashReadState' = "READ_ARRAY"
            /\ UNCHANGED <<flashSize, flashDeviceID, flashSaveMemory,
                           systemSaveUpdateCounter>>
        BY <2>3, <4>3, <4>4 DEF flashSetBank, flashToArray
      <4>6. Fits(expected')
        BY <4>1 DEF FlashNow
      <4> QED
        BY <2>1, <2>2, <2>3, <2>5, <3>3, <4>1, <4>2, <4>4, <4>5, <4>6, FlashWhere, FlashNext
    <3>5. CASE FlashBanks = 1
      <4>1. \A s \in FlashStates : <<flashState, 0, order.value, s>> \notin Commands
        BY <1>0, <3>2, <3>5 DEF Commands, K5555, K2AAA
      <4>2. flashState \notin Programs
        BY <3>2, <3>5 DEF Programs
      <4>3. order.value = bank
        BY <2>3, <3>5, FlashWhere
      <4> QED
        BY <2>1, <2>2, <2>5, <3>1, <3>2, <3>3, <3>5, <4>1, <4>2, <4>3, FlashWhere,
           FlashEndStep
    <3> QED  BY <2>3, <3>4, <3>5
  <2> QED  BY <2>1, <2>4, <2>5
<1>7. CASE order.kind = "identify" /\ done \notin {0, 1}
  <2>1. Length(order) = 5 /\ done \in {2, 3, 4} /\ saveType = 2
    BY <1>0, <1>7, FlashLengths, FlashWhere
  <2>2. CASE done = 2
    <3>1. AccessOf(order, done + 1) = Write(K5555, 144)
      BY <1>0, <1>7, <2>2, IdentifyAccesses DEF Access
    <3>2. flashState = "CMD_2" /\ flashReadState = "READ_ARRAY" /\ got = <<>>
      BY <1>7, <2>1, <2>2, FlashWhere DEF FlashStateAt, FlashReadStateAt, FlashGot, Erasing
    <3>3. <<flashState, K5555, 144, "AUTOSELECT">> \in Commands
      BY <3>2 DEF Commands
    <3>4. /\ FlashStateAt(order, done + 1) = "AUTOSELECT"
          /\ FlashReadStateAt(order, done + 1) = "AUTOSELECT"
          /\ FlashGot(order, done + 1, bank, expected) = <<>>
      BY <1>7, <2>1, <2>2 DEF FlashStateAt, FlashReadStateAt, FlashGot, Erasing
    <3> QED
      BY <2>1, <2>2, <3>1, <3>2, <3>3, <3>4, FlashWhere, FlashWriteStep DEF FlashStates
  <2>3. CASE done = 3
    <3>1. flashState = "AUTOSELECT" /\ flashReadState = "AUTOSELECT"
      BY <1>7, <2>1, <2>3, FlashWhere DEF FlashStateAt, FlashReadStateAt, Erasing
    <3>2. AccessOf(order, done + 1) = Access("read", 1, 0, TRUE)
      BY <1>0, <1>7, <2>3, IdentifyAccesses DEF Access
    <3>3. readFlash(1) /\ GoesOn /\ UNCHANGED <<expected, used>>
      BY <1>0, <3>2, GoReads
    <3>4. got' = <<FlashBanks>> /\ UNCHANGED <<flashState, flashReadState>>
          /\ UNCHANGED <<flashSize, flashDeviceID, flashBank, flashSaveMemory, eepromVars,
                         rtcVars, gbaSaveType, saveType, cpuSaveGameFunc,
                         systemSaveUpdateCounter>>
      BY <3>1, <3>3 DEF readFlash, flashRead, flashReadDone, typeVars, FlashNow
    <3>5. bank' = bank
      BY <1>7, <3>3 DEF GoesOn
    <3>6. /\ FlashStateAt(order, done + 1) = "AUTOSELECT"
          /\ FlashReadStateAt(order, done + 1) = "AUTOSELECT"
          /\ got' = FlashGot(order, done + 1, bank', expected')
      BY <1>7, <2>1, <2>3, <3>4 DEF FlashStateAt, FlashReadStateAt, FlashGot, Erasing
    <3>7. Fits(expected') /\ cpuSaveGameFunc' = FuncOfType(saveType')
      BY <3>3, <3>4 DEF FlashNow
    <3> QED  BY <2>1, <3>1, <3>3, <3>4, <3>5, <3>6, <3>7, FlashWhere, FlashNext
  <2>4. CASE done = 4
    <3>1. AccessOf(order, done + 1) = Write(K5555, 240)
      BY <1>0, <1>7, <2>4, IdentifyAccesses DEF Access
    <3>2. flashState = "AUTOSELECT" /\ got = <<FlashBanks>>
      BY <1>7, <2>1, <2>4, FlashWhere DEF FlashStateAt, FlashGot, Erasing
    <3>3. \A s \in FlashStates : <<flashState, K5555, 240, s>> \notin Commands
      BY <3>2 DEF Commands
    <3>4. flashState \notin Programs
      BY <3>2 DEF Programs
    <3>5. /\ FlashStateAt(order, done + 1) = "READ_ARRAY"
          /\ FlashReadStateAt(order, done + 1) = "READ_ARRAY"
          /\ FlashGot(order, done + 1, bank, expected) = <<FlashBanks>>
      BY <1>7, <2>1, <2>4 DEF FlashStateAt, FlashReadStateAt, FlashGot, Erasing
    <3> QED
      BY <1>7, <2>1, <2>4, <3>1, <3>2, <3>3, <3>4, <3>5, FlashWhere, FlashEndStep
  <2> QED  BY <2>1, <2>2, <2>3, <2>4
<1> QED
  BY <1>0, <1>1, <1>2, <1>3, <1>4, <1>5, <1>6, <1>7 DEF FlashOrder, Erasing

----------------------------------------------------------------------------
(* The SRAM                                                                   *)

\* Each access takes the SRAM and the game on together.
SramNow ==
  /\ chip = "SRAM" /\ used \in BOOLEAN
  /\ SramAt(flashSaveGame, saveType, order, done, got, bank, expected)
  /\ cpuSaveGameFunc = FuncOfType(saveType) /\ flashDeviceID = FlashBanks
  /\ Fits(expected) /\ done # Length(order)
SramSteps ==
  /\ SramAt(flashSaveGame, saveType, order, done, got, bank, expected)'
  /\ Fits(expected)' /\ cpuSaveGameFunc' = FuncOfType(saveType')
  /\ used' => used \/ saveType' # 0
  /\ saveType # 0 => saveType' # 0
  /\ systemSaveUpdateCounter' \in {systemSaveUpdateCounter, SYSTEM_SAVE_UPDATED}
  /\ UNCHANGED <<flashDeviceID, eepromVars, rtcVars, gbaSaveType, now, chip, cpuSaveType,
                 file, state, order, saved>>
LEMMA SramGo == ASSUME SramNow, Go PROVE SramSteps
<1>1. /\ order.kind \in {"read", "write"} /\ order.cell \in Cells \ {K5555}
      /\ (order.kind = "write" => order.value \in Data)
      /\ done = 0 /\ Length(order) = 1 /\ bank = 0 /\ got = <<>>
  <2>1. order # NoOrder
    BY DEF SramNow, SramAt, NoOrder, Length, Go
  <2>2. order.kind \in {"read", "write"} => Length(order) = 1
    BY DEF SramNow, Length, EEPROMs, Flashes
  <2> QED  BY <2>1, <2>2 DEF SramNow, SramAt
<1>2. /\ flashState = "READ_ARRAY" /\ flashReadState = "READ_ARRAY" /\ flashSize = 1
      /\ flashBank = 0 /\ flashSaveMemory = expected /\ saveType \in {0, 1}
  BY DEF SramNow, SramAt, flashSaveGame
<1>3. /\ AllCells = Array /\ Values = Bytes /\ Blank = [c \in Array |-> 0]
      /\ \A c \in Array : InChip(c) <=> c[1] < 1
  BY DEF SramNow, AllCells, Values, Blank, InChip, EEPROMs, FlashBanks
<1>4. expected \in [Array -> Bytes] /\ \A c \in Array : ~InChip(c) => expected[c] = 0
  BY <1>3 DEF SramNow, Fits
<1>5. CASE order.kind = "read"
  <2>1. AccessOf(order, done + 1) = Access("read", order.cell, 0, TRUE)
    BY <1>1, <1>5 DEF AccessOf, SramNow, EEPROMs, Flashes, Access
  <2>2. readFlash(order.cell) /\ GoesOn /\ UNCHANGED <<expected, used>>
    BY <1>1, <2>1, GoReads DEF SramNow, Access
  <2>3. /\ got' = <<expected[<<0, order.cell>>]>>
        /\ UNCHANGED <<flashState, flashReadState, flashSize, flashDeviceID, flashBank,
                       flashSaveMemory, eepromVars, rtcVars, gbaSaveType, saveType,
                       cpuSaveGameFunc, systemSaveUpdateCounter>>
    BY <1>2, <2>2 DEF readFlash, flashRead, flashReadDone, typeVars
  <2>4. /\ bank' = 0 /\ done' = 1
        /\ UNCHANGED <<now, chip, cpuSaveType, file, state, order, saved>>
    BY <1>1, <2>2 DEF GoesOn
  <2>5. SramAt(flashSaveGame, saveType, order, done, got, bank, expected)'
    BY <1>1, <1>2, <1>5, <2>2, <2>3, <2>4 DEF SramAt, flashSaveGame
  <2>6. Fits(expected)'
    BY <2>2, <2>4 DEF SramNow, Fits, AllCells, Values, InChip, Blank, FlashBanks
  <2> QED  BY <2>2, <2>3, <2>4, <2>5, <2>6 DEF SramSteps, SramNow
<1>6. CASE order.kind = "write"
  <2>1. AccessOf(order, done + 1) = Commit(Write(order.cell, order.value))
    BY <1>1, <1>6 DEF AccessOf, SramNow, EEPROMs, Flashes
  <2>2. /\ cpuSaveGame(order.cell, order.value) /\ GoesOn
        /\ expected' = Effect(order) /\ used' = TRUE
    BY <2>1, GoCommits DEF SramNow
  <2>3. /\ sramWrite(order.cell, order.value) /\ saveType' = 1
        /\ cpuSaveGameFunc' = FuncOfType(1)
        /\ UNCHANGED <<eepromVars, rtcVars, gbaSaveType, got>>
    BY <1>1, <1>2, <2>2 DEF cpuSaveGame, flashSaveDecide, FuncOfType, SramNow
  <2>4. /\ bank' = 0 /\ done' = 1
        /\ UNCHANGED <<now, chip, cpuSaveType, file, state, order, saved>>
    BY <1>1, <1>6, <2>2 DEF GoesOn
  <2>5. expected' = [expected EXCEPT ![<<0, order.cell>>] = order.value]
    BY <1>1, <1>6, <2>2 DEF Effect, Target, SramNow, EEPROMs
  <2>6. /\ flashSaveMemory' = expected' /\ systemSaveUpdateCounter' = SYSTEM_SAVE_UPDATED
        /\ UNCHANGED <<flashState, flashReadState, flashSize, flashDeviceID, flashBank>>
    BY <1>2, <2>3, <2>5 DEF sramWrite, saveUpdated
  <2>7. SramAt(flashSaveGame, saveType, order, done, got, bank, expected)'
    BY <1>1, <1>2, <1>6, <2>3, <2>4, <2>6 DEF SramAt, flashSaveGame
  <2>8. Fits(expected)'
    <3>1. order.value \in Bytes
      BY <1>1, <1>6, SavesAssumption
    <3>2. expected' \in [Array -> Bytes]
      BY <1>4, <2>5, <3>1
    <3>3. ASSUME NEW c \in Array, ~InChip(c) PROVE expected'[c] = 0
      BY <1>3, <1>4, <2>5, <3>3
    <3>4. /\ AllCells' = Array /\ Values' = Bytes /\ Blank' = [c \in Array |-> 0]
          /\ \A c \in Array : InChip(c)' <=> c[1] < 1
      BY <2>4 DEF SramNow, AllCells, Values, Blank, InChip, EEPROMs, FlashBanks
    <3> QED  BY <1>3, <3>2, <3>3, <3>4 DEF Fits
  <2> QED  BY <2>2, <2>3, <2>4, <2>6, <2>7, <2>8 DEF SramSteps
<1> QED  BY <1>1, <1>5, <1>6

----------------------------------------------------------------------------
(* Bits in a row                                                              *)

LEMMA StartsEmpty == ASSUME NEW f PROVE Starts(<<>>, f, 0)
BY DEF Starts
LEMMA StartsOne ==
  ASSUME NEW f, f[1] \in {0, 1} PROVE Starts(<<f[1]>>, f, 1)
BY DEF Starts
LEMMA StartsAppend ==
  ASSUME NEW f, NEW s, NEW n \in Nat, Starts(s, f, n), NEW b \in {0, 1}, f[n + 1] = b
  PROVE  Starts(Append(s, b), f, n + 1)
<1>1. /\ s \in Seq({0, 1}) /\ Len(s) = n
      /\ \A i \in 1 .. n : s[i] = f[i]
  BY DEF Starts
<1>2. Append(s, b) \in Seq({0, 1}) /\ Len(Append(s, b)) = n + 1
  BY <1>1
<1>3. ASSUME NEW i \in 1 .. n + 1 PROVE Append(s, b)[i] = f[i]
  BY <1>1
<1> QED  BY <1>2, <1>3 DEF Starts
LEMMA StartsWhole ==
  ASSUME NEW n \in Nat, NEW f \in [1 .. n -> {0, 1}], NEW s, Starts(s, f, n)
  PROVE  s = f
<1>1. s \in Seq({0, 1}) /\ Len(s) = n /\ \A i \in 1 .. n : s[i] = f[i]
  BY DEF Starts
<1>2. s \in [1 .. n -> {0, 1}]
  BY <1>1
<1> QED  BY <1>1, <1>2
LEMMA StartsOf ==
  ASSUME NEW f, NEW g, NEW s, NEW n \in Nat, Starts(s, f, n),
         \A i \in 1 .. n : f[i] = g[i]
  PROVE  Starts(s, g, n)
BY DEF Starts

----------------------------------------------------------------------------
(* The EEPROM                                                                 *)

\* The DMA of a command has its length and its bits.
LEMMA EEpromNumbers ==
  /\ NarrowBits \in Nat \ {0} /\ WideBits \in Nat \ {0} /\ UnusedBits \in Nat
  /\ DataBits \in Nat /\ DataBits > 1 /\ NarrowBits < WideBits
  /\ AddressBits \in {NarrowBits, WideBits}
BY EEpromAssumption DEF AddressBits
LEMMA DmaLengths ==
  ASSUME NEW o, EEpromOrder(o)
  PROVE  /\ DmaLength(o) = AddressBits + 3 + (IF o.kind = "write" THEN DataBits ELSE 0)
         /\ Width(DmaLength(o)) = AddressBits
         /\ DmaLength(o) # 0
         /\ Wide(DmaLength(o)) <=> AddressBits = WideBits
<1>1. DmaLength(o) = AddressBits + 3 + (IF o.kind = "write" THEN DataBits ELSE 0)
  BY DEF DmaLength
<1>2. Wide(DmaLength(o)) <=> AddressBits = WideBits
  <2>1. /\ NarrowBits + 3 # WideBits + 3 /\ NarrowBits + 3 # WideBits + DataBits + 3
        /\ NarrowBits + DataBits + 3 # WideBits + 3
        /\ NarrowBits + DataBits + 3 # WideBits + DataBits + 3
    BY EEpromAssumption
  <2>2. DmaLength(o) \in {AddressBits + 3, AddressBits + DataBits + 3}
    BY <1>1, EEpromNumbers
  <2> QED  BY <2>1, <2>2, EEpromNumbers DEF Wide
<1>3. Width(DmaLength(o)) = AddressBits
  BY <1>2, EEpromNumbers DEF Width
<1> QED  BY <1>1, <1>2, <1>3, EEpromNumbers
LEMMA OrderTypes ==
  ASSUME NEW o, EEpromOrder(o), chip \in EEPROMs
  PROVE  /\ o.kind \in {"read", "write"} /\ o.cell \in Blocks /\ o.cell \in EEpromBlocks
         /\ o.cell \in [1 .. WideBits -> Bit]
         /\ \A i \in 1 .. WideBits - AddressBits : o.cell[i] = 0
         /\ o.kind = "write" => o.value \in [1 .. DataBits -> Bit]
<1>1. o.cell \in EEpromBlocks
  BY DEF EEpromOrder
<1>2. o.cell \in Blocks
  BY <1>1 DEF EEpromBlocks, SmallBlocks
<1>3. ASSUME NEW i \in 1 .. WideBits - AddressBits PROVE o.cell[i] = 0
  BY <1>1, EEpromNumbers DEF EEpromBlocks, SmallBlocks, AddressBits
<1>4. o.kind = "write" => o.value \in [1 .. DataBits -> Bit]
  BY SavesAssumption DEF EEpromOrder
<1> QED  BY <1>1, <1>2, <1>3, <1>4 DEF EEpromOrder, Blocks
LEMMA DmaBitValues ==
  ASSUME NEW o, EEpromOrder(o), chip \in EEPROMs, NEW i \in 1 .. DmaLength(o)
  PROVE  /\ DmaBit(o, i) \in {0, 1} /\ DmaBits(o)[i] = DmaBit(o, i)
         /\ i = 1 => DmaBit(o, i) = 1
         /\ i = 2 => DmaBit(o, i) = IF o.kind = "write" THEN 0 ELSE 1
         /\ i \in 3 .. AddressBits + 2 =>
              DmaBit(o, i) = o.cell[WideBits - AddressBits + i - 2]
         /\ i > AddressBits + 2 /\ i < DmaLength(o) =>
              DmaBit(o, i) = o.value[i - AddressBits - 2]
<1>1. DmaBits(o)[i] = DmaBit(o, i)
  BY DEF DmaBits
<1>2. DmaLength(o) \in Nat /\ DmaLength(o) >= AddressBits + 3
  BY DmaLengths, EEpromNumbers
<1>9. /\ o.cell \in [1 .. WideBits -> Bit] /\ o.kind \in {"read", "write"}
      /\ o.kind = "write" => o.value \in [1 .. DataBits -> Bit]
  BY OrderTypes
<1>3. CASE i \in {1, 2}
  BY <1>1, <1>3, EEpromNumbers DEF DmaBit
<1>4. CASE i \in 3 .. AddressBits + 2
  <2>1. DmaBit(o, i) = o.cell[WideBits - AddressBits + i - 2]
    BY <1>4, EEpromNumbers DEF DmaBit
  <2>2. WideBits - AddressBits + i - 2 \in 1 .. WideBits
    BY <1>4, EEpromNumbers
  <2>3. DmaBit(o, i) \in Bit
    BY <1>9, <2>1, <2>2
  <2> QED  BY <1>1, <1>4, <2>1, <2>3, EEpromNumbers DEF Bit
<1>5. CASE i > AddressBits + 2 /\ i < DmaLength(o)
  <2>1. DmaBit(o, i) = o.value[i - AddressBits - 2]
    BY <1>2, <1>5, EEpromNumbers DEF DmaBit
  <2>2. o.kind = "write" /\ i - AddressBits - 2 \in 1 .. DataBits
    BY <1>2, <1>5, <1>9, DmaLengths, EEpromNumbers
  <2>3. DmaBit(o, i) \in Bit
    BY <1>9, <2>1, <2>2
  <2> QED  BY <1>1, <1>5, <2>1, <2>3, EEpromNumbers DEF Bit
<1>6. CASE i = DmaLength(o)
  <2>1. DmaBit(o, i) = 0
    BY <1>2, <1>6, EEpromNumbers DEF DmaBit
  <2> QED  BY <1>1, <1>2, <1>6, <2>1, EEpromNumbers
<1> QED  BY <1>2, <1>3, <1>4, <1>5, <1>6, EEpromNumbers

LEMMA DataBitSent ==
  ASSUME NEW o, EEpromOrder(o), chip \in EEPROMs, NEW i \in Nat,
         i > AddressBits + 2, i < DmaLength(o)
  PROVE  DmaBit(o, i) = o.value[i - AddressBits - 2]
<1>1. DmaLength(o) \in Nat /\ AddressBits \in Nat /\ AddressBits > 0
  BY DmaLengths, EEpromNumbers
<1>2. i # 1 /\ i # 2 /\ i \notin 3 .. AddressBits + 2
  BY <1>1
<1> QED  BY <1>1, <1>2 DEF DmaBit

\* What the transfers of a DMA are.
LEMMA DmaSends ==
  ASSUME NEW o, EEpromOrder(o), chip \in EEPROMs, NEW i, i \in 1 .. DmaLength(o),
         o.kind = "write" => i # DmaLength(o) - 1
  PROVE  /\ AccessOf(o, i).op = "dmaWrite" /\ AccessOf(o, i).a = DmaBit(o, i)
         /\ AccessOf(o, i).b = DmaLength(o) /\ AccessOf(o, i).commits = FALSE
<1>1. AccessOf(o, i) = DmaAccess(o, i)
  BY DEF AccessOf, EEPROMs, Flashes
<1>2. ~(i > DmaLength(o))
  BY DmaLengths, EEpromNumbers
<1> QED  BY <1>1, <1>2 DEF DmaAccess, Access
LEMMA DmaSaves ==
  ASSUME NEW o, EEpromOrder(o), chip \in EEPROMs, NEW i, i \in 1 .. DmaLength(o),
         o.kind = "write", i = DmaLength(o) - 1
  PROVE  /\ AccessOf(o, i).op = "dmaWrite" /\ AccessOf(o, i).a = DmaBit(o, i)
         /\ AccessOf(o, i).b = DmaLength(o) /\ AccessOf(o, i).commits = TRUE
<1>1. AccessOf(o, i) = DmaAccess(o, i)
  BY DEF AccessOf, EEPROMs, Flashes
<1>2. ~(i > DmaLength(o))
  BY DmaLengths, EEpromNumbers
<1> QED  BY <1>1, <1>2 DEF DmaAccess, Access, Commit
LEMMA DmaTakes ==
  ASSUME NEW o, EEpromOrder(o), chip \in EEPROMs, NEW i, i > DmaLength(o)
  PROVE  AccessOf(o, i).op = "dmaRead" /\ AccessOf(o, i).commits = FALSE
<1>1. AccessOf(o, i) = DmaAccess(o, i)
  BY DEF AccessOf, EEPROMs, Flashes
<1> QED  BY <1>1 DEF DmaAccess, Access

\* What the proof of a step of the EEPROM needs, and what it shows.
EEpromNow ==
  /\ chip \in EEPROMs /\ EEpromOrder(order) /\ used \in BOOLEAN
  /\ EEpromAt(eepromVars, order, done, got, expected)
  /\ Fits(expected) /\ done \in Nat /\ done # Length(order)
EEpromSteps ==
  /\ EEpromAt(eepromVars, order, done, got, expected)'
  /\ Fits(expected)' /\ used' \in BOOLEAN
  /\ used' => used \/ eepromInUse'
  /\ eepromInUse => eepromInUse'
  /\ systemSaveUpdateCounter' \in {systemSaveUpdateCounter, SYSTEM_SAVE_UPDATED}
  /\ UNCHANGED <<flashVars, rtcVars, typeVars, now, chip, cpuSaveType, file, state,
                 order, saved, bank>>
LEMMA GoSends ==
  ASSUME EEpromNow, Go, NEW a, NEW n, AccessOf(order, done + 1).op = "dmaWrite",
         AccessOf(order, done + 1).a = a, AccessOf(order, done + 1).b = n,
         AccessOf(order, done + 1).commits = FALSE
  PROVE  /\ writeEEprom(a, n) /\ GoesOn /\ bank' = bank
         /\ expected' = expected /\ used' = used
<1>1. order.kind # "bank" /\ used \in BOOLEAN
  BY DEF EEpromNow, EEpromOrder
<1>2. Do(AccessOf(order, done + 1)) /\ GoesOn /\ expected' = expected /\ used' = used
  BY <1>1 DEF Go, GoesOn
<1>3. writeEEprom(a, n)
  BY <1>2 DEF Do
<1> QED  BY <1>1, <1>2, <1>3 DEF GoesOn
LEMMA GoSaves ==
  ASSUME EEpromNow, Go, NEW a, NEW n, AccessOf(order, done + 1).op = "dmaWrite",
         AccessOf(order, done + 1).a = a, AccessOf(order, done + 1).b = n,
         AccessOf(order, done + 1).commits = TRUE
  PROVE  /\ writeEEprom(a, n) /\ GoesOn /\ bank' = bank
         /\ expected' = Effect(order) /\ used' = TRUE
<1>1. order.kind # "bank" /\ used \in BOOLEAN
  BY DEF EEpromNow, EEpromOrder
<1>2. Do(AccessOf(order, done + 1)) /\ GoesOn /\ expected' = Effect(order) /\ used' = TRUE
  BY <1>1 DEF Go, GoesOn
<1>3. writeEEprom(a, n)
  BY <1>2 DEF Do
<1> QED  BY <1>1, <1>2, <1>3 DEF GoesOn
LEMMA GoTakes ==
  ASSUME EEpromNow, Go, AccessOf(order, done + 1).op = "dmaRead",
         AccessOf(order, done + 1).commits = FALSE
  PROVE  readEEprom /\ GoesOn /\ bank' = bank /\ expected' = expected /\ used' = used
<1>1. order.kind # "bank" /\ used \in BOOLEAN
  BY DEF EEpromNow, EEpromOrder
<1>2. Do(AccessOf(order, done + 1)) /\ GoesOn /\ expected' = expected /\ used' = used
  BY <1>1 DEF Go, GoesOn
<1>3. readEEprom
  BY <1>2 DEF Do
<1> QED  BY <1>1, <1>2, <1>3 DEF GoesOn

\* What the step has to leave behind.
LEMMA EEpromNext ==
  ASSUME EEpromNow, GoesOn, bank' = bank, Fits(expected'), used' \in BOOLEAN,
         eepromBuffer' \in Seq(Bit), eepromAddress' \in Blocks, eepromInUse' \in BOOLEAN,
         eepromSize' \in {SmallSize, LargeSize},
         chip = "EEPROM512" => eepromSize' = SmallSize,
         eepromData' = expected',
         \/ Idles(eepromVars', order, done + 1, got', expected')
         \/ TakesAddress(eepromVars', order, done + 1, got')
         \/ TakesData(eepromVars', order, done + 1, got')
         \/ GivesDummies(eepromVars', order, done + 1, got')
         \/ GivesData(eepromVars', order, done + 1, got', expected'),
         used' => used \/ eepromInUse', eepromInUse => eepromInUse',
         systemSaveUpdateCounter' \in {systemSaveUpdateCounter, SYSTEM_SAVE_UPDATED},
         UNCHANGED <<flashVars, rtcVars, typeVars>>
  PROVE  EEpromSteps
<1>1. /\ chip' = chip /\ done' = done + 1 /\ order' = order
      /\ UNCHANGED <<now, cpuSaveType, file, state, saved>>
  BY DEF GoesOn
<1>2. AddressBits' = AddressBits
  BY <1>1 DEF AddressBits
<1>3. Length(order)' = Length(order) /\ DmaLength(order)' = DmaLength(order)
  BY <1>1, <1>2 DEF Length, DmaLength
<1>4. EEpromOrder(order)'
  BY <1>1 DEF EEpromNow, EEpromOrder, EEpromBlocks
<1>5. DmaBits(order)' = DmaBits(order)
  BY <1>1, <1>2, <1>3 DEF DmaBits, DmaBit
<1>6. \/ Idles(eepromVars, order, done, got, expected)'
      \/ TakesAddress(eepromVars, order, done, got)'
      \/ TakesData(eepromVars, order, done, got)'
      \/ GivesDummies(eepromVars, order, done, got)'
      \/ GivesData(eepromVars, order, done, got, expected)'
  BY <1>1, <1>2, <1>3, <1>5 DEF Idles, TakesAddress, TakesData, GivesDummies, GivesData
<1>7. Fits(expected)'
  BY <1>1 DEF Fits, InChip, Values, AllCells, Blank, FlashBanks
<1>8. EEpromAt(eepromVars, order, done, got, expected)'
  BY <1>1, <1>4, <1>6 DEF EEpromAt, eepromVars
<1> QED  BY <1>1, <1>7, <1>8 DEF EEpromSteps

\* Where the EEPROM is before an access.
LEMMA EEpromWhere ==
  ASSUME EEpromNow
  PROVE  /\ done + 1 \in Nat \ {0}
         /\ DmaLength(order) \in Nat /\ DmaLength(order) > AddressBits + 2
         /\ order.kind = "write" => Length(order) = DmaLength(order)
         /\ order.kind = "read" => Length(order) = DmaLength(order) + Dummies + DataBits
         /\ order.kind \in {"read", "write"}
         /\ \/ Idles(eepromVars, order, done, got, expected)
            \/ TakesAddress(eepromVars, order, done, got)
            \/ TakesData(eepromVars, order, done, got)
            \/ GivesDummies(eepromVars, order, done, got)
            \/ GivesData(eepromVars, order, done, got, expected)
         /\ eepromBuffer \in Seq(Bit) /\ eepromAddress \in Blocks /\ eepromInUse \in BOOLEAN
         /\ eepromSize \in {SmallSize, LargeSize}
         /\ chip = "EEPROM512" => eepromSize = SmallSize
         /\ eepromData = expected
<1>1. order.kind \in {"read", "write"} /\ order # NoOrder
  BY DEF EEpromNow, EEpromOrder, NoOrder
<1>2. Length(order) = DmaLength(order)
                        + (IF order.kind = "write" THEN 0 ELSE Dummies + DataBits)
  BY <1>1 DEF Length, EEpromNow, EEPROMs, Flashes
<1>3. DmaLength(order) \in Nat /\ DmaLength(order) > AddressBits + 2
  BY DmaLengths, EEpromNumbers DEF EEpromNow
<1>4. /\ order.kind = "write" => Length(order) = DmaLength(order)
      /\ order.kind = "read" => Length(order) = DmaLength(order) + Dummies + DataBits
  BY <1>1, <1>2, <1>3, EEpromNumbers DEF Dummies
<1> QED  BY <1>1, <1>3, <1>4 DEF EEpromNow, EEpromAt, eepromVars

\* What a write leaves of the order of the game.
LEMMA BlockFits ==
  ASSUME EEpromNow, order.kind = "write"
  PROVE  /\ Effect(order) = [expected EXCEPT ![order.cell] = order.value]
         /\ Fits(Effect(order))
<1>1. Effect(order) = [expected EXCEPT ![order.cell] = order.value]
  BY DEF Effect, Target, EEpromNow
<1>2. /\ order.cell \in Blocks /\ order.cell \in EEpromBlocks
      /\ order.value \in [1 .. DataBits -> Bit]
  BY OrderTypes DEF EEpromNow
<1>3. AllCells = Blocks /\ Values = [1 .. DataBits -> Bit]
  BY DEF EEpromNow, AllCells, Values
<1>4. InChip(order.cell)
  BY <1>2 DEF EEpromNow, InChip, EEpromBlocks, EEPROMs
<1>5. /\ expected \in [Blocks -> [1 .. DataBits -> Bit]]
      /\ \A c \in Blocks : ~InChip(c) => expected[c] = Blank[c]
  BY <1>3 DEF EEpromNow, Fits
<1>6. Effect(order) \in [Blocks -> [1 .. DataBits -> Bit]]
  BY <1>1, <1>2, <1>5
<1>7. ASSUME NEW c \in Blocks, ~InChip(c) PROVE Effect(order)[c] = Blank[c]
  BY <1>1, <1>4, <1>5, <1>7
<1> QED  BY <1>1, <1>3, <1>6, <1>7 DEF Fits

LEMMA EEpromIs ==
  ASSUME EEpromNow
  PROVE  chip \in EEPROMs /\ EEpromOrder(order) /\ used \in BOOLEAN /\ Fits(expected)
BY DEF EEpromNow

\* The first bit of a command.
LEMMA EEpromStarts ==
  ASSUME EEpromNow, Go, Idles(eepromVars, order, done, got, expected) PROVE EEpromSteps
<1>1. done = 0 /\ got = <<>> /\ eepromMode = "IDLE"
  BY DEF Idles, EEpromNow, eepromVars
<1>2. /\ writeEEprom(1, DmaLength(order)) /\ GoesOn /\ bank' = bank
      /\ expected' = expected /\ used' = used
  <2>1. DmaBit(order, 1) = 1 /\ DmaLength(order) > 2
    BY EEpromWhere, EEpromNumbers, DmaBitValues, EEpromIs
  <2>3. done + 1 = 1 /\ 1 \in 1 .. DmaLength(order) /\ 1 # DmaLength(order) - 1
    BY <1>1, <2>1, EEpromWhere
  <2>2. /\ AccessOf(order, done + 1).op = "dmaWrite" /\ AccessOf(order, done + 1).a = 1
        /\ AccessOf(order, done + 1).b = DmaLength(order)
        /\ AccessOf(order, done + 1).commits = FALSE
    BY <2>1, <2>3, DmaSends, EEpromIs
  <2> QED  BY <2>2, GoSends
<1>3. eepromStart(1) /\ UNCHANGED <<flashVars, rtcVars, typeVars, got>>
  BY <1>1, <1>2, DmaLengths, EEpromIs
  DEF writeEEprom, eepromWrite, eepromTakeAddress, eepromHasAddress, eepromStopRead,
      eepromTakeData, eepromStop
<1>4. Starts(<<1>>, DmaBits(order), 1)
  <2>1. DmaBits(order)[1] = 1
    BY EEpromWhere, EEpromNumbers, DmaBitValues, EEpromIs
  <2> QED  BY <2>1, StartsOne
<1>5. TakesAddress(eepromVars', order, done + 1, got')
  BY <1>1, <1>3, <1>4, EEpromNumbers DEF TakesAddress, eepromStart, eepromVars
<1>6. /\ eepromBuffer' \in Seq(Bit) /\ systemSaveUpdateCounter' = systemSaveUpdateCounter
      /\ UNCHANGED <<eepromAddress, eepromInUse, eepromSize, eepromData>>
  BY <1>3 DEF eepromStart, Bit
<1>7. Fits(expected') /\ used' \in BOOLEAN
  BY <1>2, EEpromIs
<1> QED  BY <1>2, <1>3, <1>5, <1>6, <1>7, EEpromWhere, EEpromNext

\* A bit of the address.
LEMMA EEpromTakes ==
  ASSUME EEpromNow, Go, TakesAddress(eepromVars, order, done, got),
         done < AddressBits + 2
  PROVE  EEpromSteps
<1>1. /\ done \in 1 .. AddressBits + 2 /\ got = <<>> /\ eepromMode = "READADDRESS"
      /\ eepromBits = done /\ Starts(eepromBuffer, DmaBits(order), done)
  BY DEF TakesAddress, eepromVars
<1>2. /\ DmaLength(order) \in Nat /\ DmaLength(order) > AddressBits + 2
      /\ done + 1 \in 1 .. DmaLength(order)
      /\ order.kind = "write" => done + 1 # DmaLength(order) - 1
      /\ AddressBits \in Nat
  <2>1. /\ DmaLength(order) \in Nat /\ AddressBits \in Nat /\ done \in Nat
        /\ DmaLength(order) > AddressBits + 2
    BY <1>1, EEpromWhere, EEpromNumbers
  <2>2. order.kind = "write" => DmaLength(order) = AddressBits + 3 + DataBits 
    BY DmaLengths, EEpromIs
  <2> QED  BY <1>1, <2>1, <2>2, EEpromNumbers
<1>3. DmaBit(order, done + 1) \in {0, 1}
      /\ DmaBits(order)[done + 1] = DmaBit(order, done + 1)
  BY <1>2, DmaBitValues, EEpromIs
<1>4. /\ writeEEprom(DmaBit(order, done + 1), DmaLength(order)) /\ GoesOn /\ bank' = bank
      /\ expected' = expected /\ used' = used
  <2>1. /\ AccessOf(order, done + 1).op = "dmaWrite"
        /\ AccessOf(order, done + 1).a = DmaBit(order, done + 1)
        /\ AccessOf(order, done + 1).b = DmaLength(order)
        /\ AccessOf(order, done + 1).commits = FALSE
    BY <1>2, DmaSends, EEpromIs
  <2> QED  BY <2>1, GoSends
<1>5. /\ eepromTakeAddress(DmaBit(order, done + 1), DmaLength(order))
      /\ UNCHANGED <<flashVars, rtcVars, typeVars, got>>
  <2>1. eepromBits + 1 # Width(DmaLength(order)) + 3
    BY <1>1, <1>2, DmaLengths, EEpromIs
  <2> QED
    BY <1>1, <1>4, <2>1, DmaLengths, EEpromIs
    DEF writeEEprom, eepromWrite, eepromStart, eepromHasAddress, eepromStopRead,
        eepromTakeData, eepromStop
<1>6. Starts(eepromBuffer', DmaBits(order), done + 1)
  BY <1>1, <1>3, <1>5, StartsAppend DEF eepromTakeAddress
<1>7. TakesAddress(eepromVars', order, done + 1, got')
  BY <1>1, <1>2, <1>5, <1>6 DEF TakesAddress, eepromTakeAddress, eepromVars
<1>8. /\ eepromBuffer' \in Seq(Bit) /\ systemSaveUpdateCounter' = systemSaveUpdateCounter
      /\ UNCHANGED <<eepromAddress, eepromInUse, eepromSize, eepromData>>
  BY <1>5, <1>6 DEF eepromTakeAddress, Starts, Bit
<1>9. Fits(expected') /\ used' \in BOOLEAN
  BY <1>4, EEpromIs
<1> QED  BY <1>4, <1>5, <1>7, <1>8, <1>9, EEpromWhere, EEpromNext

\* The address is whole: it is that of the order.
LEMMA EEpromFinds ==
  ASSUME EEpromNow, Starts(eepromBuffer, DmaBits(order), AddressBits + 2)
  PROVE  /\ AddressIn(eepromBuffer, AddressBits) = order.cell
         /\ eepromBuffer[2] = (IF order.kind = "write" THEN 0 ELSE 1)
<1>1. /\ DmaLength(order) \in Nat /\ DmaLength(order) > AddressBits + 2
      /\ AddressBits \in Nat \ {0} /\ WideBits \in Nat /\ AddressBits <= WideBits
  BY EEpromWhere, EEpromNumbers
<1>2. ASSUME NEW i \in 1 .. AddressBits + 2
      PROVE  eepromBuffer[i] = DmaBit(order, i)
  BY <1>1, DmaBitValues DEF Starts, EEpromNow
<1>3. order.cell \in [1 .. WideBits -> Bit]
      /\ \A i \in 1 .. WideBits - AddressBits : order.cell[i] = 0
  BY OrderTypes, EEpromIs
<1>4. ASSUME NEW i \in 1 .. WideBits
      PROVE  AddressIn(eepromBuffer, AddressBits)[i] = order.cell[i]
  <2>1. CASE i <= WideBits - AddressBits
    BY <1>1, <1>3, <2>1 DEF AddressIn
  <2>2. CASE ~(i <= WideBits - AddressBits)
    <3>1. i - (WideBits - AddressBits) + 2 \in 3 .. AddressBits + 2
      BY <1>1, <2>2
    <3>2. DmaBit(order, i - (WideBits - AddressBits) + 2)
            = order.cell[WideBits - AddressBits + (i - (WideBits - AddressBits) + 2) - 2]
      BY <1>1, <3>1, DmaBitValues, EEpromIs
    <3>3. WideBits - AddressBits + (i - (WideBits - AddressBits) + 2) - 2 = i
      BY <1>1
    <3>4. AddressIn(eepromBuffer, AddressBits)[i]
            = eepromBuffer[i - (WideBits - AddressBits) + 2]
      BY <2>2 DEF AddressIn
    <3> QED  BY <1>2, <3>1, <3>2, <3>3, <3>4
  <2> QED  BY <2>1, <2>2
<1>5. AddressIn(eepromBuffer, AddressBits) = order.cell
  BY <1>3, <1>4 DEF AddressIn
<1>6. eepromBuffer[2] = DmaBit(order, 2)
      /\ DmaBit(order, 2) = IF order.kind = "write" THEN 0 ELSE 1
  BY <1>1, <1>2, DmaBitValues, EEpromIs
<1> QED  BY <1>5, <1>6
LEMMA EEpromTurns ==
  ASSUME EEpromNow, Go, TakesAddress(eepromVars, order, done, got),
         done = AddressBits + 2
  PROVE  EEpromSteps
<1>1. /\ got = <<>> /\ eepromMode = "READADDRESS"
      /\ eepromBits = done /\ Starts(eepromBuffer, DmaBits(order), done)
  BY DEF TakesAddress, eepromVars
<1>2. /\ DmaLength(order) \in Nat /\ AddressBits \in Nat /\ DataBits > 1 /\ DataBits \in Nat
      /\ DmaLength(order) = AddressBits + 3 + (IF order.kind = "write" THEN DataBits ELSE 0)
      /\ Width(DmaLength(order)) = AddressBits /\ DmaLength(order) # 0
      /\ Wide(DmaLength(order)) <=> AddressBits = WideBits
      /\ order.kind \in {"read", "write"}
  BY EEpromWhere, EEpromNumbers, DmaLengths, EEpromIs
<1>3. /\ done + 1 \in 1 .. DmaLength(order)
      /\ order.kind = "write" => done + 1 # DmaLength(order) - 1
      /\ order.kind = "write" => done + 1 < DmaLength(order)
  BY <1>2
<1>4. DmaBit(order, done + 1) \in {0, 1}
      /\ (order.kind = "write" => DmaBit(order, done + 1) = order.value[1])
  BY <1>2, <1>3, DmaBitValues, EEpromIs
<1>5. /\ writeEEprom(DmaBit(order, done + 1), DmaLength(order)) /\ GoesOn /\ bank' = bank
      /\ expected' = expected /\ used' = used
  <2>1. /\ AccessOf(order, done + 1).op = "dmaWrite"
        /\ AccessOf(order, done + 1).a = DmaBit(order, done + 1)
        /\ AccessOf(order, done + 1).b = DmaLength(order)
        /\ AccessOf(order, done + 1).commits = FALSE
    BY <1>2, <1>3, DmaSends, EEpromIs
  <2> QED  BY <2>1, GoSends
<1>6. /\ eepromHasAddress(DmaBit(order, done + 1), DmaLength(order))
      /\ UNCHANGED <<flashVars, rtcVars, typeVars, got>>
  BY <1>1, <1>2, <1>5
  DEF writeEEprom, eepromWrite, eepromStart, eepromTakeAddress, eepromStopRead,
      eepromTakeData, eepromStop
<1>7. /\ AddressIn(eepromBuffer, AddressBits) = order.cell
      /\ eepromBuffer[2] = (IF order.kind = "write" THEN 0 ELSE 1)
  BY <1>1, EEpromFinds
<1>14. eepromInUse' = TRUE
  BY <1>6 DEF eepromHasAddress
<1>8. /\ eepromAddress' = order.cell
      /\ eepromSize' = (IF AddressBits = WideBits THEN LargeSize ELSE eepromSize)
      /\ UNCHANGED <<eepromData, systemSaveUpdateCounter>>
      /\ order.kind = "write" =>
           /\ eepromMode' = "WRITEDATA" /\ eepromBits' = 1
           /\ eepromBuffer' = <<DmaBit(order, done + 1)>>
      /\ order.kind = "read" =>
           /\ eepromMode' = "READDATA" /\ eepromBits' = 0
           /\ eepromBuffer' = Append(eepromBuffer, DmaBit(order, done + 1))
  BY <1>2, <1>6, <1>7 DEF eepromHasAddress
<1>9. eepromBuffer' \in Seq(Bit)
  <2>1. eepromBuffer \in Seq(Bit) /\ DmaBit(order, done + 1) \in Bit
    BY <1>4, EEpromWhere DEF Bit
  <2>2. CASE order.kind = "write"
    <3>1. eepromBuffer' = <<DmaBit(order, done + 1)>>
      BY <1>8, <2>2
    <3> QED  BY <2>1, <3>1
  <2>3. CASE order.kind = "read"
    <3>1. eepromBuffer' = Append(eepromBuffer, DmaBit(order, done + 1))
      BY <1>8, <2>3
    <3> QED  BY <2>1, <3>1
  <2> QED  BY <1>2, <2>2, <2>3
<1>10. \/ TakesData(eepromVars', order, done + 1, got')
       \/ GivesDummies(eepromVars', order, done + 1, got')
  <2>1. CASE order.kind = "write"
    <3>1. Starts(<<order.value[1]>>, order.value, 1)
      BY <1>4, <2>1, StartsOne
    <3>2. /\ done + 1 \in AddressBits + 3 .. DmaLength(order) - 1
          /\ done + 1 - AddressBits - 2 = 1
      BY <1>2, <2>1
    <3>3. Starts(eepromBuffer', order.value, done + 1 - AddressBits - 2)
      BY <1>4, <1>8, <2>1, <3>1, <3>2
    <3>4. eepromMode' = "WRITEDATA" /\ eepromAddress' = order.cell /\ eepromBits' = 1
      BY <1>8, <2>1
    <3>5. got' = <<>>
      BY <1>1, <1>6
    <3>6. TakesData(eepromVars', order, done + 1, got')
      BY <1>2, <2>1, <3>2, <3>3, <3>4, <3>5 DEF TakesData, eepromVars
    <3> QED  BY <3>6
  <2>2. CASE order.kind = "read"
    <3>1. /\ done + 1 \in DmaLength(order) .. DmaLength(order) + Dummies - 1
          /\ done + 1 - DmaLength(order) = 0
      BY <1>2, <2>2 DEF Dummies
    <3>2. got' = <<>> /\ got' \in Seq(Bit) /\ Len(got') = 0
      BY <1>1, <1>6
    <3>3. /\ eepromMode' = "READDATA" /\ eepromAddress' = order.cell
          /\ eepromBits' = 0
      BY <1>8, <2>2
    <3>4. Len(got') = done + 1 - DmaLength(order)
      BY <3>1, <3>2
    <3>5. eepromBits' = done + 1 - DmaLength(order)
      BY <3>1, <3>3
    <3>6. GivesDummies(eepromVars', order, done + 1, got')
      <4> DEFINE n == done + 1
      <4>1. n \in Nat /\ DmaLength(order) \in Nat /\ Dummies = 4
        BY EEpromWhere DEF Dummies
      <4>2. /\ got' \in Seq(Bit) /\ Len(got') = n - DmaLength(order)
            /\ n \in DmaLength(order) .. DmaLength(order) + Dummies - 1
        <5>1. Len(got') = n - DmaLength(order)
          BY <3>4, <4>1
        <5>2. n \in DmaLength(order) .. DmaLength(order) + Dummies - 1
          BY <3>1
        <5> QED  BY <3>2, <5>1, <5>2
      <4>3. /\ eepromVars'[1] = "READDATA" /\ eepromVars'[4] = order.cell
            /\ eepromVars'[2] = n - DmaLength(order)
        <5>1. eepromVars'[2] = eepromBits'
          BY DEF eepromVars
        <5>2. eepromBits' = n - DmaLength(order)
          BY <3>5, <4>1
        <5>3. eepromVars'[1] = "READDATA" /\ eepromVars'[4] = order.cell
          BY <3>3 DEF eepromVars
        <5> QED  BY <5>1, <5>2, <5>3
      <4>4. GivesDummies(eepromVars', order, n, got')
        <5> HIDE DEF n
        <5> QED  BY <2>2, <4>1, <4>2, <4>3 DEF GivesDummies
      <4> QED  BY <4>4
    <3> QED  BY <3>6
  <2> QED  BY <1>2, <2>1, <2>2
<1>11. /\ eepromAddress' \in Blocks /\ eepromInUse' \in BOOLEAN
       /\ eepromSize' \in {SmallSize, LargeSize}
       /\ chip = "EEPROM512" => eepromSize' = SmallSize
  BY <1>8, <1>14, OrderTypes, EEpromWhere, EEpromNumbers DEF EEpromNow, AddressBits
<1>12. Fits(expected') /\ used' \in BOOLEAN
  BY <1>5, EEpromIs
<1>13. eepromData' = expected' /\ (used' => used \/ eepromInUse')
       /\ (eepromInUse => eepromInUse')
  BY <1>5, <1>8, <1>14, EEpromWhere
<1> QED
  BY <1>5, <1>6, <1>8, <1>9, <1>10, <1>11, <1>12, <1>13, EEpromNext

\* A bit of the data to write.
LEMMA EEpromWhereData ==
  ASSUME EEpromNow, TakesData(eepromVars, order, done, got)
  PROVE  /\ order.kind = "write" /\ got = <<>> /\ eepromMode = "WRITEDATA"
         /\ done - AddressBits - 2 \in 1 .. DataBits
         /\ eepromBits = done - AddressBits - 2
         /\ Starts(eepromBuffer, order.value, done - AddressBits - 2)
         /\ eepromAddress = order.cell
         /\ DmaLength(order) = AddressBits + 3 + DataBits /\ DmaLength(order) \in Nat
         /\ done \in Nat /\ AddressBits \in Nat /\ DataBits \in Nat /\ DataBits > 1
         /\ done + 1 \in 1 .. DmaLength(order) /\ DmaLength(order) # 0
         /\ Length(order) = DmaLength(order)
         /\ order.value \in [1 .. DataBits -> Bit] /\ order.cell \in Blocks
<1>1. /\ order.kind = "write" /\ got = <<>> /\ eepromMode = "WRITEDATA"
      /\ done \in AddressBits + 3 .. DmaLength(order) - 1
      /\ eepromBits = done - AddressBits - 2
      /\ Starts(eepromBuffer, order.value, done - AddressBits - 2)
      /\ eepromAddress = order.cell
  BY DEF TakesData, eepromVars
<1>2. /\ DmaLength(order) \in Nat /\ AddressBits \in Nat /\ DataBits \in Nat /\ DataBits > 1
      /\ Length(order) = DmaLength(order)
  BY <1>1, EEpromWhere, EEpromNumbers
<1>3. DmaLength(order) = AddressBits + 3 + DataBits /\ DmaLength(order) # 0
  BY <1>1, DmaLengths, EEpromIs
<1>4. order.value \in [1 .. DataBits -> Bit] /\ order.cell \in Blocks
  BY <1>1, OrderTypes, EEpromIs
<1>5. done \in Nat /\ done - AddressBits - 2 \in 1 .. DataBits
      /\ done + 1 \in 1 .. DmaLength(order)
  BY <1>1, <1>2, <1>3
<1> QED  BY <1>1, <1>2, <1>3, <1>4, <1>5
LEMMA EEpromFills ==
  ASSUME EEpromNow, TakesData(eepromVars, order, done, got),
         done + 1 < DmaLength(order)
  PROVE  /\ DmaBit(order, done + 1) \in {0, 1}
         /\ Starts(Append(eepromBuffer, DmaBit(order, done + 1)), order.value,
                   done - AddressBits - 2 + 1)
<1>0. /\ done \in Nat /\ AddressBits \in Nat /\ DataBits \in Nat /\ DataBits > 1
      /\ DmaLength(order) = AddressBits + 3 + DataBits /\ DmaLength(order) \in Nat
      /\ done - AddressBits - 2 \in 1 .. DataBits
      /\ eepromBits = done - AddressBits - 2
  BY EEpromWhereData
<1>1. DmaBit(order, done + 1) \in {0, 1}
  BY EEpromWhereData, DmaBitValues, EEpromIs
<1>2. done + 1 > AddressBits + 2
  BY <1>0, EEpromWhereData
<1>3. DmaBit(order, done + 1) = order.value[done + 1 - AddressBits - 2]
  <2>1. done + 1 \in 1 .. DmaLength(order)
    BY EEpromWhereData
  <2>2. done + 1 > AddressBits + 2 /\ done + 1 < DmaLength(order) =>
          DmaBit(order, done + 1) = order.value[done + 1 - AddressBits - 2]
    BY <1>0, DataBitSent, EEpromIs
  <2> QED  BY <1>2, <2>2
<1>4. done + 1 - AddressBits - 2 = (done - AddressBits - 2) + 1
  BY <1>0, EEpromWhereData
<1>5. /\ done - AddressBits - 2 \in Nat
      /\ Starts(eepromBuffer, order.value, done - AddressBits - 2)
  BY <1>0, EEpromWhereData
<1>6. order.value[(done - AddressBits - 2) + 1] = DmaBit(order, done + 1)
  BY <1>3, <1>4
<1> QED  BY <1>1, <1>5, <1>6, StartsAppend
LEMMA EEpromWrites ==
  ASSUME EEpromNow, Go, TakesData(eepromVars, order, done, got),
         done + 1 < DmaLength(order) - 1
  PROVE  EEpromSteps
<1>0. /\ done \in Nat /\ AddressBits \in Nat /\ DataBits \in Nat /\ DataBits > 1
      /\ DmaLength(order) = AddressBits + 3 + DataBits /\ DmaLength(order) \in Nat
      /\ done - AddressBits - 2 \in 1 .. DataBits
      /\ eepromBits = done - AddressBits - 2
  BY EEpromWhereData
<1> DEFINE bit == DmaBit(order, done + 1)
<1>1. /\ writeEEprom(bit, DmaLength(order)) /\ GoesOn /\ bank' = bank
      /\ expected' = expected /\ used' = used
  <2>1. done + 1 # DmaLength(order) - 1
    BY <1>0, EEpromWhereData
  <2>2. /\ AccessOf(order, done + 1).op = "dmaWrite"
        /\ AccessOf(order, done + 1).a = bit
        /\ AccessOf(order, done + 1).b = DmaLength(order)
        /\ AccessOf(order, done + 1).commits = FALSE
    BY <2>1, EEpromWhereData, DmaSends, EEpromIs
  <2> QED  BY <2>2, GoSends
<1>2. done - AddressBits - 2 < DataBits - 1
  BY <1>0, EEpromWhereData
<1>3. eepromTakeData(bit) /\ UNCHANGED <<flashVars, rtcVars, typeVars, got>>
  BY <1>1, <1>2, EEpromWhereData
  DEF writeEEprom, eepromWrite, eepromStart, eepromTakeAddress, eepromHasAddress,
      eepromStopRead, eepromStop
<1>4. eepromBits' = done - AddressBits - 2 + 1 /\ eepromBits' # DataBits
  BY <1>2, <1>3, EEpromWhereData DEF eepromTakeData
<1>5. /\ eepromBuffer' = Append(eepromBuffer, bit)
      /\ UNCHANGED <<eepromMode, eepromAddress, eepromInUse, eepromSize, eepromData,
                     systemSaveUpdateCounter>>
  BY <1>3, <1>4 DEF eepromTakeData
<1>6. Starts(eepromBuffer', order.value, done - AddressBits - 2 + 1)
  BY <1>0, <1>5, EEpromFills
<1>7. TakesData(eepromVars', order, done + 1, got')
  <2>1. done - AddressBits - 2 + 1 = done + 1 - AddressBits - 2
        /\ done + 1 \in AddressBits + 3 .. DmaLength(order) - 1
    BY <1>0, EEpromWhereData
  <2>2. Starts(eepromBuffer', order.value, done + 1 - AddressBits - 2)
        /\ eepromBits' = done + 1 - AddressBits - 2
    BY <1>4, <1>6, <2>1
  <2>3. got' = <<>> /\ eepromMode' = "WRITEDATA" /\ eepromAddress' = order.cell
        /\ order.kind = "write" /\ AddressBits \in Nat /\ done \in Nat
        /\ DmaLength(order) \in Nat
    BY <1>3, <1>5, EEpromWhereData
  <2> QED  BY <2>1, <2>2, <2>3 DEF TakesData, eepromVars
<1>8. eepromBuffer' \in Seq(Bit)
  BY <1>6 DEF Starts, Bit
<1>9. Fits(expected') /\ used' \in BOOLEAN
  BY <1>1, EEpromIs
<1> QED  BY <1>1, <1>3, <1>5, <1>7, <1>8, <1>9, EEpromWhere, EEpromNext

\* The last bit: the block is written.
LEMMA EEpromCommits ==
  ASSUME EEpromNow, Go, TakesData(eepromVars, order, done, got),
         done + 1 = DmaLength(order) - 1
  PROVE  EEpromSteps
<1>0. /\ done \in Nat /\ AddressBits \in Nat /\ DataBits \in Nat /\ DataBits > 1
      /\ DmaLength(order) = AddressBits + 3 + DataBits /\ DmaLength(order) \in Nat
      /\ done - AddressBits - 2 \in 1 .. DataBits
      /\ eepromBits = done - AddressBits - 2
  BY EEpromWhereData
<1> DEFINE bit == DmaBit(order, done + 1)
<1>1. /\ writeEEprom(bit, DmaLength(order)) /\ GoesOn /\ bank' = bank
      /\ expected' = Effect(order) /\ used' = TRUE
  <2>1. /\ AccessOf(order, done + 1).op = "dmaWrite"
        /\ AccessOf(order, done + 1).a = bit
        /\ AccessOf(order, done + 1).b = DmaLength(order)
        /\ AccessOf(order, done + 1).commits = TRUE
    BY EEpromWhereData, DmaSaves, EEpromIs
  <2> QED  BY <2>1, GoSaves
<1>2. done - AddressBits - 2 = DataBits - 1
  BY <1>0, EEpromWhereData
<1>3. eepromTakeData(bit) /\ UNCHANGED <<flashVars, rtcVars, typeVars, got>>
  BY <1>1, <1>2, EEpromWhereData
  DEF writeEEprom, eepromWrite, eepromStart, eepromTakeAddress, eepromHasAddress,
      eepromStopRead, eepromStop
<1>4. eepromBits' = DataBits
  BY <1>2, <1>3, EEpromWhereData DEF eepromTakeData
<1>5. /\ eepromBuffer' = Append(eepromBuffer, bit)
      /\ eepromData' = [eepromData EXCEPT ![eepromAddress] = eepromBuffer']
      /\ systemSaveUpdateCounter' = SYSTEM_SAVE_UPDATED
      /\ UNCHANGED <<eepromMode, eepromAddress, eepromSize>>
  BY <1>3, <1>4 DEF eepromTakeData, saveUpdated
<1>6. eepromInUse' = TRUE
  BY <1>3, <1>4 DEF eepromTakeData
<1>7. Starts(eepromBuffer', order.value, DataBits)
  <2>1. Starts(eepromBuffer', order.value, done - AddressBits - 2 + 1)
    BY <1>0, <1>5, EEpromFills
  <2>2. done - AddressBits - 2 + 1 = DataBits
    BY <1>0, EEpromWhereData
  <2> QED  BY <2>1, <2>2
<1>8. eepromBuffer' = order.value
  BY <1>7, EEpromWhereData, StartsWhole DEF Bit
<1>9. eepromData' = expected'
  BY <1>1, <1>5, <1>8, EEpromWhereData, EEpromWhere, BlockFits
<1>10. TakesData(eepromVars', order, done + 1, got')
  <2>1. done + 1 - AddressBits - 2 = DataBits
        /\ done + 1 \in AddressBits + 3 .. DmaLength(order) - 1
    BY <1>0, EEpromWhereData
  <2>2. Starts(eepromBuffer', order.value, done + 1 - AddressBits - 2)
        /\ eepromBits' = done + 1 - AddressBits - 2
    BY <1>4, <1>7, <2>1
  <2>3. got' = <<>> /\ eepromMode' = "WRITEDATA" /\ eepromAddress' = order.cell
        /\ order.kind = "write" /\ AddressBits \in Nat /\ done \in Nat
        /\ DmaLength(order) \in Nat
    BY <1>3, <1>5, EEpromWhereData
  <2> QED  BY <2>1, <2>2, <2>3 DEF TakesData, eepromVars
<1>11. eepromBuffer' \in Seq(Bit)
  BY <1>7 DEF Starts, Bit
<1>12. Fits(expected') /\ used' \in BOOLEAN
  BY <1>1, BlockFits, EEpromWhereData
<1>13. eepromInUse' \in BOOLEAN /\ (used' => used \/ eepromInUse')
       /\ (eepromInUse => eepromInUse')
  BY <1>6
<1> QED  BY <1>1, <1>3, <1>5, <1>9, <1>10, <1>11, <1>12, <1>13, EEpromWhere, EEpromNext

\* The bit behind the data: the chip is ready for the next command.
LEMMA EEpromRests ==
  ASSUME EEpromNow, Go, TakesData(eepromVars, order, done, got),
         done + 1 = DmaLength(order)
  PROVE  EEpromSteps
<1>0. /\ done \in Nat /\ AddressBits \in Nat /\ DataBits \in Nat /\ DataBits > 1
      /\ DmaLength(order) = AddressBits + 3 + DataBits /\ DmaLength(order) \in Nat
      /\ done - AddressBits - 2 \in 1 .. DataBits
      /\ eepromBits = done - AddressBits - 2
  BY EEpromWhereData
<1> DEFINE bit == DmaBit(order, done + 1)
<1>1. /\ writeEEprom(bit, DmaLength(order)) /\ GoesOn /\ bank' = bank
      /\ expected' = expected /\ used' = used
  <2>1. done + 1 # DmaLength(order) - 1
    BY <1>0, EEpromWhereData
  <2>2. /\ AccessOf(order, done + 1).op = "dmaWrite"
        /\ AccessOf(order, done + 1).a = bit
        /\ AccessOf(order, done + 1).b = DmaLength(order)
        /\ AccessOf(order, done + 1).commits = FALSE
    BY <2>1, EEpromWhereData, DmaSends, EEpromIs
  <2> QED  BY <2>2, GoSends
<1>2. done - AddressBits - 2 = DataBits
  BY <1>0, EEpromWhereData
<1>3. eepromStop /\ UNCHANGED <<flashVars, rtcVars, typeVars, got>>
  BY <1>1, <1>2, EEpromWhereData
  DEF writeEEprom, eepromWrite, eepromStart, eepromTakeAddress, eepromHasAddress,
      eepromStopRead, eepromTakeData
<1>4. /\ eepromMode' = "IDLE" /\ eepromBits' = 0
      /\ UNCHANGED <<eepromBuffer, eepromAddress, eepromInUse, eepromSize, eepromData,
                     systemSaveUpdateCounter>>
  BY <1>3 DEF eepromStop
<1>5. Idles(eepromVars', order, done + 1, got', expected')
  <2>1. done + 1 = Length(order) /\ order.kind = "write" /\ got' = <<>>
        /\ 0 \in 0 .. DataBits
    BY <1>3, EEpromWhereData
  <2> QED  BY <1>4, <2>1 DEF Idles, eepromVars
<1>6. Fits(expected') /\ used' \in BOOLEAN
  BY <1>1, EEpromIs
<1> QED  BY <1>1, <1>3, <1>4, <1>5, <1>6, EEpromWhere, EEpromNext

\* The bits before the data, and the data.
LEMMA EEpromReadsNext ==
  ASSUME EEpromNow, Go, done \in Nat, done >= DmaLength(order)
  PROVE  /\ readEEprom /\ GoesOn /\ bank' = bank /\ expected' = expected /\ used' = used
         /\ got' = Append(got, eepromRead) /\ eepromReadDone
         /\ UNCHANGED <<flashVars, rtcVars, typeVars>>
         /\ UNCHANGED <<eepromBuffer, eepromAddress, eepromInUse, eepromSize, eepromData,
                        systemSaveUpdateCounter>>
         /\ Fits(expected') /\ used' \in BOOLEAN
<1>1. done + 1 > DmaLength(order)
  BY EEpromWhere
<1>2. AccessOf(order, done + 1).op = "dmaRead"
      /\ AccessOf(order, done + 1).commits = FALSE
  BY <1>1, DmaTakes, EEpromIs
<1>3. readEEprom /\ GoesOn /\ bank' = bank /\ expected' = expected /\ used' = used
  BY <1>2, GoTakes
<1>4. Fits(expected') /\ used' \in BOOLEAN
  BY <1>3, EEpromIs
<1> QED  BY <1>3, <1>4 DEF readEEprom, eepromReadDone
LEMMA EEpromDummies ==
  ASSUME EEpromNow, Go, GivesDummies(eepromVars, order, done, got) PROVE EEpromSteps
<1>1. /\ order.kind = "read"
      /\ done \in DmaLength(order) .. DmaLength(order) + Dummies - 1
      /\ eepromMode = "READDATA" /\ eepromBits = done - DmaLength(order)
      /\ eepromAddress = order.cell /\ got \in Seq(Bit)
      /\ Len(got) = done - DmaLength(order)
  <2>1. DmaLength(order) \in Nat /\ done \in Nat
    BY EEpromWhere DEF EEpromNow
  <2> QED  BY <2>1 DEF GivesDummies, eepromVars, Dummies
<1>2. DmaLength(order) \in Nat /\ done \in Nat /\ done >= DmaLength(order)
      /\ Dummies = 4 /\ DataBits \in Nat /\ DataBits > 1
  BY <1>1, EEpromWhere, EEpromNumbers DEF EEpromNow, Dummies
<1>10. /\ DmaLength(order) \in Nat /\ done \in Nat /\ Dummies = 4
       /\ DataBits \in Nat /\ DataBits > 1 /\ eepromBits \in Nat
       /\ done \in DmaLength(order) .. DmaLength(order) + 3
       /\ eepromBits = done - DmaLength(order)
  BY <1>1, <1>2 DEF Dummies
<1>3. /\ GoesOn /\ bank' = bank /\ expected' = expected /\ used' = used
      /\ got' = Append(got, 0) /\ eepromReadDone
      /\ UNCHANGED <<flashVars, rtcVars, typeVars>>
      /\ UNCHANGED <<eepromBuffer, eepromAddress, eepromInUse, eepromSize, eepromData,
                     systemSaveUpdateCounter>>
      /\ Fits(expected') /\ used' \in BOOLEAN
  BY <1>1, <1>2, EEpromReadsNext DEF eepromRead
<1>4. got' \in Seq(Bit) /\ Len(got') = done + 1 - DmaLength(order)
  BY <1>1, <1>2, <1>3 DEF Bit
<1>5. CASE eepromBits + 1 < Dummies
  <2>1. eepromMode' = "READDATA" /\ eepromBits' = done + 1 - DmaLength(order)
    <3>1. eepromMode' = "READDATA" /\ eepromBits' = eepromBits + 1
      BY <1>1, <1>3, <1>5 DEF eepromReadDone, Dummies
    <3> QED  BY <1>10, <3>1
  <2>2. done + 1 \in DmaLength(order) .. DmaLength(order) + Dummies - 1
    BY <1>5, <1>10 DEF Dummies
  <2>3. GivesDummies(eepromVars', order, done + 1, got')
    BY <1>1, <1>10, <1>3, <1>4, <2>1, <2>2 DEF GivesDummies, eepromVars, Dummies
  <2> QED  BY <1>3, <2>3, EEpromWhere, EEpromNext
<1>6. CASE eepromBits + 1 = Dummies
  <2>1. eepromMode' = "READDATA2" /\ eepromBits' = 0
    BY <1>1, <1>3, <1>6 DEF eepromReadDone, Dummies
  <2>2. /\ done + 1 \in DmaLength(order) + Dummies
                          .. DmaLength(order) + Dummies + DataBits - 1
        /\ done + 1 - DmaLength(order) - Dummies = 0
    BY <1>6, <1>10 DEF Dummies
  <2>3. Gave(got', expected'[order.cell], done + 1 - DmaLength(order) - Dummies)
    <3>1. Gave(got', expected'[order.cell], 0)
      <4>1. Len(got') = Dummies + 0
        BY <1>4, <1>6, <1>10 DEF Dummies
      <4> QED  BY <1>4, <4>1 DEF Gave
    <3> QED  BY <2>2, <3>1
  <2>5. eepromAddress' = order.cell
    BY <1>1, <1>3
  <2>6. Dummies \in Nat /\ eepromBits' = done + 1 - DmaLength(order) - Dummies
    BY <1>10, <2>1, <2>2
  <2>7. /\ order.kind = "read" /\ DmaLength(order) \in Nat /\ done \in Nat
        /\ DataBits \in Nat
    BY <1>1, <1>10
  <2>4. GivesData(eepromVars', order, done + 1, got', expected')
    BY <2>1, <2>2, <2>3, <2>5, <2>6, <2>7 DEF GivesData, eepromVars
  <2> QED  BY <1>3, <2>4, EEpromWhere, EEpromNext
<1> QED  BY <1>10, <1>5, <1>6 DEF Dummies
LEMMA EEpromGives ==
  ASSUME EEpromNow, Go, GivesData(eepromVars, order, done, got, expected)
  PROVE  EEpromSteps
<1> DEFINE first == DmaLength(order) + Dummies
<1>1. /\ order.kind = "read"
      /\ done \in first .. first + DataBits - 1
      /\ eepromMode = "READDATA2" /\ eepromBits = done - first
      /\ eepromAddress = order.cell
      /\ Gave(got, expected[order.cell], done - first)
  <2>1. DmaLength(order) \in Nat /\ done \in Nat /\ DataBits \in Nat /\ Dummies \in Nat
    BY EEpromWhere, EEpromNumbers DEF EEpromNow, Dummies
  <2>2. done - DmaLength(order) - Dummies = done - first
    BY <2>1
  <2> QED  BY <2>1, <2>2 DEF GivesData, eepromVars
<1>2. DmaLength(order) \in Nat /\ done \in Nat /\ done >= DmaLength(order)
      /\ Dummies = 4 /\ DataBits \in Nat /\ DataBits > 1 /\ first \in Nat
  BY <1>1, EEpromWhere, EEpromNumbers DEF EEpromNow, Dummies
<1> DEFINE n == done - first
<1>3. /\ n \in 0 .. DataBits - 1 /\ done + 1 - first = n + 1
      /\ done + 1 - DmaLength(order) - Dummies = n + 1
  BY <1>1, <1>2
<1>11. /\ got \in Seq(Bit) /\ Len(got) = Dummies + n
       /\ \A j \in 1 .. n : got[Dummies + j] = expected[order.cell][j]
  BY <1>1 DEF Gave
<1>4. expected[order.cell] \in [1 .. DataBits -> Bit]
  BY OrderTypes, EEpromIs DEF Fits, AllCells, Values
<1>5. /\ GoesOn /\ bank' = bank /\ expected' = expected /\ used' = used
      /\ got' = Append(got, expected[order.cell][n + 1]) /\ eepromReadDone
      /\ UNCHANGED <<flashVars, rtcVars, typeVars>>
      /\ UNCHANGED <<eepromBuffer, eepromAddress, eepromInUse, eepromSize, eepromData,
                     systemSaveUpdateCounter>>
      /\ Fits(expected') /\ used' \in BOOLEAN
  <2>1. eepromRead = expected[order.cell][n + 1]
    BY <1>1, <1>3, EEpromWhere DEF eepromRead
  <2> QED  BY <1>2, <2>1, EEpromReadsNext
<1>10. /\ DmaLength(order) \in Nat /\ done \in Nat /\ Dummies \in Nat
       /\ DataBits \in Nat /\ DataBits > 1 /\ n \in 0 .. DataBits - 1
       /\ done = DmaLength(order) + Dummies + n /\ eepromBits = n
  BY <1>1, <1>2, <1>3
<1> HIDE DEF n
<1>6. got' \in Seq(Bit) /\ Len(got') = Dummies + n + 1
  <2>1. expected[order.cell][n + 1] \in Bit
    BY <1>2, <1>3, <1>4
  <2> QED  BY <1>10, <1>11, <1>5, <2>1
<1>7. ASSUME NEW j \in 1 .. n + 1 PROVE got'[Dummies + j] = expected'[order.cell][j]
  <2>1. CASE j <= n
    <3>1. got[Dummies + j] = expected[order.cell][j]
      BY <1>10, <1>11, <2>1
    <3>2. Dummies + j \in 1 .. Len(got)
      BY <1>10, <1>11, <2>1
    <3> QED  BY <1>11, <1>5, <3>1, <3>2
  <2>2. CASE j = n + 1
    <3>1. Dummies + j = Len(got) + 1
      BY <1>10, <1>11, <2>2
    <3> QED  BY <1>11, <1>5, <2>2, <3>1
  <2> QED  BY <1>10, <2>1, <2>2
<1>12. Gave(got', expected'[order.cell], n + 1)
  BY <1>6, <1>7, <1>10 DEF Gave
<1>8. CASE n + 1 < DataBits
  <2>1. eepromMode' = "READDATA2" /\ eepromBits' = n + 1
    BY <1>1, <1>2, <1>3, <1>5, <1>8 DEF eepromReadDone, n
  <2>2. done + 1 \in DmaLength(order) + Dummies
                       .. DmaLength(order) + Dummies + DataBits - 1
    BY <1>8, <1>10
  <2>3. /\ eepromBits' = done + 1 - DmaLength(order) - Dummies
        /\ Gave(got', expected'[order.cell], done + 1 - DmaLength(order) - Dummies)
        /\ eepromAddress' = order.cell
    BY <1>1, <1>3, <1>5, <1>12, <2>1
  <2>4. GivesData(eepromVars', order, done + 1, got', expected')
    BY <1>1, <1>10, <2>1, <2>2, <2>3 DEF GivesData, eepromVars
  <2> QED  BY <1>5, <2>4, EEpromWhere, EEpromNext
<1>9. CASE n + 1 = DataBits
  <2>1. eepromMode' = "IDLE" /\ eepromBits' = DataBits
    BY <1>1, <1>2, <1>3, <1>5, <1>9 DEF eepromReadDone, n
  <2>2. done + 1 = Length(order)
    <3>1. Length(order) = DmaLength(order) + Dummies + DataBits
      BY <1>1, EEpromWhere
    <3> QED  BY <1>9, <1>10, <3>1
  <2>3. Gave(got', expected'[order.cell], DataBits)
    BY <1>9, <1>12
  <2>4. Idles(eepromVars', order, done + 1, got', expected')
    BY <1>1, <1>10, <2>1, <2>2, <2>3 DEF Idles, eepromVars
  <2> QED  BY <1>5, <2>4, EEpromWhere, EEpromNext
<1> QED  BY <1>2, <1>3, <1>8, <1>9

\* Each access takes the EEPROM and the game on together.
LEMMA EEpromGo == ASSUME EEpromNow, Go PROVE EEpromSteps
<1>1. DmaLength(order) \in Nat /\ AddressBits \in Nat /\ done \in Nat
  BY EEpromWhere, EEpromNumbers DEF EEpromNow
<1>2. CASE TakesAddress(eepromVars, order, done, got)
  <2>1. done \in 1 .. AddressBits + 2
    BY <1>2 DEF TakesAddress
  <2>2. done < AddressBits + 2 \/ done = AddressBits + 2
    BY <1>1, <2>1
  <2> QED  BY <1>2, <2>2, EEpromTakes, EEpromTurns
<1>3. CASE TakesData(eepromVars, order, done, got)
  <2>1. done \in AddressBits + 3 .. DmaLength(order) - 1
    BY <1>3 DEF TakesData
  <2>2. \/ done + 1 < DmaLength(order) - 1 \/ done + 1 = DmaLength(order) - 1
        \/ done + 1 = DmaLength(order)
    BY <1>1, <2>1
  <2> QED  BY <1>3, <2>2, EEpromWrites, EEpromCommits, EEpromRests
<1> QED
  BY <1>2, <1>3, EEpromWhere, EEpromStarts, EEpromDummies, EEpromGives

----------------------------------------------------------------------------
(* The clock                                                                  *)

\* The commands of the clock, how long they are and what their accesses are.
LEMMA CommandsDiffer ==
  /\ \A c \in {SetControl, GetControl, GetDate, GetTime} : Stop # c
  /\ \A c \in {GetControl, GetDate, GetTime} : SetControl # c
  /\ GetControl # GetDate /\ GetControl # GetTime /\ GetDate # GetTime
  /\ \A c \in {Stop, SetControl, GetControl, GetDate, GetTime} : c \in [1 .. 8 -> {0, 1}]
<1>1. /\ Stop[6] = 0 /\ Stop[7] = 0
      /\ SetControl[6] = 0 /\ SetControl[7] = 1 /\ SetControl[8] = 0
      /\ GetControl[6] = 0 /\ GetControl[7] = 1 /\ GetControl[8] = 1
      /\ GetDate[6] = 1 /\ GetDate[7] = 0
      /\ GetTime[6] = 1 /\ GetTime[7] = 1
  BY DEF Stop, SetControl, GetControl, GetDate, GetTime
<1>2. \A c \in {Stop, SetControl, GetControl, GetDate, GetTime} : c \in [1 .. 8 -> {0, 1}]
  BY DEF Stop, SetControl, GetControl, GetDate, GetTime
<1> QED  BY <1>1, <1>2
LEMMA RtcNumbers ==
  /\ DateBits \in Nat \ {0} /\ TimeBits \in Nat \ {0} /\ ControlBits \in Nat \ {0}
  /\ \A o : Asks(o) => AnswerBits(o.cell) \in {DateBits, TimeBits, ControlBits}
<1>1. DateBits \in Nat \ {0} /\ TimeBits \in Nat \ {0} /\ ControlBits \in Nat \ {0}
  BY RtcAssumption
<1>2. ASSUME NEW o, Asks(o)
      PROVE  AnswerBits(o.cell) \in {DateBits, TimeBits, ControlBits}
  BY <1>2, CommandsDiffer DEF Asks, AnswerBits
<1> QED  BY <1>1, <1>2
LEMMA RtcLengths ==
  ASSUME NEW o, RtcOrder(o), chip = "RTC"
  PROVE  /\ o.kind = "command" /\ o.cell \in [1 .. 8 -> {0, 1}]
         /\ Length(o) = RtcLength(o.cell)
         /\ o.cell = Stop \/ o.cell = SetControl \/ Asks(o)
         /\ o.cell = Stop => ~Asks(o) /\ o.cell # SetControl /\ RtcLength(o.cell) = 21
         /\ o.cell = SetControl =>
              ~Asks(o) /\ o.cell # Stop /\ RtcLength(o.cell) = 21 + 2 * ControlBits
         /\ Asks(o) => /\ o.cell # Stop /\ o.cell # SetControl
                       /\ RtcLength(o.cell) = 22 + 3 * AnswerBits(o.cell)
<1>1. o.kind = "command" /\ o.cell \in {Stop, SetControl, GetControl, GetDate, GetTime}
  BY SavesAssumption DEF RtcOrder
<1>2. Length(o) = RtcLength(o.cell)
  BY <1>1 DEF Length, EEPROMs, Flashes
<1>3. o.cell \in [1 .. 8 -> {0, 1}]
  BY <1>1, CommandsDiffer
<1>4. /\ o.cell = Stop => ~Asks(o) /\ o.cell # SetControl
      /\ o.cell = SetControl => ~Asks(o) /\ o.cell # Stop
      /\ Asks(o) => o.cell # Stop /\ o.cell # SetControl
      /\ o.cell = Stop \/ o.cell = SetControl \/ Asks(o)
  BY <1>1, CommandsDiffer DEF Asks
<1>5. /\ o.cell = Stop => RtcLength(o.cell) = 21
      /\ o.cell = SetControl => RtcLength(o.cell) = 21 + 2 * ControlBits
      /\ Asks(o) => RtcLength(o.cell) = 22 + 3 * AnswerBits(o.cell)
  BY <1>4 DEF RtcLength
<1> QED  BY <1>1, <1>2, <1>3, <1>4, <1>5
LEMMA RtcLong ==
  ASSUME NEW o, RtcOrder(o), chip = "RTC"
  PROVE  Length(o) \in Nat /\ Length(o) >= 21
<1>1. CASE o.cell = Stop
  BY <1>1, RtcLengths
<1>2. CASE o.cell = SetControl
  <2>1. Length(o) = 21 + 2 * ControlBits
    BY <1>2, RtcLengths
  <2> QED  BY <2>1, RtcNumbers
<1>3. CASE Asks(o)
  <2>1. Length(o) = 22 + 3 * AnswerBits(o.cell) /\ AnswerBits(o.cell) \in Nat
    BY <1>3, RtcLengths, RtcNumbers
  <2> QED  BY <2>1
<1> QED  BY <1>1, <1>2, <1>3, RtcLengths
LEMMA RtcAccesses ==
  ASSUME NEW o, RtcOrder(o), chip = "RTC", NEW i \in 1 .. Length(o)
  PROVE  /\ i = 1 => AccessOf(o, i) = Access("enable", 1, 0, TRUE)
         /\ i = 2 \/ i = Length(o) => AccessOf(o, i) = Pins0(1)
         /\ i = 3 => AccessOf(o, i) = Pins0(5)
         /\ i = 4 => AccessOf(o, i) = Direction(7)
         /\ i \in 5 .. 20 => AccessOf(o, i) = Out(o.cell, i - 4)
         /\ i > 20 /\ i < Length(o) /\ o.cell = SetControl =>
              AccessOf(o, i) = Out(Control, i - 20)
         /\ i = 21 /\ Asks(o) => AccessOf(o, i) = Direction(5)
         /\ i > 21 /\ i < Length(o) /\ Asks(o) => AccessOf(o, i) = In(i - 21)
<1>1. AccessOf(o, i) = RtcAccess(o.cell, i) /\ Length(o) = RtcLength(o.cell)
  BY RtcLengths DEF AccessOf, EEPROMs, Flashes
<1>2. Length(o) \in Nat /\ Length(o) >= 21 /\ i \in Nat
  BY RtcLong
<1>3. i = 1 => AccessOf(o, i) = Access("enable", 1, 0, TRUE)
  BY <1>1, <1>2 DEF RtcAccess, Access
<1>4. i = 2 \/ i = Length(o) => AccessOf(o, i) = Pins0(1)
  BY <1>1, <1>2 DEF RtcAccess
<1>5. i = 3 => AccessOf(o, i) = Pins0(5)
  BY <1>1, <1>2 DEF RtcAccess
<1>6. i = 4 => AccessOf(o, i) = Direction(7)
  BY <1>1, <1>2 DEF RtcAccess
<1>7. i \in 5 .. 20 => AccessOf(o, i) = Out(o.cell, i - 4)
  <2>1. i \in 5 .. 20 => i # RtcLength(o.cell) /\ i # 1 /\ i # 2 /\ i # 3 /\ i # 4
    BY <1>1, <1>2
  <2> QED  BY <1>1, <2>1 DEF RtcAccess
<1>8. ASSUME i > 20, i < Length(o)
      PROVE  AccessOf(o, i) = IF o.cell = SetControl THEN Out(Control, i - 20)
                              ELSE IF i = 21 THEN Direction(5) ELSE In(i - 21)
  <2>1. /\ i # RtcLength(o.cell) /\ i # 1 /\ i # 2 /\ i # 3 /\ i # 4
        /\ i \notin 5 .. 20
    BY <1>1, <1>2, <1>8
  <2> QED  BY <1>1, <2>1 DEF RtcAccess
<1>9. Asks(o) => Length(o) > 21 /\ o.cell # SetControl
  <2>1. Asks(o) => /\ Length(o) = 22 + 3 * AnswerBits(o.cell)
                   /\ AnswerBits(o.cell) \in Nat /\ o.cell # SetControl
    BY RtcLengths, RtcNumbers
  <2> QED  BY <2>1
<1>10. i > 20 /\ i < Length(o) /\ o.cell = SetControl =>
         AccessOf(o, i) = Out(Control, i - 20)
  BY <1>8
<1>11. i = 21 /\ Asks(o) => AccessOf(o, i) = Direction(5)
  BY <1>2, <1>8, <1>9
<1>12. i > 21 /\ i < Length(o) /\ Asks(o) => AccessOf(o, i) = In(i - 21)
  BY <1>2, <1>8, <1>9
<1> QED  BY <1>3, <1>4, <1>5, <1>6, <1>7, <1>10, <1>11, <1>12

LEMMA CommandAccess ==
  ASSUME NEW o, RtcOrder(o), chip = "RTC", NEW i \in 5 .. 20, NEW j, i - 4 = j
  PROVE  AccessOf(o, i) = Out(o.cell, j)
<1>1. i \in 1 .. Length(o)
  BY RtcLong
<1> QED  BY <1>1, RtcAccesses

\* What the proof of a step of the clock needs, and what it shows.
RtcPhase(R, o, d, g) ==
  \/ RtcRests(R, o, d, g) \/ TakesCommand(R, o, d, g) \/ TakesControl(R, o, d, g)
  \/ TurnsRound(R, o, d, g) \/ Answers(R, o, d, g)
RtcNow ==
  /\ chip = "RTC" /\ RtcOrder(order) /\ used \in BOOLEAN /\ now \in 0 .. MaxTime
  /\ RtcTyped(rtcVars) /\ RtcPhase(rtcVars, order, done, got)
  /\ done \in Nat /\ done < Length(order)
RtcKeeps ==
  /\ GoesOn /\ bank' = bank /\ expected' = expected /\ used' = used
  /\ UNCHANGED <<flashVars, eepromVars, typeVars, systemSaveUpdateCounter>>
RtcSteps ==
  /\ RtcAt(rtcVars, order, done, got)'
  /\ UNCHANGED <<flashVars, eepromVars, typeVars, systemSaveUpdateCounter, now, chip,
                 cpuSaveType, file, state, order, bank, expected, saved, used>>
LEMMA RtcNext ==
  ASSUME RtcNow, RtcKeeps, RtcTyped(rtcVars'), RtcPhase(rtcVars', order, done + 1, got')
  PROVE  RtcSteps
<1>1. /\ chip' = chip /\ done' = done + 1 /\ order' = order /\ now' = now
      /\ UNCHANGED <<flashVars, eepromVars, typeVars, systemSaveUpdateCounter,
                     cpuSaveType, file, state, bank, expected, saved, used>>
  BY DEF RtcKeeps, GoesOn
<1>2. Length(order)' = Length(order)
  <2>1. AddressBits' = AddressBits
    BY <1>1 DEF AddressBits
  <2> QED  BY <1>1, <2>1 DEF Length, DmaLength
<1>3. RtcOrder(order)'
  BY <1>1 DEF RtcNow, RtcOrder
<1>4. RtcTyped(rtcVars)'
  BY DEF RtcTyped, rtcVars
<1>5. RtcPhase(rtcVars, order, done, got)'
  BY <1>1, <1>2 DEF RtcPhase, RtcRests, TakesCommand, TakesControl, TurnsRound, Answers,
                    RtcGot, Latched
<1>6. RtcAt(rtcVars, order, done, got)'
  BY <1>3, <1>4, <1>5 DEF RtcAt, RtcPhase
<1> QED  BY <1>1, <1>6 DEF RtcSteps
LEMMA RtcIs ==
  ASSUME RtcNow
  PROVE  /\ chip = "RTC" /\ RtcOrder(order) /\ done \in Nat /\ done < Length(order)
         /\ done + 1 \in 1 .. Length(order) /\ now \in 0 .. MaxTime
         /\ byte0 \in Pins /\ byte1 \in Pins /\ byte2 \in Pins
         /\ rtcBits \in 0 .. 8 + DateBits + TimeBits + ControlBits
         /\ rtcCommand \in Seq({0, 1}) /\ rtcData \in Seq({0, 1})
<1>1. done + 1 \in 1 .. Length(order)
  BY RtcLong DEF RtcNow
<1> QED  BY <1>1 DEF RtcNow, RtcTyped, rtcVars
LEMMA GoPlain ==
  ASSUME RtcNow, Go, AccessOf(order, done + 1).op # "poll",
         AccessOf(order, done + 1).commits = FALSE
  PROVE  /\ Do(AccessOf(order, done + 1)) /\ GoesOn /\ bank' = bank
         /\ expected' = expected /\ used' = used
<1>1. order.kind # "bank" /\ used \in BOOLEAN
  BY DEF RtcNow, RtcOrder
<1> QED  BY <1>1 DEF Go, GoesOn
LEMMA GoPins ==
  ASSUME RtcNow, Go, NEW v, AccessOf(order, done + 1) = Pins0(v)
  PROVE  rtcWritePins(v) /\ RtcKeeps /\ got' = got
<1>1. /\ AccessOf(order, done + 1).op = "pins" /\ AccessOf(order, done + 1).a = v
      /\ AccessOf(order, done + 1).commits = FALSE
  BY DEF Pins0, Access
<1>2. writeRtc("pins", v)
  BY <1>1, GoPlain DEF Do
<1> QED  BY <1>1, <1>2, GoPlain DEF writeRtc, RtcKeeps
LEMMA GoDirection ==
  ASSUME RtcNow, Go, NEW v, AccessOf(order, done + 1) = Direction(v)
  PROVE  rtcWriteDirection(v) /\ RtcKeeps /\ got' = got
<1>1. /\ AccessOf(order, done + 1).op = "direction" /\ AccessOf(order, done + 1).a = v
      /\ AccessOf(order, done + 1).commits = FALSE
  BY DEF Direction, Access
<1>2. writeRtc("direction", v)
  BY <1>1, GoPlain DEF Do
<1> QED  BY <1>1, <1>2, GoPlain DEF writeRtc, RtcKeeps
LEMMA GoEnables ==
  ASSUME RtcNow, Go, AccessOf(order, done + 1) = Access("enable", 1, 0, TRUE)
  PROVE  rtcWriteEnable(1) /\ RtcKeeps /\ got' = got
<1>1. /\ AccessOf(order, done + 1).op = "enable" /\ AccessOf(order, done + 1).a = 1
      /\ AccessOf(order, done + 1).commits = FALSE
  BY DEF Access
<1>2. writeRtc("enable", 1)
  BY <1>1, GoPlain DEF Do
<1> QED  BY <1>1, <1>2, GoPlain DEF writeRtc, RtcKeeps
LEMMA GoLooks ==
  ASSUME RtcNow, Go, AccessOf(order, done + 1) = Access("look", 0, 0, TRUE)
  PROVE  got' = Append(got, SIO(byte0)) /\ RtcKeeps /\ UNCHANGED rtcVars
<1>1. /\ AccessOf(order, done + 1).op = "look"
      /\ AccessOf(order, done + 1).commits = FALSE
  BY DEF Access
<1>2. readRtc
  BY <1>1, GoPlain DEF Do
<1> QED  BY <1>1, <1>2, GoPlain DEF readRtc, RtcKeeps

\* The pins that change without a bit going over.
LEMMA PinsSet ==
  ASSUME NEW v, rtcWritePins(v), byte2 = 1, rtcState # "IDLE" \/ v = 1,
         SCK(v) = 0 \/ SCK(byte0) = 1 \/ rtcState = "IDLE"
  PROVE  byte0' = v /\ UNCHANGED <<byte1, byte2, rtcState, rtcBits, rtcCommand, rtcData>>
<1>1. ~Begins(v)
  BY DEF Begins
<1>2. ~Rises(v) \/ rtcState = "IDLE"
  BY DEF Rises
<1>3. byte2 % 2 = 1
  OBVIOUS
<1> QED
  BY <1>1, <1>2, <1>3
  DEF rtcWritePins, rtcBegin, rtcTakeCommand, rtcHasCommand, rtcMoveData, rtcSetPins
LEMMA RtcTypesKept ==
  ASSUME RtcNow, byte0' \in Pins, byte1' \in Pins, byte2' \in Pins,
         UNCHANGED <<rtcBits, rtcCommand, rtcData>>
  PROVE  RtcTyped(rtcVars')
BY RtcIs DEF RtcTyped, rtcVars

\* Before a command and after it.
LEMMA RtcOpens ==
  ASSUME RtcNow, Go, RtcRests(rtcVars, order, done, got) PROVE RtcSteps
<1>1. Length(order) \in Nat /\ Length(order) >= 21 /\ done \in Nat /\ done < Length(order)
  BY RtcLong, RtcIs
<1>2. rtcState = "IDLE"
  BY DEF RtcRests, rtcVars
<1>3. CASE done = 0
  <2>1. byte0 \in {0, 1} /\ got = <<>>
    BY <1>1, <1>3 DEF RtcRests, rtcVars
  <2>2. AccessOf(order, done + 1) = Access("enable", 1, 0, TRUE)
    <3>1. 1 \in 1 .. Length(order)
      BY <1>1
    <3>2. AccessOf(order, 1) = Access("enable", 1, 0, TRUE)
      BY <3>1, RtcAccesses, RtcIs DEF Access
    <3> QED  BY <1>3, <3>2 DEF Access
  <2>3. rtcWriteEnable(1) /\ RtcKeeps /\ got' = got
    BY <2>2, GoEnables DEF Access
  <2>4. byte2' = 1 /\ UNCHANGED <<byte0, byte1, rtcState, rtcBits, rtcCommand, rtcData>>
    BY <2>3 DEF rtcWriteEnable
  <2>5. RtcTyped(rtcVars')
    BY <2>4, RtcIs, RtcTypesKept DEF Pins
  <2>6. RtcRests(rtcVars', order, done + 1, got')
    BY <1>2, <1>3, <2>1, <2>3, <2>4 DEF RtcRests, rtcVars
  <2> QED  BY <2>3, <2>5, <2>6, RtcNext DEF RtcPhase
<1>4. CASE done = 1 \/ done = Length(order) - 1
  <2>1. byte2 = 1 /\ (done = 1 => got = <<>>) /\ (done # 1 => RtcGot(order, got))
    BY <1>1, <1>4 DEF RtcRests, rtcVars
  <2>2. AccessOf(order, done + 1) = Pins0(1)
    <3>1. done + 1 = 2 \/ done + 1 = Length(order)
      BY <1>1, <1>4
    <3> QED  BY <3>1, RtcAccesses, RtcIs
  <2>3. rtcWritePins(1) /\ RtcKeeps /\ got' = got
    BY <2>2, GoPins
  <2>4. byte0' = 1 /\ UNCHANGED <<byte1, byte2, rtcState, rtcBits, rtcCommand, rtcData>>
    BY <1>2, <2>1, <2>3, PinsSet
  <2>5. RtcTyped(rtcVars')
    BY <2>4, RtcIs, RtcTypesKept DEF Pins
  <2>6. RtcRests(rtcVars', order, done + 1, got')
    <3>1. CASE done = 1
      BY <1>2, <2>1, <2>3, <2>4, <3>1 DEF RtcRests, rtcVars
    <3>2. CASE done = Length(order) - 1
      <4>1. done + 1 = Length(order) /\ done # 1
        BY <1>1, <3>2
      <4> QED  BY <1>2, <2>1, <2>3, <2>4, <4>1 DEF RtcRests, rtcVars
    <3> QED  BY <1>4, <3>1, <3>2
  <2> QED  BY <2>3, <2>5, <2>6, RtcNext DEF RtcPhase
<1>5. CASE done = 2
  <2>1. byte0 = 1 /\ byte2 = 1 /\ got = <<>>
    BY <1>1, <1>5 DEF RtcRests, rtcVars
  <2>2. AccessOf(order, done + 1) = Pins0(5)
    <3>1. done + 1 = 3
      BY <1>5
    <3> QED  BY <3>1, RtcAccesses, RtcIs
  <2>3. rtcWritePins(5) /\ RtcKeeps /\ got' = got
    BY <2>2, GoPins
  <2>4. rtcBegin(5)
    <3>1. Begins(5) /\ ~Rises(5) /\ byte2 % 2 # 0
      BY <1>2, <2>1 DEF Begins, Rises
    <3> QED
      BY <2>3, <3>1 DEF rtcWritePins, rtcTakeCommand, rtcHasCommand, rtcMoveData, rtcSetPins
  <2>5. /\ rtcState' = "COMMAND" /\ rtcBits' = 0 /\ rtcCommand' = <<>>
        /\ UNCHANGED <<byte0, byte1, byte2, rtcData>>
    BY <2>4 DEF rtcBegin
  <2>6. RtcTyped(rtcVars')
    BY <2>5, RtcIs, RtcNumbers DEF RtcTyped, rtcVars
  <2>7. TakesCommand(rtcVars', order, done + 1, got')
    BY <1>5, <2>1, <2>3, <2>5 DEF TakesCommand, rtcVars
  <2> QED  BY <2>3, <2>6, <2>7, RtcNext DEF RtcPhase
<1> QED
  <2>1. done = 0 \/ done = 1 \/ done = 2 \/ done = Length(order) - 1
    BY <1>1 DEF RtcRests
  <2> QED  BY <2>1, <1>3, <1>4, <1>5

\* The accesses of a bit.
LEMMA Halves ==
  ASSUME NEW m \in Nat, NEW d \in Nat, d >= m
  PROVE  \E k \in Nat : d = m + 2 * k \/ d = m + 2 * k + 1
<1> DEFINE k == (d - m) \div 2
<1>1. k \in Nat /\ (d = m + 2 * k \/ d = m + 2 * k + 1)
  OBVIOUS
<1> QED  BY <1>1
LEMMA OutIs ==
  ASSUME NEW bits, NEW k \in Nat
  PROVE  /\ Out(bits, 2 * k + 1) = Pins0(4 + 2 * bits[k + 1] + 0)
         /\ Out(bits, 2 * k + 2) = Pins0(4 + 2 * bits[k + 1] + 1)
<1>1. (2 * k + 1 + 1) \div 2 = k + 1 /\ (2 * k + 1) % 2 = 1
  OBVIOUS
<1>2. (2 * k + 2 + 1) \div 2 = k + 1 /\ (2 * k + 2) % 2 = 0
  OBVIOUS
<1> QED  BY <1>1, <1>2 DEF Out
LEMMA PinsOfBit ==
  ASSUME NEW b \in {0, 1}
  PROVE  /\ SCK(4 + 2 * b + 0) = 0 /\ SCK(4 + 2 * b + 1) = 1
         /\ SIO(4 + 2 * b + 1) = b
         /\ 4 + 2 * b + 0 \in Pins /\ 4 + 2 * b + 1 \in Pins
         /\ 4 + 2 * b + 0 # 1 /\ 4 + 2 * b + 1 # 1
<1>1. CASE b = 0
  BY <1>1 DEF SCK, SIO, Pins
<1>2. CASE b = 1
  BY <1>2 DEF SCK, SIO, Pins
<1> QED  BY <1>1, <1>2

\* What the clock answers.
LEMMA AnswerTypes ==
  ASSUME NEW o, Asks(o), NEW t \in 0 .. MaxTime
  PROVE  /\ Answer(o.cell, t) \in [1 .. AnswerBits(o.cell) -> {0, 1}]
         /\ Answer(o.cell, t) \in Seq({0, 1})
         /\ Len(Answer(o.cell, t)) = AnswerBits(o.cell)
         /\ AnswerBits(o.cell) \in Nat \ {0}
<1>1. AnswerBits(o.cell) \in Nat \ {0}
  BY RtcNumbers
<1>2. Answer(o.cell, t) \in [1 .. AnswerBits(o.cell) -> {0, 1}]
  <2>1. CASE o.cell = GetControl
    <3>1. Answer(o.cell, t) = Control /\ AnswerBits(o.cell) = ControlBits
      BY <2>1, CommandsDiffer DEF Answer, AnswerBits
    <3> QED  BY <3>1 DEF Control
  <2>2. CASE o.cell = GetDate
    <3>1. Answer(o.cell, t) = DateAt[t] /\ AnswerBits(o.cell) = DateBits
      BY <2>2, CommandsDiffer DEF Answer, AnswerBits
    <3> QED  BY <3>1, RtcAssumption
  <2>3. CASE o.cell = GetTime
    <3>1. Answer(o.cell, t) = TimeAt[t] /\ AnswerBits(o.cell) = TimeBits
      BY <2>3, CommandsDiffer DEF Answer, AnswerBits
    <3> QED  BY <3>1, RtcAssumption
  <2> QED  BY <2>1, <2>2, <2>3 DEF Asks
<1> QED  BY <1>1, <1>2

\* The command goes over.
LEMMA RtcTurnsIn ==
  ASSUME RtcNow, Go, TakesCommand(rtcVars, order, done, got), done = 3 PROVE RtcSteps
<1>1. /\ rtcState = "COMMAND" /\ byte2 = 1 /\ got = <<>> /\ byte0 = 1 /\ rtcBits = 0
      /\ rtcCommand = <<>>
  BY DEF TakesCommand, rtcVars
<1>2. AccessOf(order, done + 1) = Direction(7)
  <2>1. done + 1 = 4
    OBVIOUS
  <2> QED  BY <2>1, RtcAccesses, RtcIs
<1>3. rtcWriteDirection(7) /\ RtcKeeps /\ got' = got
  BY <1>2, GoDirection
<1>4. byte1' = 7 /\ UNCHANGED <<byte0, byte2, rtcState, rtcBits, rtcCommand, rtcData>>
  BY <1>3 DEF rtcWriteDirection
<1>5. RtcTyped(rtcVars')
  BY <1>4, RtcIs, RtcTypesKept DEF Pins
<1>6. Starts(rtcCommand', order.cell, 0)
  BY <1>1, <1>4, StartsEmpty
<1>7. TakesCommand(rtcVars', order, done + 1, got')
  <2>1. /\ done + 1 = 4 /\ 4 \in 4 .. 19 /\ (4 - 4) \div 2 = 0 /\ SCK(1) = 1 - (4 % 2)
    BY DEF SCK
  <2>2. /\ rtcState' = "COMMAND" /\ byte2' = 1 /\ got' = <<>> /\ byte1' = 7
        /\ byte0' = 1 /\ rtcBits' = 0
    BY <1>1, <1>3, <1>4
  <2>3. TakesCommand(rtcVars', order, 4, got')
    BY <1>6, <2>1, <2>2 DEF TakesCommand, rtcVars
  <2> QED  BY <2>1, <2>3
<1> QED  BY <1>3, <1>5, <1>7, RtcNext DEF RtcPhase
LEMMA RtcTakesLow ==
  ASSUME RtcNow, Go, TakesCommand(rtcVars, order, done, got), NEW k \in 0 .. 7,
         done = 4 + 2 * k
  PROVE  RtcSteps
<1>1. done \in 4 .. 19 /\ (done - 4) \div 2 = k /\ done % 2 = 0 /\ done # 3
  OBVIOUS
<1>2. /\ rtcState = "COMMAND" /\ byte2 = 1 /\ got = <<>> /\ byte1 = 7 /\ rtcBits = k
      /\ Starts(rtcCommand, order.cell, k)
  BY <1>1 DEF TakesCommand, rtcVars
<1> DEFINE b == order.cell[k + 1]
<1>3. b \in {0, 1}
  <2>1. order.cell \in [1 .. 8 -> {0, 1}]
    BY RtcLengths, RtcIs
  <2> QED  BY <2>1
<1>4. AccessOf(order, done + 1) = Pins0(4 + 2 * b + 0)
  <2>1. done + 1 \in 5 .. 20 /\ done + 1 - 4 = 2 * k + 1 /\ k \in Nat
    BY <1>1
  <2>2. AccessOf(order, done + 1) = Out(order.cell, 2 * k + 1)
    <3>1. RtcOrder(order) /\ chip = "RTC"
      BY RtcIs
    <3> QED  BY <2>1, <3>1, CommandAccess
  <2> QED  BY <2>1, <2>2, OutIs
<1>5. rtcWritePins(4 + 2 * b + 0) /\ RtcKeeps /\ got' = got
  BY <1>4, GoPins
<1> HIDE DEF b
<1>6. byte0' = 4 + 2 * b + 0
      /\ UNCHANGED <<byte1, byte2, rtcState, rtcBits, rtcCommand, rtcData>>
  BY <1>2, <1>3, <1>5, PinsOfBit, PinsSet
<1>7. SCK(byte0') = 0 /\ byte0' \in Pins
  BY <1>3, <1>6, PinsOfBit
<1>8. RtcTyped(rtcVars')
  BY <1>6, <1>7, RtcIs, RtcTypesKept
<1>9. TakesCommand(rtcVars', order, done + 1, got')
  <2>1. /\ done + 1 \in 4 .. 19 /\ (done + 1 - 4) \div 2 = k /\ 1 - ((done + 1) % 2) = 0
    BY <1>1
  <2> QED  BY <1>2, <1>5, <1>6, <1>7, <2>1 DEF TakesCommand, rtcVars
<1> QED  BY <1>5, <1>8, <1>9, RtcNext DEF RtcPhase
LEMMA RtcTakesHigh ==
  ASSUME RtcNow, Go, TakesCommand(rtcVars, order, done, got), NEW k \in 0 .. 7,
         done = 4 + 2 * k + 1
  PROVE  RtcSteps
<1>1. done \in 4 .. 19 /\ (done - 4) \div 2 = k /\ done % 2 = 1 /\ done # 3
  OBVIOUS
<1>2. /\ rtcState = "COMMAND" /\ byte2 = 1 /\ got = <<>> /\ byte1 = 7 /\ rtcBits = k
      /\ Starts(rtcCommand, order.cell, k) /\ SCK(byte0) = 0
  BY <1>1 DEF TakesCommand, rtcVars
<1> DEFINE b == order.cell[k + 1]
<1>0. order.cell \in [1 .. 8 -> {0, 1}]
  BY RtcLengths, RtcIs
<1>3. b \in {0, 1}
  BY <1>0
<1>4. AccessOf(order, done + 1) = Pins0(4 + 2 * b + 1)
  <2>1. done + 1 \in 5 .. 20 /\ done + 1 - 4 = 2 * k + 2 /\ k \in Nat
    BY <1>1
  <2>2. AccessOf(order, done + 1) = Out(order.cell, 2 * k + 2)
    <3>1. RtcOrder(order) /\ chip = "RTC"
      BY RtcIs
    <3> QED  BY <2>1, <3>1, CommandAccess
  <2> QED  BY <2>1, <2>2, OutIs
<1>5. rtcWritePins(4 + 2 * b + 1) /\ RtcKeeps /\ got' = got
  BY <1>4, GoPins
<1> DEFINE v == 4 + 2 * b + 1
<1>6. /\ SCK(v) = 1 /\ SIO(v) = b /\ v \in Pins /\ Rises(v)
  BY <1>2, <1>3, PinsOfBit DEF Rises, Begins
<1>7. Starts(Append(rtcCommand, b), order.cell, k + 1)
  BY <1>2, <1>3, StartsAppend
<1> HIDE DEF b, v
<1>8. CASE k < 7
  <2>1. rtcTakeCommand(v)
    <3>1. rtcWritePins(v)
      BY <1>5 DEF v
    <3> QED
      BY <1>2, <1>6, <1>8, <3>1
      DEF rtcWritePins, rtcBegin, rtcHasCommand, rtcMoveData, rtcSetPins, Rises
  <2>2. /\ byte0' = v /\ rtcBits' = k + 1 /\ rtcCommand' = Append(rtcCommand, b)
        /\ UNCHANGED <<byte1, byte2, rtcState, rtcData>>
    BY <1>2, <1>6, <2>1 DEF rtcTakeCommand
  <2>3. RtcTyped(rtcVars')
    <3>1. rtcCommand' \in Seq({0, 1})
      BY <1>7, <2>2 DEF Starts
    <3>2. rtcBits' \in 0 .. 8 + DateBits + TimeBits + ControlBits
      BY <1>8, <2>2, RtcNumbers
    <3> QED  BY <1>6, <2>2, <3>1, <3>2, RtcIs DEF RtcTyped, rtcVars
  <2>4. TakesCommand(rtcVars', order, done + 1, got')
    <3>1. /\ done + 1 \in 4 .. 19 /\ (done + 1 - 4) \div 2 = k + 1
          /\ 1 - ((done + 1) % 2) = 1
      BY <1>1, <1>8
    <3> QED  BY <1>2, <1>5, <1>6, <1>7, <2>2, <3>1 DEF TakesCommand, rtcVars
  <2> QED  BY <1>5, <2>3, <2>4, RtcNext DEF RtcPhase
<1>9. CASE k = 7
  <2>1. rtcHasCommand(v)
    <3>1. rtcWritePins(v)
      BY <1>5 DEF v
    <3> QED
      BY <1>2, <1>6, <1>9, <3>1
      DEF rtcWritePins, rtcBegin, rtcTakeCommand, rtcMoveData, rtcSetPins, Rises
  <2>2. Append(rtcCommand, b) = order.cell
    <3>1. Starts(Append(rtcCommand, b), order.cell, 8)
      BY <1>7, <1>9
    <3> QED  BY <1>0, <3>1, StartsWhole
  <2>3. /\ byte0' = v /\ rtcBits' = 0 /\ rtcCommand' = order.cell
        /\ UNCHANGED <<byte1, byte2>>
    BY <1>6, <2>1, <2>2 DEF rtcHasCommand
  <2>4. rtcCommand' \in Seq({0, 1})
    BY <1>7, <2>2, <2>3 DEF Starts
  <2>5. done + 1 = 20 /\ got' = <<>> /\ byte1' = 7 /\ byte2' = 1 /\ SCK(byte0') = 1
    BY <1>2, <1>5, <1>6, <1>9, <2>3
  <2>6. ASSUME rtcData' \in Seq({0, 1}) PROVE RtcTyped(rtcVars')
    <3>1. 0 \in 0 .. 8 + DateBits + TimeBits + ControlBits
      BY RtcNumbers
    <3> QED  BY <1>6, <2>3, <2>4, <2>6, <3>1, RtcIs DEF RtcTyped, rtcVars
  <2>7. CASE order.cell = Stop
    <3>1. ~Asks(order) /\ order.cell # SetControl /\ Length(order) = 21
      BY <2>7, RtcLengths, RtcIs
    <3>2. rtcState' = "IDLE" /\ rtcData' = rtcData
      BY <2>1, <2>3, <3>1 DEF rtcHasCommand, Asks
    <3>3. RtcRests(rtcVars', order, done + 1, got')
      BY <2>5, <3>1, <3>2 DEF RtcRests, rtcVars, RtcGot
    <3> QED  BY <1>5, <2>6, <3>2, <3>3, RtcNext, RtcIs DEF RtcPhase
  <2>8. CASE order.cell = SetControl
    <3>1. rtcState' = "READDATA" /\ rtcData' = Control
      BY <2>1, <2>3, <2>8, RtcLengths, RtcIs DEF rtcHasCommand, Asks
    <3>2. Control \in [1 .. ControlBits -> {0, 1}] /\ ControlBits \in Nat \ {0}
      BY RtcNumbers DEF Control
    <3>3. rtcData' \in Seq({0, 1}) /\ Len(rtcData') = ControlBits
      BY <3>1, <3>2
    <3>4. TakesControl(rtcVars', order, done + 1, got')
      <4>1. 20 \in 20 .. 19 + 2 * ControlBits /\ (20 - 20) \div 2 = 0 /\ 1 - (20 % 2) = 1
        BY <3>2
      <4>2. TakesControl(rtcVars', order, 20, got')
        BY <2>3, <2>5, <2>8, <3>1, <3>3, <4>1 DEF TakesControl, rtcVars
      <4> QED  BY <2>5, <4>2
    <3> QED  BY <1>5, <2>6, <3>3, <3>4, RtcNext DEF RtcPhase
  <2>9. CASE Asks(order)
    <3>1. rtcState' = "DATA" /\ rtcData' = Answer(order.cell, now)
      BY <2>1, <2>3, <2>9, CommandsDiffer DEF rtcHasCommand, Asks, Answer
    <3>2. Latched(order, rtcData')
      BY <3>1, RtcIs DEF Latched, RtcOrder
    <3>3. rtcData' \in Seq({0, 1})
      BY <2>9, <3>1, AnswerTypes, RtcIs
    <3>4. TurnsRound(rtcVars', order, done + 1, got')
      BY <2>3, <2>5, <2>9, <3>1, <3>2 DEF TurnsRound, rtcVars
    <3> QED  BY <1>5, <2>6, <3>3, <3>4, RtcNext DEF RtcPhase
  <2> QED  BY <2>7, <2>8, <2>9, RtcLengths, RtcIs
<1> QED  BY <1>8, <1>9
LEMMA RtcTakes ==
  ASSUME RtcNow, Go, TakesCommand(rtcVars, order, done, got) PROVE RtcSteps
<1>1. done = 3 \/ done \in 4 .. 19
  BY DEF TakesCommand
<1>2. CASE done = 3
  BY <1>2, RtcTurnsIn
<1>3. CASE done \in 4 .. 19
  <2>1. PICK k \in Nat : done = 4 + 2 * k \/ done = 4 + 2 * k + 1
    BY <1>3, Halves
  <2>2. k \in 0 .. 7
    BY <1>3, <2>1
  <2> QED  BY <2>1, <2>2, RtcTakesLow, RtcTakesHigh
<1> QED  BY <1>1, <1>2, <1>3

\* What the game sets goes over.
LEMMA ControlAccess ==
  ASSUME NEW o, RtcOrder(o), chip = "RTC", o.cell = SetControl,
         NEW i \in 21 .. 20 + 2 * ControlBits, NEW j, i - 20 = j
  PROVE  AccessOf(o, i) = Out(Control, j)
<1>1. Length(o) = 21 + 2 * ControlBits
  BY RtcLengths
<1>2. i \in 1 .. Length(o) /\ i > 20 /\ i < Length(o)
  BY <1>1, RtcNumbers
<1> QED  BY <1>2, RtcAccesses
LEMMA ControlIs ==
  /\ Control \in [1 .. ControlBits -> {0, 1}] /\ ControlBits \in Nat \ {0}
BY RtcNumbers DEF Control
LEMMA RtcControlLow ==
  ASSUME RtcNow, Go, TakesControl(rtcVars, order, done, got),
         NEW k \in 0 .. ControlBits - 1, done = 20 + 2 * k
  PROVE  RtcSteps
<1>0. ControlBits \in Nat \ {0} /\ Control \in [1 .. ControlBits -> {0, 1}]
  BY ControlIs
<1>1. /\ done \in 20 .. 19 + 2 * ControlBits /\ (done - 20) \div 2 = k /\ done % 2 = 0
      /\ k \in Nat
  BY <1>0
<1>2. /\ rtcState = "READDATA" /\ byte2 = 1 /\ got = <<>> /\ byte1 = 7 /\ rtcBits = k
      /\ Len(rtcData) = ControlBits /\ order.cell = SetControl
  BY <1>1 DEF TakesControl, rtcVars
<1> DEFINE b == Control[k + 1]
<1>3. b \in {0, 1}
  BY <1>0
<1>4. AccessOf(order, done + 1) = Pins0(4 + 2 * b + 0)
  <2>1. done + 1 \in 21 .. 20 + 2 * ControlBits /\ done + 1 - 20 = 2 * k + 1
    BY <1>0, <1>1
  <2>2. RtcOrder(order) /\ chip = "RTC"
    BY RtcIs
  <2>3. AccessOf(order, done + 1) = Out(Control, 2 * k + 1)
    BY <1>2, <2>1, <2>2, ControlAccess
  <2> QED  BY <1>1, <2>3, OutIs
<1>5. rtcWritePins(4 + 2 * b + 0) /\ RtcKeeps /\ got' = got
  BY <1>4, GoPins
<1> HIDE DEF b
<1>6. byte0' = 4 + 2 * b + 0
      /\ UNCHANGED <<byte1, byte2, rtcState, rtcBits, rtcCommand, rtcData>>
  BY <1>2, <1>3, <1>5, PinsOfBit, PinsSet
<1>7. SCK(byte0') = 0 /\ byte0' \in Pins
  BY <1>3, <1>6, PinsOfBit
<1>8. RtcTyped(rtcVars')
  BY <1>6, <1>7, RtcIs, RtcTypesKept
<1>9. TakesControl(rtcVars', order, done + 1, got')
  <2>1. /\ done + 1 \in 20 .. 19 + 2 * ControlBits /\ (done + 1 - 20) \div 2 = k
        /\ 1 - ((done + 1) % 2) = 0
    BY <1>0, <1>1
  <2> QED  BY <1>2, <1>5, <1>6, <1>7, <2>1 DEF TakesControl, rtcVars
<1> QED  BY <1>5, <1>8, <1>9, RtcNext DEF RtcPhase
LEMMA RtcControlHigh ==
  ASSUME RtcNow, Go, TakesControl(rtcVars, order, done, got),
         NEW k \in 0 .. ControlBits - 1, done = 20 + 2 * k + 1
  PROVE  RtcSteps
<1>0. ControlBits \in Nat \ {0} /\ Control \in [1 .. ControlBits -> {0, 1}]
  BY ControlIs
<1>1. /\ done \in 20 .. 19 + 2 * ControlBits /\ (done - 20) \div 2 = k /\ done % 2 = 1
      /\ k \in Nat
  BY <1>0
<1>2. /\ rtcState = "READDATA" /\ byte2 = 1 /\ got = <<>> /\ byte1 = 7 /\ rtcBits = k
      /\ Len(rtcData) = ControlBits /\ order.cell = SetControl /\ SCK(byte0) = 0
  BY <1>1 DEF TakesControl, rtcVars
<1> DEFINE b == Control[k + 1]
<1>3. b \in {0, 1}
  BY <1>0
<1>4. AccessOf(order, done + 1) = Pins0(4 + 2 * b + 1)
  <2>1. done + 1 \in 21 .. 20 + 2 * ControlBits /\ done + 1 - 20 = 2 * k + 2
    BY <1>0, <1>1
  <2>2. RtcOrder(order) /\ chip = "RTC"
    BY RtcIs
  <2>3. AccessOf(order, done + 1) = Out(Control, 2 * k + 2)
    BY <1>2, <2>1, <2>2, ControlAccess
  <2> QED  BY <1>1, <2>3, OutIs
<1> DEFINE v == 4 + 2 * b + 1
<1>5. rtcWritePins(v) /\ RtcKeeps /\ got' = got
  BY <1>4, GoPins
<1>6. /\ SCK(v) = 1 /\ SIO(v) = b /\ v \in Pins /\ Rises(v) /\ SIO(byte1) = 1
  <2>1. SIO(7) = 1
    BY DEF SIO
  <2> QED  BY <1>2, <1>3, <2>1, PinsOfBit DEF Rises, Begins
<1> HIDE DEF b, v
<1>7. rtcMoveData(v)
  BY <1>2, <1>5, <1>6
  DEF rtcWritePins, rtcBegin, rtcTakeCommand, rtcHasCommand, rtcSetPins, Rises
<1>8. /\ byte0' = v /\ rtcData' = [rtcData EXCEPT ![k + 1] = b]
      /\ UNCHANGED <<byte1, byte2, rtcCommand>>
  BY <1>2, <1>6, <1>7 DEF rtcMoveData
<1>9. rtcData' \in Seq({0, 1}) /\ Len(rtcData') = ControlBits
  <2>1. rtcData \in [1 .. ControlBits -> {0, 1}]
    BY <1>2, RtcIs
  <2>2. rtcData' \in [1 .. ControlBits -> {0, 1}]
    BY <1>3, <1>8, <2>1
  <2> QED  BY <1>0, <2>2
<1>10. IF k + 1 = ControlBits THEN rtcBits' = 0 /\ rtcState' = "IDLE"
         ELSE rtcBits' = k + 1 /\ rtcState' = "READDATA"
  BY <1>2, <1>7 DEF rtcMoveData
<1>11. rtcBits' \in 0 .. 8 + DateBits + TimeBits + ControlBits
  BY <1>0, <1>1, <1>10, RtcNumbers
<1>12. RtcTyped(rtcVars')
  BY <1>6, <1>8, <1>9, <1>11, RtcIs DEF RtcTyped, rtcVars
<1>13. CASE k + 1 = ControlBits
  <2>1. Length(order) = 21 + 2 * ControlBits /\ ~Asks(order)
    BY <1>2, RtcLengths, RtcIs
  <2>2. done + 1 = Length(order) - 1
    BY <1>0, <1>1, <1>13, <2>1
  <2>3. RtcRests(rtcVars', order, done + 1, got')
    BY <1>2, <1>5, <1>6, <1>8, <1>10, <1>13, <2>1, <2>2 DEF RtcRests, RtcGot, rtcVars
  <2> QED  BY <1>5, <1>12, <2>3, RtcNext DEF RtcPhase
<1>14. CASE k + 1 # ControlBits
  <2>1. /\ done + 1 \in 20 .. 19 + 2 * ControlBits /\ (done + 1 - 20) \div 2 = k + 1
        /\ 1 - ((done + 1) % 2) = 1
    BY <1>0, <1>1, <1>14
  <2>2. TakesControl(rtcVars', order, done + 1, got')
    BY <1>2, <1>5, <1>6, <1>8, <1>9, <1>10, <1>14, <2>1 DEF TakesControl, rtcVars
  <2> QED  BY <1>5, <1>12, <2>2, RtcNext DEF RtcPhase
<1> QED  BY <1>13, <1>14
LEMMA RtcControls ==
  ASSUME RtcNow, Go, TakesControl(rtcVars, order, done, got) PROVE RtcSteps
<1>1. /\ done \in 20 .. 19 + 2 * ControlBits /\ ControlBits \in Nat \ {0}
      /\ done \in Nat
  BY RtcNumbers, RtcIs DEF TakesControl
<1>4. done >= 20
  BY <1>1
<1>2. PICK k \in Nat : done = 20 + 2 * k \/ done = 20 + 2 * k + 1
  BY <1>1, <1>4, Halves
<1>3. k \in 0 .. ControlBits - 1
  BY <1>1, <1>2
<1> QED  BY <1>2, <1>3, RtcControlLow, RtcControlHigh

\* The game turns the direction of the pin, and looks at the answer.
LEMMA RtcTurnsOut ==
  ASSUME RtcNow, Go, TurnsRound(rtcVars, order, done, got) PROVE RtcSteps
<1>1. /\ Asks(order) /\ done = 20 /\ got = <<>> /\ rtcState = "DATA" /\ byte2 = 1
      /\ SCK(byte0) = 1 /\ rtcBits = 0 /\ Latched(order, rtcData)
  BY DEF TurnsRound, rtcVars
<1>2. AccessOf(order, done + 1) = Direction(5)
  <2>1. done + 1 = 21
    BY <1>1
  <2> QED  BY <1>1, <2>1, RtcAccesses, RtcIs
<1>3. rtcWriteDirection(5) /\ RtcKeeps /\ got' = got
  BY <1>2, GoDirection
<1>4. byte1' = 5 /\ UNCHANGED <<byte0, byte2, rtcState, rtcBits, rtcCommand, rtcData>>
  BY <1>3 DEF rtcWriteDirection
<1>5. RtcTyped(rtcVars')
  BY <1>4, RtcIs, RtcTypesKept DEF Pins
<1>6. AnswerBits(order.cell) \in Nat \ {0}
  BY <1>1, RtcNumbers
<1>7. Answers(rtcVars', order, done + 1, got')
  <2>1. /\ 21 \in 21 .. 20 + 3 * AnswerBits(order.cell)
        /\ 21 # 20 + 3 * AnswerBits(order.cell)
        /\ (21 - 21) \div 3 = 0 /\ (21 - 20) \div 3 = 0 /\ 21 % 3 # 1 /\ 21 % 3 # 2
    BY <1>6
  <2>2. Starts(got', rtcData', 0)
    BY <1>1, <1>3, StartsEmpty
  <2>3. Answers(rtcVars', order, 21, got')
    BY <1>1, <1>4, <2>1, <2>2 DEF Answers, rtcVars
  <2> QED  BY <1>1, <2>3
<1> QED  BY <1>3, <1>5, <1>7, RtcNext DEF RtcPhase

\* The accesses to the answer, three for each bit.
LEMMA Thirds ==
  ASSUME NEW m \in Nat, NEW d \in Nat, d >= m
  PROVE  \E k \in Nat : d = m + 3 * k \/ d = m + 3 * k + 1 \/ d = m + 3 * k + 2
<1> DEFINE k == (d - m) \div 3
<1>1. k \in Nat /\ (d = m + 3 * k \/ d = m + 3 * k + 1 \/ d = m + 3 * k + 2)
  OBVIOUS
<1> QED  BY <1>1
LEMMA InIs ==
  ASSUME NEW i \in Nat
  PROVE  /\ i % 3 = 1 => In(i) = Pins0(4 + 0)
         /\ i % 3 = 2 => In(i) = Pins0(4 + 1)
         /\ i % 3 = 0 => In(i) = Access("look", 0, 0, TRUE)
<1>1. ASSUME i % 3 = 1 PROVE In(i) = Pins0(4 + 0)
  BY <1>1 DEF In, Access
<1>2. ASSUME i % 3 = 2 PROVE In(i) = Pins0(4 + 1)
  BY <1>2 DEF In, Access
<1>3. ASSUME i % 3 = 0 PROVE In(i) = Access("look", 0, 0, TRUE)
  BY <1>3 DEF In, Access
<1> QED  BY <1>1, <1>2, <1>3 DEF Access
LEMMA AnswerAccess ==
  ASSUME NEW o, RtcOrder(o), chip = "RTC", Asks(o),
         NEW i \in 22 .. 21 + 3 * AnswerBits(o.cell), NEW j, i - 21 = j
  PROVE  AccessOf(o, i) = In(j)
<1>1. Length(o) = 22 + 3 * AnswerBits(o.cell) /\ AnswerBits(o.cell) \in Nat \ {0}
  BY RtcLengths, RtcNumbers
<1>2. i \in 1 .. Length(o) /\ i > 21 /\ i < Length(o)
  BY <1>1
<1> QED  BY <1>2, RtcAccesses
LEMMA LatchedTypes ==
  ASSUME NEW o, RtcOrder(o), chip = "RTC", Asks(o), NEW data, Latched(o, data),
         now \in 0 .. MaxTime
  PROVE  /\ data \in [1 .. AnswerBits(o.cell) -> {0, 1}]
         /\ Len(data) = AnswerBits(o.cell) /\ AnswerBits(o.cell) \in Nat \ {0}
<1>1. PICK t \in o.time .. now : data = Answer(o.cell, t)
  BY DEF Latched
<1>2. t \in 0 .. MaxTime
  BY <1>1, RtcAssumption DEF RtcOrder
<1> QED  BY <1>1, <1>2, AnswerTypes
LEMMA RtcAnswers ==
  ASSUME RtcNow, Answers(rtcVars, order, done, got)
  PROVE  /\ Asks(order) /\ byte1 = 5 /\ byte2 = 1 /\ Latched(order, rtcData)
         /\ AnswerBits(order.cell) \in Nat \ {0} /\ Len(rtcData) = AnswerBits(order.cell)
         /\ rtcData \in [1 .. AnswerBits(order.cell) -> {0, 1}]
         /\ RtcOrder(order) /\ chip = "RTC"
         /\ Length(order) = 22 + 3 * AnswerBits(order.cell)
         /\ done \in 21 .. 20 + 3 * AnswerBits(order.cell)
<1>1. /\ Asks(order) /\ byte1 = 5 /\ byte2 = 1 /\ Latched(order, rtcData)
      /\ done \in 21 .. 20 + 3 * AnswerBits(order.cell)
  BY DEF Answers, rtcVars
<1>2. /\ rtcData \in [1 .. AnswerBits(order.cell) -> {0, 1}]
      /\ Len(rtcData) = AnswerBits(order.cell) /\ AnswerBits(order.cell) \in Nat \ {0}
  BY <1>1, LatchedTypes, RtcIs
<1>3. Length(order) = 22 + 3 * AnswerBits(order.cell)
  BY <1>1, RtcLengths, RtcIs
<1> QED  BY <1>1, <1>2, <1>3, RtcIs
LEMMA RtcAsksLow ==
  ASSUME RtcNow, Go, Answers(rtcVars, order, done, got), NEW k \in Nat,
         done = 21 + 3 * k
  PROVE  RtcSteps
<1> DEFINE n == AnswerBits(order.cell)
<1>0. /\ Asks(order) /\ byte1 = 5 /\ byte2 = 1 /\ Latched(order, rtcData)
      /\ n \in Nat \ {0} /\ Len(rtcData) = n /\ rtcData \in [1 .. n -> {0, 1}]
      /\ RtcOrder(order) /\ chip = "RTC" /\ Length(order) = 22 + 3 * n
      /\ done \in 21 .. 20 + 3 * n
  BY RtcAnswers
<1> HIDE DEF n
<1>1. /\ k \in 0 .. n - 1 /\ (done - 20) \div 3 = k /\ (done - 21) \div 3 = k
      /\ done % 3 = 0 /\ done # 20 + 3 * n
  BY <1>0
<1>2. rtcState = "DATA" /\ rtcBits = k /\ Starts(got, rtcData, k) /\ SCK(byte0) = 1
  BY <1>1 DEF Answers, rtcVars, n
<1>3. AccessOf(order, done + 1) = Pins0(4 + 0)
  <2>1. /\ done + 1 \in 22 .. 21 + 3 * n /\ done + 1 - 21 = 3 * k + 1
        /\ 3 * k + 1 \in Nat /\ (3 * k + 1) % 3 = 1
    BY <1>0, <1>1
  <2>2. AccessOf(order, done + 1) = In(3 * k + 1)
    BY <1>0, <2>1, AnswerAccess DEF n
  <2> QED  BY <2>1, <2>2, InIs
<1>4. rtcWritePins(4 + 0) /\ RtcKeeps /\ got' = got
  BY <1>3, GoPins
<1>5. byte0' = 4 + 0
      /\ UNCHANGED <<byte1, byte2, rtcState, rtcBits, rtcCommand, rtcData>>
  <2>1. SCK(4 + 0) = 0
    BY DEF SCK
  <2> QED  BY <1>0, <1>2, <1>4, <2>1, PinsSet
<1>6. SCK(byte0') = 0 /\ byte0' \in Pins
  BY <1>5 DEF SCK, Pins
<1>7. RtcTyped(rtcVars')
  BY <1>5, <1>6, RtcIs, RtcTypesKept
<1>8. Answers(rtcVars', order, done + 1, got')
  <2>1. /\ done + 1 \in 21 .. 20 + 3 * n /\ (done + 1 - 20) \div 3 = k
        /\ (done + 1 - 21) \div 3 = k /\ (done + 1) % 3 = 1 /\ done + 1 # 20 + 3 * n
        /\ (done + 1) % 3 # 2
    BY <1>0, <1>1
  <2>2. /\ rtcState' = "DATA" /\ rtcBits' = k /\ Starts(got', rtcData', k)
        /\ byte1' = 5 /\ byte2' = 1 /\ Latched(order, rtcData')
    BY <1>0, <1>2, <1>4, <1>5
  <2> QED  BY <1>0, <1>6, <2>1, <2>2 DEF Answers, rtcVars, n
<1> QED  BY <1>4, <1>7, <1>8, RtcNext DEF RtcPhase
LEMMA RtcAsksHigh ==
  ASSUME RtcNow, Go, Answers(rtcVars, order, done, got), NEW k \in Nat,
         done = 21 + 3 * k + 1
  PROVE  RtcSteps
<1> DEFINE n == AnswerBits(order.cell)
<1>0. /\ Asks(order) /\ byte1 = 5 /\ byte2 = 1 /\ Latched(order, rtcData)
      /\ n \in Nat \ {0} /\ Len(rtcData) = n /\ rtcData \in [1 .. n -> {0, 1}]
      /\ RtcOrder(order) /\ chip = "RTC" /\ Length(order) = 22 + 3 * n
      /\ done \in 21 .. 20 + 3 * n
  BY RtcAnswers
<1> HIDE DEF n
<1>1. /\ k \in 0 .. n - 1 /\ (done - 20) \div 3 = k /\ (done - 21) \div 3 = k
      /\ done % 3 = 1 /\ done # 20 + 3 * n
  BY <1>0
<1>2. rtcState = "DATA" /\ rtcBits = k /\ Starts(got, rtcData, k) /\ SCK(byte0) = 0
  BY <1>1 DEF Answers, rtcVars, n
<1>3. AccessOf(order, done + 1) = Pins0(4 + 1)
  <2>1. /\ done + 1 \in 22 .. 21 + 3 * n /\ done + 1 - 21 = 3 * k + 2
        /\ 3 * k + 2 \in Nat /\ (3 * k + 2) % 3 = 2
    BY <1>0, <1>1
  <2>2. AccessOf(order, done + 1) = In(3 * k + 2)
    BY <1>0, <2>1, AnswerAccess DEF n
  <2> QED  BY <2>1, <2>2, InIs
<1>4. rtcWritePins(4 + 1) /\ RtcKeeps /\ got' = got
  BY <1>3, GoPins
<1> DEFINE v == 4 + 1
           b == rtcData[k + 1]
<1>5. SCK(v) = 1 /\ SIO(v) = 0 /\ SIO(byte1) = 0 /\ Rises(v) /\ b \in {0, 1}
  <2>1. SCK(v) = 1 /\ SIO(v) = 0 /\ SIO(5) = 0
    BY DEF SCK, SIO
  <2>2. b \in {0, 1}
    BY <1>0, <1>1
  <2> QED  BY <1>0, <1>2, <2>1, <2>2 DEF Rises, Begins
<1>6. rtcMoveData(v)
  <2>1. rtcWritePins(v)
    BY <1>4
  <2> HIDE DEF v
  <2> QED
    BY <1>0, <1>2, <1>5, <2>1
    DEF rtcWritePins, rtcBegin, rtcTakeCommand, rtcHasCommand, rtcSetPins, Rises
<1>7. /\ byte0' = v - 2 * SIO(v) + 2 * b /\ UNCHANGED <<byte1, byte2, rtcCommand, rtcData>>
      /\ IF k + 1 = n THEN rtcBits' = 0 /\ rtcState' = "IDLE"
           ELSE rtcBits' = k + 1 /\ rtcState' = "DATA"
  <2> HIDE DEF v
  <2> QED  BY <1>0, <1>2, <1>6 DEF rtcMoveData
<1>8. SCK(byte0') = 1 /\ SIO(byte0') = b /\ byte0' \in Pins
  <2>1. byte0' = 5 + 2 * b
    BY <1>5, <1>7
  <2>2. CASE b = 0
    BY <2>1, <2>2 DEF SCK, SIO, Pins
  <2>3. CASE b = 1
    BY <2>1, <2>3 DEF SCK, SIO, Pins
  <2> QED  BY <1>5, <2>2, <2>3
<1>9. RtcTyped(rtcVars')
  <2>1. k + 1 \in 0 .. 8 + DateBits + TimeBits + ControlBits
    <3>1. n \in {DateBits, TimeBits, ControlBits}
      BY <1>0, RtcNumbers DEF n
    <3> QED  BY <1>0, <1>1, <3>1, RtcNumbers
  <2>2. rtcBits' \in 0 .. 8 + DateBits + TimeBits + ControlBits
    BY <1>7, <2>1, RtcNumbers
  <2> QED  BY <1>7, <1>8, <2>2, RtcIs DEF RtcTyped, rtcVars
<1>10. Answers(rtcVars', order, done + 1, got')
  <2>1. /\ done + 1 \in 21 .. 20 + 3 * n /\ (done + 1 - 20) \div 3 = k + 1
        /\ (done + 1 - 21) \div 3 = k /\ (done + 1) % 3 = 2
        /\ (done + 1 = 20 + 3 * n <=> k + 1 = n) /\ (done + 1) % 3 # 1
    BY <1>0, <1>1
  <2>2. /\ Starts(got', rtcData', k) /\ byte1' = 5 /\ byte2' = 1
        /\ Latched(order, rtcData')
    BY <1>0, <1>2, <1>4, <1>7
  <2>3. SIO(byte0') = rtcData'[k + 1]
    BY <1>7, <1>8
  <2> HIDE DEF b, v
  <2> QED  BY <1>0, <1>7, <1>8, <2>1, <2>2, <2>3 DEF Answers, rtcVars, n
<1> QED  BY <1>4, <1>9, <1>10, RtcNext DEF RtcPhase
LEMMA RtcLooks ==
  ASSUME RtcNow, Go, Answers(rtcVars, order, done, got), NEW k \in Nat,
         done = 21 + 3 * k + 2
  PROVE  RtcSteps
<1> DEFINE n == AnswerBits(order.cell)
<1>0. /\ Asks(order) /\ byte1 = 5 /\ byte2 = 1 /\ Latched(order, rtcData)
      /\ n \in Nat \ {0} /\ Len(rtcData) = n /\ rtcData \in [1 .. n -> {0, 1}]
      /\ RtcOrder(order) /\ chip = "RTC" /\ Length(order) = 22 + 3 * n
      /\ done \in 21 .. 20 + 3 * n
  BY RtcAnswers
<1> HIDE DEF n
<1>1. /\ k \in 0 .. n - 1 /\ (done - 20) \div 3 = k + 1 /\ (done - 21) \div 3 = k
      /\ done % 3 = 2 /\ (done = 20 + 3 * n <=> k + 1 = n)
  BY <1>0
<1>2. /\ Starts(got, rtcData, k) /\ SCK(byte0) = 1 /\ SIO(byte0) = rtcData[k + 1]
      /\ IF k + 1 = n THEN rtcState = "IDLE" ELSE rtcState = "DATA" /\ rtcBits = k + 1
  BY <1>1 DEF Answers, rtcVars, n
<1>3. AccessOf(order, done + 1) = Access("look", 0, 0, TRUE)
  <2>1. /\ done + 1 \in 22 .. 21 + 3 * n /\ done + 1 - 21 = 3 * k + 3
        /\ 3 * k + 3 \in Nat /\ (3 * k + 3) % 3 = 0
    BY <1>0, <1>1
  <2>2. AccessOf(order, done + 1) = In(3 * k + 3)
    BY <1>0, <2>1, AnswerAccess DEF n
  <2> QED  BY <2>1, <2>2, InIs DEF Access
<1>4. got' = Append(got, rtcData[k + 1]) /\ RtcKeeps /\ UNCHANGED rtcVars
  BY <1>2, <1>3, GoLooks DEF Access
<1>5. Starts(got', rtcData, k + 1)
  <2>1. rtcData[k + 1] \in {0, 1} /\ k \in Nat
    BY <1>0, <1>1
  <2> QED  BY <1>2, <1>4, <2>1, StartsAppend
<1>6. UNCHANGED <<byte0, byte1, byte2, rtcState, rtcBits, rtcCommand, rtcData>>
  BY <1>4 DEF rtcVars
<1>7. RtcTyped(rtcVars')
  BY <1>4 DEF RtcNow
<1>8. CASE k + 1 = n
  <2>1. got' = rtcData
    <3>1. Starts(got', rtcData, n)
      BY <1>5, <1>8
    <3> QED  BY <1>0, <3>1, StartsWhole
  <2>2. done + 1 = Length(order) - 1
    BY <1>0, <1>1, <1>8
  <2>3. RtcRests(rtcVars', order, done + 1, got')
    BY <1>0, <1>2, <1>6, <1>8, <2>1, <2>2 DEF RtcRests, RtcGot, rtcVars
  <2> QED  BY <1>4, <1>7, <2>3, RtcNext DEF RtcPhase
<1>9. CASE k + 1 # n
  <2>1. /\ done + 1 \in 21 .. 20 + 3 * n /\ (done + 1 - 20) \div 3 = k + 1
        /\ (done + 1 - 21) \div 3 = k + 1 /\ (done + 1) % 3 = 0
        /\ done + 1 # 20 + 3 * n /\ (done + 1) % 3 # 1 /\ (done + 1) % 3 # 2
    BY <1>0, <1>1, <1>9
  <2>2. /\ rtcState' = "DATA" /\ rtcBits' = k + 1 /\ Starts(got', rtcData', k + 1)
        /\ byte1' = 5 /\ byte2' = 1 /\ SCK(byte0') = 1 /\ Latched(order, rtcData')
    BY <1>0, <1>2, <1>5, <1>6, <1>9
  <2>3. Answers(rtcVars', order, done + 1, got')
    BY <1>0, <2>1, <2>2 DEF Answers, rtcVars, n
  <2> QED  BY <1>4, <1>7, <2>3, RtcNext DEF RtcPhase
<1> QED  BY <1>8, <1>9

\* Each access takes the clock and the game on together.
LEMMA RtcGo == ASSUME RtcNow, Go PROVE RtcSteps
<1>1. CASE Answers(rtcVars, order, done, got)
  <2>1. done \in Nat /\ done >= 21
    BY <1>1, RtcAnswers, RtcIs
  <2>2. PICK k \in Nat : \/ done = 21 + 3 * k \/ done = 21 + 3 * k + 1
                         \/ done = 21 + 3 * k + 2
    BY <2>1, Thirds
  <2> QED  BY <1>1, <2>2, RtcAsksLow, RtcAsksHigh, RtcLooks
<1>2. RtcPhase(rtcVars, order, done, got)
  BY DEF RtcNow
<1> QED
  BY <1>1, <1>2, RtcOpens, RtcTakes, RtcControls, RtcTurnsOut DEF RtcPhase

----------------------------------------------------------------------------
(* Where the chip and the game are is kept                                    *)

LEMMA ChipIsOne ==
  ASSUME chip \in Chips
  PROVE  /\ chip \in EEPROMs \/ chip \in Flashes \/ chip = "SRAM" \/ chip = "RTC"
         /\ chip \in EEPROMs => chip \notin Flashes /\ chip # "SRAM" /\ chip # "RTC"
         /\ chip \in Flashes => chip \notin EEPROMs /\ chip # "SRAM" /\ chip # "RTC"
         /\ chip = "SRAM" => chip \notin EEPROMs /\ chip \notin Flashes
         /\ chip = "RTC" => chip \notin EEPROMs /\ chip \notin Flashes
BY SavesAssumption DEF EEPROMs, Flashes

\* What depends on nothing but the chip stays.
LEMMA ChipStays ==
  ASSUME chip' = chip
  PROVE  /\ FlashBanks' = FlashBanks /\ AddressBits' = AddressBits
         /\ EEpromBlocks' = EEpromBlocks /\ AllCells' = AllCells /\ Values' = Values
         /\ Blank' = Blank /\ TypeOfChip' = TypeOfChip
BY DEF FlashBanks, AddressBits, EEpromBlocks, AllCells, Values, Blank, TypeOfChip
LEMMA FitsStays ==
  ASSUME chip' = chip, NEW m, Fits(m) PROVE Fits(m)'
BY ChipStays DEF Fits, InChip
LEMMA LengthStays ==
  ASSUME chip' = chip, NEW o
  PROVE  Length(o)' = Length(o) /\ DmaLength(o)' = DmaLength(o) /\ DmaBits(o)' = DmaBits(o)
<1>1. DmaLength(o)' = DmaLength(o)
  BY ChipStays DEF DmaLength
<1>2. Length(o)' = Length(o)
  BY <1>1 DEF Length
<1>3. DmaBits(o)' = DmaBits(o)
  BY <1>1, ChipStays DEF DmaBits, DmaBit
<1> QED  BY <1>1, <1>2, <1>3
Same5(s, t) == \A i \in 1 .. 5 : s[i] = t[i]
Same7(s, t) == \A i \in 1 .. 7 : s[i] = t[i]
LEMMA FlashStays ==
  ASSUME chip' = chip, NEW F, NEW F2, NEW t, NEW o, NEW d, NEW g, NEW b, NEW m,
         Same5(F2, F), FlashAt(F, t, o, d, g, b, m)
  PROVE  FlashAt(F2, t, o, d, g, b, m)'
<1>1. /\ FlashOrder(o)' <=> FlashOrder(o)
      /\ FlashStateAt(o, d)' = FlashStateAt(o, d)
      /\ FlashReadStateAt(o, d)' = FlashReadStateAt(o, d)
      /\ FlashGot(o, d, b, m)' = FlashGot(o, d, b, m)
  BY ChipStays, LengthStays DEF FlashOrder, FlashStateAt, FlashReadStateAt, FlashGot, Erasing
<1>2. /\ F2[1] = F[1] /\ F2[2] = F[2] /\ F2[3] = F[3] /\ F2[4] = F[4] /\ F2[5] = F[5]
  BY DEF Same5, Same7
<1> QED  BY <1>1, <1>2, ChipStays, LengthStays DEF FlashAt
LEMMA SramStays ==
  ASSUME chip' = chip, NEW F, NEW F2, NEW t, NEW o, NEW d, NEW g, NEW b, NEW m,
         Same5(F2, F), SramAt(F, t, o, d, g, b, m)
  PROVE  SramAt(F2, t, o, d, g, b, m)'
<1>2. /\ F2[1] = F[1] /\ F2[2] = F[2] /\ F2[3] = F[3] /\ F2[4] = F[4] /\ F2[5] = F[5]
  BY DEF Same5, Same7
<1> QED  BY <1>2 DEF SramAt
LEMMA EEpromStays ==
  ASSUME chip' = chip, NEW E, NEW E2, NEW o, NEW d, NEW g, NEW m,
         Same7(E2, E), EEpromAt(E, o, d, g, m)
  PROVE  EEpromAt(E2, o, d, g, m)'
<1>1. EEpromOrder(o)' <=> EEpromOrder(o)
  BY ChipStays DEF EEpromOrder
<1>2. /\ E2[1] = E[1] /\ E2[2] = E[2] /\ E2[3] = E[3] /\ E2[4] = E[4] /\ E2[5] = E[5]
      /\ E2[6] = E[6] /\ E2[7] = E[7]
  BY DEF Same5, Same7
<1>3. /\ Idles(E, o, d, g, m) => Idles(E2, o, d, g, m)'
      /\ TakesAddress(E, o, d, g) => TakesAddress(E2, o, d, g)'
      /\ TakesData(E, o, d, g) => TakesData(E2, o, d, g)'
      /\ GivesDummies(E, o, d, g) => GivesDummies(E2, o, d, g)'
      /\ GivesData(E, o, d, g, m) => GivesData(E2, o, d, g, m)'
  BY <1>2, ChipStays, LengthStays
  DEF Idles, TakesAddress, TakesData, GivesDummies, GivesData
<1> QED  BY <1>1, <1>2, <1>3 DEF EEpromAt
LEMMA RtcStays ==
  ASSUME chip' = chip, NEW R, NEW R2, NEW o, NEW d, NEW g,
         Same7(R2, R), RtcAt(R, o, d, g),
         now \in Nat, now' \in Nat, now <= now'
  PROVE  RtcAt(R2, o, d, g)'
<1>1. RtcOrder(o) => RtcOrder(o)'
  BY DEF RtcOrder
<1>2. /\ R2[1] = R[1] /\ R2[2] = R[2] /\ R2[3] = R[3] /\ R2[4] = R[4] /\ R2[5] = R[5]
      /\ R2[6] = R[6] /\ R2[7] = R[7]
  BY DEF Same5, Same7
<1>3. ASSUME NEW data, RtcOrder(o), Latched(o, data) PROVE Latched(o, data)'
  <2>1. PICK s \in o.time .. now : data = Answer(o.cell, s)
    BY <1>3 DEF Latched
  <2>2. s \in o.time .. now'
    BY <1>3, <2>1 DEF RtcOrder
  <2> QED  BY <2>1, <2>2 DEF Latched
<1>4. ASSUME RtcOrder(o), RtcRests(R, o, d, g) PROVE RtcRests(R2, o, d, g)'
  BY <1>2, <1>3, <1>4, LengthStays DEF RtcRests, RtcGot
<1>5. ASSUME RtcOrder(o) PROVE
      /\ TakesCommand(R, o, d, g) => TakesCommand(R2, o, d, g)'
      /\ TakesControl(R, o, d, g) => TakesControl(R2, o, d, g)'
      /\ TurnsRound(R, o, d, g) => TurnsRound(R2, o, d, g)'
      /\ Answers(R, o, d, g) => Answers(R2, o, d, g)'
  BY <1>2, <1>3, <1>5 DEF TakesCommand, TakesControl, TurnsRound, Answers
<1>6. RtcTyped(R2)
  BY <1>2 DEF RtcTyped, RtcAt
<1> QED  BY <1>1, <1>2, <1>4, <1>5, <1>6 DEF RtcAt, RtcTyped
LEMMA NoneStays ==
  ASSUME chip' = chip, NEW F, NEW F2, NEW E, NEW E2, NEW R, NEW R2,
         Same5(F2, F), Same7(E2, E),
         Same7(R2, R)
  PROVE  /\ NoFlash(F) => NoFlash(F2)'
         /\ NoEEprom(E) => NoEEprom(E2)'
         /\ NoRtc(R) => NoRtc(R2)'
BY ChipStays DEF NoFlash, NoEEprom, NoRtc, Same5, Same7
LEMMA InStepStays ==
  ASSUME chip \in Chips, chip' = chip, now \in Nat, now' \in Nat, now <= now',
         NEW F, NEW F2, NEW E, NEW E2, NEW R, NEW R2, NEW t, NEW G, NEW G2,
         Same5(F2, F), Same7(E2, E),
         Same7(R2, R), Same5(G2, G),
         InStep(F, E, R, t, G)
  PROVE  InStep(F2, E2, R2, t, G2)'
<1>1. /\ G2[1] = G[1] /\ G2[2] = G[2] /\ G2[3] = G[3] /\ G2[4] = G[4] /\ G2[5] = G[5]
  BY DEF Same5, Same7
<1>2. Fits(G2[5])'
  BY <1>1, FitsStays DEF InStep
<1>3. /\ NoFlash(F) => NoFlash(F2)'
      /\ NoEEprom(E) => NoEEprom(E2)'
      /\ NoRtc(R) => NoRtc(R2)'
  BY NoneStays
<1>4. CASE chip \in Flashes
  <2>1. FlashAt(F, t, G[1], G[2], G[3], G[4], G[5]) /\ NoEEprom(E) /\ NoRtc(R)
    BY <1>4 DEF InStep
  <2>2. FlashAt(F2, t, G[1], G[2], G[3], G[4], G[5])'
    BY <2>1, FlashStays
  <2> QED  BY <1>1, <1>2, <1>3, <1>4, <2>1, <2>2, ChipIsOne DEF InStep
<1>5. CASE chip = "SRAM"
  <2>1. SramAt(F, t, G[1], G[2], G[3], G[4], G[5]) /\ NoEEprom(E) /\ NoRtc(R)
    BY <1>5 DEF InStep
  <2>2. SramAt(F2, t, G[1], G[2], G[3], G[4], G[5])'
    BY <2>1, SramStays
  <2> QED  BY <1>1, <1>2, <1>3, <1>5, <2>1, <2>2, ChipIsOne DEF InStep
<1>6. CASE chip \in EEPROMs
  <2>1. EEpromAt(E, G[1], G[2], G[3], G[5]) /\ NoFlash(F) /\ NoRtc(R) /\ t = 0 /\ G[4] = 0
    BY <1>6 DEF InStep
  <2>2. EEpromAt(E2, G[1], G[2], G[3], G[5])'
    BY <2>1, EEpromStays
  <2> QED  BY <1>1, <1>2, <1>3, <1>6, <2>1, <2>2, ChipIsOne DEF InStep
<1>7. CASE chip = "RTC"
  <2>1. /\ RtcAt(R, G[1], G[2], G[3]) /\ NoFlash(F) /\ NoEEprom(E) /\ t = 0 /\ G[4] = 0
        /\ G[5] = Blank
    BY <1>7 DEF InStep
  <2>2. RtcAt(R2, G[1], G[2], G[3])'
    BY <2>1, RtcStays
  <2> QED  BY <1>1, <1>2, <1>3, <1>7, <2>1, <2>2, ChipIsOne, ChipStays DEF InStep
<1> QED  BY <1>4, <1>5, <1>6, <1>7, ChipIsOne

----------------------------------------------------------------------------
(* Every step keeps the invariant                                             *)

\* What the invariant says of the chip that is there.
LEMMA InvParts ==
  ASSUME Inv
  PROVE  /\ Common
         /\ chip \in Chips /\ now \in 0 .. MaxTime /\ now \in Nat /\ Fits(expected)
         /\ cpuSaveGameFunc = FuncOfType(saveType) /\ flashDeviceID = FlashBanks
         /\ used \in BOOLEAN
         /\ chip \in Flashes =>
              /\ FlashAt(flashSaveGame, saveType, order, done, got, bank, expected)
              /\ NoEEprom(eepromVars) /\ NoRtc(rtcVars)
         /\ chip = "SRAM" =>
              /\ SramAt(flashSaveGame, saveType, order, done, got, bank, expected)
              /\ NoEEprom(eepromVars) /\ NoRtc(rtcVars)
         /\ chip \in EEPROMs =>
              /\ EEpromAt(eepromVars, order, done, got, expected)
              /\ NoFlash(flashSaveGame) /\ NoRtc(rtcVars) /\ saveType = 0 /\ bank = 0
         /\ chip = "RTC" =>
              /\ RtcAt(rtcVars, order, done, got) /\ NoFlash(flashSaveGame)
              /\ NoEEprom(eepromVars) /\ saveType = 0 /\ bank = 0 /\ expected = Blank
<1>1. Common /\ chip \in Chips /\ now \in 0 .. MaxTime /\ now \in Nat
  BY RtcAssumption DEF Inv, Common
<1>2. InStep(flashSaveGame, eepromVars, rtcVars, saveType, gameVars)
  BY DEF Inv, eepromSaveGame, rtcSaveGame
<1>3. /\ gameVars[1] = order /\ gameVars[2] = done /\ gameVars[3] = got
      /\ gameVars[4] = bank /\ gameVars[5] = expected
  BY DEF gameVars
<1>4. /\ cpuSaveGameFunc = FuncOfType(saveType) /\ flashDeviceID = FlashBanks
      /\ used \in BOOLEAN
  BY <1>1 DEF Common
<1>5. Fits(expected)
  BY <1>2, <1>3 DEF InStep
<1>6. chip \in Flashes =>
        /\ FlashAt(flashSaveGame, saveType, order, done, got, bank, expected)
        /\ NoEEprom(eepromVars) /\ NoRtc(rtcVars)
  BY <1>2, <1>3 DEF InStep
<1>7. chip = "SRAM" =>
        /\ SramAt(flashSaveGame, saveType, order, done, got, bank, expected)
        /\ NoEEprom(eepromVars) /\ NoRtc(rtcVars)
  BY <1>2, <1>3 DEF InStep
<1>8. chip \in EEPROMs =>
        /\ EEpromAt(eepromVars, order, done, got, expected)
        /\ NoFlash(flashSaveGame) /\ NoRtc(rtcVars) /\ saveType = 0 /\ bank = 0
  BY <1>2, <1>3 DEF InStep
<1>9. chip = "RTC" =>
        /\ RtcAt(rtcVars, order, done, got) /\ NoFlash(flashSaveGame)
        /\ NoEEprom(eepromVars) /\ saveType = 0 /\ bank = 0 /\ expected = Blank
  BY <1>2, <1>3 DEF InStep
<1> QED  BY <1>1, <1>4, <1>5, <1>6, <1>7, <1>8, <1>9

\* And what it has to say of it after a step.
LEMMA InStepAfter ==
  ASSUME chip \in Chips, chip' = chip, Fits(expected)',
         chip \in Flashes =>
              /\ FlashAt(flashSaveGame, saveType, order, done, got, bank, expected)'
              /\ NoEEprom(eepromVars)' /\ NoRtc(rtcVars)',
         chip = "SRAM" =>
              /\ SramAt(flashSaveGame, saveType, order, done, got, bank, expected)'
              /\ NoEEprom(eepromVars)' /\ NoRtc(rtcVars)',
         chip \in EEPROMs =>
              /\ EEpromAt(eepromVars, order, done, got, expected)'
              /\ NoFlash(flashSaveGame)' /\ NoRtc(rtcVars)' /\ saveType' = 0 /\ bank' = 0,
         chip = "RTC" =>
              /\ RtcAt(rtcVars, order, done, got)' /\ NoFlash(flashSaveGame)'
              /\ NoEEprom(eepromVars)' /\ saveType' = 0 /\ bank' = 0
              /\ expected' = Blank'
  PROVE  InStep(flashSaveGame, eepromSaveGame, rtcSaveGame, saveType, gameVars)'
<1>1. /\ gameVars'[1] = order' /\ gameVars'[2] = done' /\ gameVars'[3] = got'
      /\ gameVars'[4] = bank' /\ gameVars'[5] = expected'
  BY DEF gameVars
<1>2. InStep(flashSaveGame, eepromVars, rtcVars, saveType, gameVars)'
  BY <1>1 DEF InStep
<1> QED  BY <1>2 DEF eepromSaveGame, rtcSaveGame

\* The saved state stays what it is.
LEMMA StateStays ==
  ASSUME Inv, chip' = chip, now' \in Nat, now <= now', state' = state, state # <<>>
  PROVE  InStep(state[1], state[2], state[3], state[4], state[5])'
<1>1. InStep(state[1], state[2], state[3], state[4], state[5])
  BY DEF Inv
<1>2. /\ Same5(state[1], state[1]) /\ Same7(state[2], state[2])
      /\ Same7(state[3], state[3]) /\ Same5(state[5], state[5])
  BY DEF Same5, Same7
<1>3. chip \in Chips /\ now \in Nat
  BY InvParts
<1> QED  BY <1>1, <1>2, <1>3, InStepStays

\* What is there of the chips, and the battery file, stay.
LEMMA FileStays ==
  ASSUME Inv, UNCHANGED <<chip, file, saved>> PROVE FileFits'
<1>1. Fits(saved)'
  <2>1. Fits(saved)
    BY DEF Inv, Common, FileFits
  <2> QED  BY <2>1, FitsStays
<1> QED  BY <1>1, ChipStays DEF Inv, Common, FileFits
LEMMA NoneKept ==
  ASSUME chip' = chip
  PROVE  /\ NoFlash(flashSaveGame) /\ UNCHANGED flashVars => NoFlash(flashSaveGame)'
         /\ NoEEprom(eepromVars) /\ UNCHANGED eepromVars => NoEEprom(eepromVars)'
         /\ NoRtc(rtcVars) /\ UNCHANGED rtcVars => NoRtc(rtcVars)'
BY ChipStays DEF NoFlash, NoEEprom, NoRtc, flashSaveGame, flashVars

\* No access without an order.
LEMMA GoOrder ==
  ASSUME Inv, Go
  PROVE  /\ order # NoOrder /\ done # Length(order)
         /\ chip \in Flashes => FlashNow
         /\ chip = "SRAM" => SramNow
         /\ chip \in EEPROMs => EEpromNow
         /\ chip = "RTC" => RtcNow
<1>1. done # Length(order)
  BY DEF Go, Finished
<1>2. order = NoOrder => Length(order) = 0 /\ order.kind = "none"
  BY DEF NoOrder, Length
<1>3. ASSUME chip \in Flashes PROVE FlashNow /\ order # NoOrder
  <2>1. FlashAt(flashSaveGame, saveType, order, done, got, bank, expected)
    BY <1>3, InvParts
  <2>2. order # NoOrder /\ FlashOrder(order) /\ done \in 0 .. Length(order)
    BY <1>1, <1>2, <2>1 DEF FlashAt
  <2>3. Length(order) \in {1, 4, 5, 7}
    BY <1>3, <2>2, FlashLengths DEF FlashOrder, Erasing
  <2>4. done \in Nat
    BY <2>2, <2>3
  <2> QED  BY <1>1, <1>3, <2>1, <2>2, <2>4, InvParts DEF FlashNow
<1>4. ASSUME chip = "SRAM" PROVE SramNow /\ order # NoOrder
  <2>1. SramAt(flashSaveGame, saveType, order, done, got, bank, expected)
    BY <1>4, InvParts
  <2>2. order # NoOrder
    BY <1>1, <1>2, <2>1 DEF SramAt
  <2> QED  BY <1>1, <1>4, <2>1, <2>2, InvParts DEF SramNow
<1>5. ASSUME chip \in EEPROMs PROVE EEpromNow /\ order # NoOrder
  <2>1. EEpromAt(eepromVars, order, done, got, expected)
    BY <1>5, InvParts
  <2>2. order # NoOrder /\ EEpromOrder(order)
    <3>1. order # NoOrder
      BY <1>1, <1>2, <2>1 DEF EEpromAt, EEpromOrder
    <3>2. EEpromOrder(order)
      BY <2>1, <3>1 DEF EEpromAt
    <3> QED  BY <3>1, <3>2
  <2>3. DmaLength(order) \in Nat /\ AddressBits \in Nat /\ Dummies \in Nat /\ DataBits \in Nat
    BY <2>2, DmaLengths, EEpromNumbers DEF Dummies
  <2>4. Length(order) \in Nat
    <3>1. Length(order) = DmaLength(order)
                            + (IF order.kind = "write" THEN 0 ELSE Dummies + DataBits)
      BY <1>5, <2>2 DEF Length, EEPROMs, Flashes, EEpromOrder
    <3> QED  BY <2>3, <3>1
  <2>5. done \in Nat
    <3>1. \/ Idles(eepromVars, order, done, got, expected)
          \/ TakesAddress(eepromVars, order, done, got)
          \/ TakesData(eepromVars, order, done, got)
          \/ GivesDummies(eepromVars, order, done, got)
          \/ GivesData(eepromVars, order, done, got, expected)
      BY <2>1, <2>2 DEF EEpromAt
    <3>2. CASE Idles(eepromVars, order, done, got, expected)
      BY <2>4, <3>2 DEF Idles
    <3>3. CASE TakesAddress(eepromVars, order, done, got)
      BY <2>3, <3>3 DEF TakesAddress
    <3>4. CASE TakesData(eepromVars, order, done, got)
      BY <2>3, <3>4 DEF TakesData
    <3>5. CASE GivesDummies(eepromVars, order, done, got)
      BY <2>3, <3>5 DEF GivesDummies
    <3>6. CASE GivesData(eepromVars, order, done, got, expected)
      BY <2>3, <3>6 DEF GivesData
    <3> QED  BY <3>1, <3>2, <3>3, <3>4, <3>5, <3>6
  <2> QED  BY <1>1, <1>5, <2>1, <2>2, <2>5, InvParts DEF EEpromNow
<1>6. ASSUME chip = "RTC" PROVE RtcNow /\ order # NoOrder
  <2>1. RtcAt(rtcVars, order, done, got)
    BY <1>6, InvParts
  <2>2. order # NoOrder /\ RtcOrder(order) /\ RtcTyped(rtcVars)
        /\ RtcPhase(rtcVars, order, done, got)
    <3>1. order # NoOrder
      BY <1>1, <1>2, <2>1 DEF RtcAt, RtcOrder
    <3>2. /\ RtcOrder(order) /\ RtcTyped(rtcVars)
          /\ RtcPhase(rtcVars, order, done, got)
      BY <2>1, <3>1 DEF RtcAt, RtcPhase
    <3> QED  BY <3>1, <3>2
  <2>3. Length(order) \in Nat /\ Length(order) >= 21
    BY <1>6, <2>2, RtcLong
  <2>4. done \in Nat /\ done < Length(order)
    <3>1. CASE RtcRests(rtcVars, order, done, got)
      <4>1. \/ done = 0 \/ done = 1 \/ done = 2 \/ done = Length(order) - 1
            \/ done = Length(order)
        BY <3>1 DEF RtcRests
      <4> QED  BY <1>1, <2>3, <4>1
    <3>2. CASE TakesCommand(rtcVars, order, done, got)
      BY <2>3, <3>2 DEF TakesCommand
    <3>3. CASE TakesControl(rtcVars, order, done, got)
      <4>1. done \in 20 .. 19 + 2 * ControlBits /\ ControlBits \in Nat
            /\ Length(order) = 21 + 2 * ControlBits
        BY <1>6, <2>2, <3>3, RtcLengths, RtcNumbers DEF TakesControl
      <4> QED  BY <4>1
    <3>4. CASE TurnsRound(rtcVars, order, done, got)
      BY <2>3, <3>4 DEF TurnsRound
    <3>5. CASE Answers(rtcVars, order, done, got)
      <4>1. /\ done \in 21 .. 20 + 3 * AnswerBits(order.cell)
            /\ AnswerBits(order.cell) \in Nat
            /\ Length(order) = 22 + 3 * AnswerBits(order.cell)
        BY <1>6, <2>2, <3>5, RtcLengths, RtcNumbers DEF Answers
      <4> QED  BY <4>1
    <3> QED  BY <2>2, <3>1, <3>2, <3>3, <3>4, <3>5 DEF RtcPhase
  <2> QED  BY <1>6, <2>2, <2>4, InvParts DEF RtcNow
<1>7. chip \in Chips
  BY InvParts
<1> QED  BY <1>1, <1>3, <1>4, <1>5, <1>6, <1>7, ChipIsOne

\* An access of the game.
LEMMA GoKeeps == ASSUME Inv, Go PROVE Inv'
<1>0. chip \in Chips /\ used \in BOOLEAN /\ Common /\ now \in Nat
  BY InvParts
<1>1. /\ UNCHANGED <<chip, now, cpuSaveType, file, state, saved>>
      /\ gbaSaveType' = gbaSaveType
      /\ flashDeviceID' = flashDeviceID /\ cpuSaveGameFunc' = FuncOfType(saveType')
      /\ systemSaveUpdateCounter' \in {systemSaveUpdateCounter, SYSTEM_SAVE_UPDATED}
      /\ used' \in BOOLEAN
      /\ eepromInUse => eepromInUse'
      /\ saveType # 0 => saveType' # 0
      /\ used' => used \/ saveType' # 0 \/ eepromInUse'
  <2>1. UNCHANGED <<chip, now, cpuSaveType, file, state, saved>>
    BY DEF Go
  <2>2. used' \in BOOLEAN
    BY <1>0 DEF Go
  <2>3. CASE chip \in Flashes
    BY <2>1, <2>2, <2>3, GoOrder, FlashGo DEF FlashSteps, eepromVars
  <2>4. CASE chip = "SRAM"
    BY <2>1, <2>2, <2>4, GoOrder, SramGo DEF SramSteps, eepromVars
  <2>5. CASE chip \in EEPROMs
    BY <2>1, <2>2, <2>5, GoOrder, EEpromGo, InvParts DEF EEpromSteps, flashVars, typeVars
  <2>6. CASE chip = "RTC"
    BY <2>1, <2>2, <2>6, GoOrder, RtcGo, InvParts
    DEF RtcSteps, flashVars, typeVars, eepromVars
  <2> QED  BY <1>0, <2>3, <2>4, <2>5, <2>6, ChipIsOne
<1>2. InStep(flashSaveGame, eepromSaveGame, rtcSaveGame, saveType, gameVars)'
  <2>1. CASE chip \in Flashes
    <3>1. FlashSteps
      BY <2>1, GoOrder, FlashGo
    <3>2. NoEEprom(eepromVars)' /\ NoRtc(rtcVars)'
      BY <1>1, <2>1, <3>1, InvParts, NoneKept DEF FlashSteps
    <3>3. /\ FlashAt(flashSaveGame, saveType, order, done, got, bank, expected)'
          /\ Fits(expected)'
      BY <3>1 DEF FlashSteps
    <3> QED  BY <1>0, <1>1, <2>1, <3>2, <3>3, ChipIsOne, InStepAfter
  <2>2. CASE chip = "SRAM"
    <3>1. SramSteps
      BY <2>2, GoOrder, SramGo
    <3>2. NoEEprom(eepromVars)' /\ NoRtc(rtcVars)'
      BY <1>1, <2>2, <3>1, InvParts, NoneKept DEF SramSteps
    <3>3. /\ SramAt(flashSaveGame, saveType, order, done, got, bank, expected)'
          /\ Fits(expected)'
      BY <3>1 DEF SramSteps
    <3> QED  BY <1>0, <1>1, <2>2, <3>2, <3>3, ChipIsOne, InStepAfter
  <2>3. CASE chip \in EEPROMs
    <3>1. EEpromSteps
      BY <2>3, GoOrder, EEpromGo
    <3>2. NoFlash(flashSaveGame)' /\ NoRtc(rtcVars)'
      BY <1>1, <2>3, <3>1, InvParts, NoneKept DEF EEpromSteps
    <3>3. /\ EEpromAt(eepromVars, order, done, got, expected)'
          /\ Fits(expected)'
      BY <3>1 DEF EEpromSteps
    <3>4. saveType' = 0 /\ bank' = 0
      BY <2>3, <3>1, InvParts DEF EEpromSteps, typeVars
    <3> QED  BY <1>0, <1>1, <2>3, <3>2, <3>3, <3>4, ChipIsOne, InStepAfter
  <2>4. CASE chip = "RTC"
    <3>1. RtcSteps
      BY <2>4, GoOrder, RtcGo
    <3>2. NoFlash(flashSaveGame)' /\ NoEEprom(eepromVars)'
      BY <1>1, <2>4, <3>1, InvParts, NoneKept DEF RtcSteps
    <3>3. RtcAt(rtcVars, order, done, got)' /\ expected' = expected
      BY <3>1 DEF RtcSteps
    <3>4. saveType' = 0 /\ bank' = 0 /\ expected' = Blank'
      BY <1>1, <2>4, <3>1, InvParts, ChipStays DEF RtcSteps, typeVars
    <3>5. Fits(expected)'
      <4>1. Fits(expected)
        BY InvParts
      <4>2. AllCells' = AllCells /\ Values' = Values /\ Blank' = Blank
            /\ FlashBanks' = FlashBanks
        BY <1>1, ChipStays
      <4> QED  BY <1>1, <3>3, <4>1, <4>2 DEF Fits, InChip
    <3> QED  BY <1>0, <1>1, <2>4, <3>2, <3>3, <3>4, <3>5, ChipIsOne, InStepAfter
  <2> QED  BY <1>0, <2>1, <2>2, <2>3, <2>4, ChipIsOne
<1>3. (state # <<>> => InStep(state[1], state[2], state[3], state[4], state[5]))'
  BY <1>0, <1>1, StateStays
<1>4. FileFits'
  BY <1>1, FileStays
<1>5. Common'
  BY <1>0, <1>1, <1>4, ChipStays, SaveAssumption DEF Common, SaveTypeNow
<1> QED  BY <1>2, <1>3, <1>5 DEF Inv

\* When an order is over the EEPROM has given all it was asked for.
LEMMA EEpromEnds ==
  ASSUME Inv, Finished, chip \in EEPROMs, EEpromOrder(order)
  PROVE  Idles(eepromVars, order, done, got, expected)
<1>1. done = Length(order) /\ EEpromAt(eepromVars, order, done, got, expected)
  BY InvParts DEF Finished
<1>2. /\ DmaLength(order) \in Nat /\ AddressBits \in Nat /\ DataBits \in Nat
      /\ DataBits > 1 /\ DmaLength(order) > AddressBits + 2
  BY DmaLengths, EEpromNumbers
<1>3. Length(order) = DmaLength(order)
                        + (IF order.kind = "write" THEN 0 ELSE Dummies + DataBits)
  BY DEF Length, EEPROMs, Flashes, EEpromOrder
<1>4. ~TakesAddress(eepromVars, order, done, got)
  BY <1>1, <1>2, <1>3 DEF TakesAddress, Dummies
<1>5. ~TakesData(eepromVars, order, done, got)
  BY <1>1, <1>2, <1>3 DEF TakesData, Dummies
<1>6. ~GivesDummies(eepromVars, order, done, got)
  <2>1. ASSUME order.kind = "read",
               done \in DmaLength(order) .. DmaLength(order) + Dummies - 1
        PROVE  FALSE
    BY <1>1, <1>2, <1>3, <2>1 DEF Dummies
  <2> QED  BY <2>1 DEF GivesDummies
<1>7. ~GivesData(eepromVars, order, done, got, expected)
  <2>1. ASSUME order.kind = "read",
               done \in DmaLength(order) + Dummies
                          .. DmaLength(order) + Dummies + DataBits - 1
        PROVE  FALSE
    BY <1>1, <1>2, <1>3, <2>1 DEF Dummies
  <2> QED  BY <2>1 DEF GivesData
<1>8. order # NoOrder
  BY DEF EEpromOrder, NoOrder
<1> QED  BY <1>1, <1>4, <1>5, <1>6, <1>7, <1>8 DEF EEpromAt

\* And so has the clock.
LEMMA RtcEnds ==
  ASSUME Inv, Finished, chip = "RTC", RtcOrder(order)
  PROVE  RtcRests(rtcVars, order, done, got) /\ Length(order) \in Nat /\ Length(order) >= 21
<1>1. done = Length(order) /\ RtcAt(rtcVars, order, done, got)
  BY InvParts DEF Finished
<1>2. Length(order) \in Nat /\ Length(order) >= 21
  BY RtcLong
<1>3. order # NoOrder
  BY DEF RtcOrder, NoOrder
<1>4. ~TakesCommand(rtcVars, order, done, got)
  <2>1. done \in Nat /\ done >= 21
    BY <1>1, <1>2
  <2>2. done # 3 /\ done \notin 4 .. 19
    BY <2>1
  <2> QED  BY <2>2 DEF TakesCommand
<1>5. ~TakesControl(rtcVars, order, done, got)
  <2>1. order.cell = SetControl => Length(order) = 21 + 2 * ControlBits
    BY RtcLengths
  <2>2. done = Length(order)
    BY <1>1
  <2> QED  BY <2>1, <2>2, RtcNumbers DEF TakesControl
<1>6. ~TurnsRound(rtcVars, order, done, got)
  BY <1>1, <1>2 DEF TurnsRound
<1>7. ~Answers(rtcVars, order, done, got)
  <2>1. Asks(order) => /\ Length(order) = 22 + 3 * AnswerBits(order.cell)
                       /\ AnswerBits(order.cell) \in Nat
    BY RtcLengths, RtcNumbers
  <2>2. done = Length(order)
    BY <1>1
  <2> QED  BY <2>1, <2>2 DEF Answers
<1> QED  BY <1>1, <1>2, <1>3, <1>4, <1>5, <1>6, <1>7 DEF RtcAt

\* When an order is over the chip is at rest.
FlashRests == flashState = "READ_ARRAY" /\ flashReadState = "READ_ARRAY"
EEpromRested == eepromMode = "IDLE" /\ eepromBits \in 0 .. DataBits
RtcRested == rtcState = "IDLE" /\ byte0 \in {0, 1}
LEMMA AtRest ==
  ASSUME Inv, Finished
  PROVE  /\ chip \in Flashes => FlashRests
         /\ chip \in EEPROMs => EEpromRested
         /\ chip = "RTC" => RtcRested
<1>0. done = Length(order)
  BY DEF Finished
<1>1. ASSUME chip \in Flashes PROVE FlashRests
  <2>1. FlashAt(flashSaveGame, saveType, order, done, got, bank, expected)
    BY <1>1, InvParts
  <2>2. CASE order = NoOrder
    <3>1. ~FlashOrder(order)
      BY <2>2 DEF FlashOrder, NoOrder
    <3> QED  BY <2>1, <3>1 DEF FlashAt, FlashRests, flashSaveGame
  <2>3. CASE FlashOrder(order)
    <3>1. Length(order) \in {1, 4, 5, 7} /\ (Erasing(order) => Length(order) = 7)
          /\ (order.kind = "identify" => Length(order) = 5)
      BY <1>1, <2>3, FlashLengths DEF FlashOrder, Erasing
    <3>2. FlashStateAt(order, done) = "READ_ARRAY"
      BY <1>0, <3>1 DEF FlashStateAt
    <3>3. FlashReadStateAt(order, done) = "READ_ARRAY"
      BY <1>0, <3>1 DEF FlashReadStateAt
    <3>4. order # NoOrder
      BY <2>3 DEF FlashOrder, NoOrder
    <3> QED  BY <2>1, <3>2, <3>3, <3>4 DEF FlashAt, FlashRests, flashSaveGame
  <2> QED  BY <2>1, <2>2, <2>3 DEF FlashAt
<1>2. ASSUME chip \in EEPROMs PROVE EEpromRested
  <2>1. EEpromAt(eepromVars, order, done, got, expected)
    BY <1>2, InvParts
  <2>2. CASE ~EEpromOrder(order)
    BY <2>1, <2>2 DEF EEpromAt, EEpromRested, eepromVars
  <2>3. CASE EEpromOrder(order)
    BY <1>2, <2>3, EEpromEnds DEF Idles, EEpromRested, eepromVars
  <2> QED  BY <2>2, <2>3
<1>3. ASSUME chip = "RTC" PROVE RtcRested
  <2>1. RtcAt(rtcVars, order, done, got)
    BY <1>3, InvParts
  <2>2. CASE ~RtcOrder(order)
    BY <2>1, <2>2 DEF RtcAt, RtcRested, rtcVars
  <2>3. CASE RtcOrder(order)
    <3>1. /\ RtcRests(rtcVars, order, done, got)
          /\ Length(order) \in Nat /\ Length(order) >= 21
      BY <1>3, <2>3, RtcEnds
    <3> QED  BY <1>0, <3>1 DEF RtcRests, RtcRested, rtcVars
  <2> QED  BY <2>2, <2>3
<1> QED  BY <1>1, <1>2, <1>3

\* A new order.
LEMMA BeginKeeps == ASSUME Inv, Begin PROVE Inv'
<1>0. chip \in Chips /\ Common /\ now \in Nat /\ now \in 0 .. MaxTime
  BY InvParts
<1>1. /\ Finished /\ order' \in Orders /\ done' = 0 /\ got' = <<>>
      /\ UNCHANGED <<flashVars, eepromVars, rtcVars, now, systemSaveUpdateCounter, chip,
                     cpuSaveType, typeVars, file, state, bank, expected, saved, used>>
  BY DEF Begin
<1>2. /\ flashSaveGame' = flashSaveGame /\ UNCHANGED <<flashDeviceID, saveType,
             cpuSaveGameFunc, gbaSaveType, eepromInUse>>
  BY <1>1 DEF flashSaveGame, flashVars, typeVars, eepromVars
<1>3. Fits(expected)'
  BY <1>1, FitsStays, InvParts
<1>4. InStep(flashSaveGame, eepromSaveGame, rtcSaveGame, saveType, gameVars)'
  <2>1. CASE chip \in Flashes
    <3>1. NoEEprom(eepromVars)' /\ NoRtc(rtcVars)'
      BY <1>1, <2>1, InvParts, NoneKept
    <3>2. FlashOrder(order')
      BY <1>1, <2>1 DEF Orders, Order, FlashOrder, Flashes, EEPROMs
    <3>3. FlashOrder(order)' /\ FlashBanks' = FlashBanks /\ Length(order)' \in Nat
      <4>1. FlashOrder(order)' /\ FlashBanks' = FlashBanks
        BY <1>1, <3>2, ChipStays DEF FlashOrder
      <4>2. Length(order') \in {1, 4, 5, 7}
        BY <2>1, <3>2, FlashLengths DEF FlashOrder, Erasing
      <4>3. Length(order)' \in {1, 4, 5, 7}
        BY <1>1, <4>2 DEF Length, FlashScript, DmaLength, AddressBits
      <4> QED  BY <4>1, <4>3
    <3>4. FlashAt(flashSaveGame, saveType, order, done, got, bank, expected)
      BY <2>1, InvParts
    <3>5. /\ FlashStateAt(order, done)' = "READ_ARRAY"
          /\ FlashReadStateAt(order, done)' = "READ_ARRAY"
          /\ FlashGot(order, done, bank, expected)' = <<>>
      BY <1>1 DEF FlashStateAt, FlashReadStateAt, FlashGot
    <3>6. flashSaveGame'[1] = "READ_ARRAY" /\ flashSaveGame'[2] = "READ_ARRAY"
      BY <1>1, <1>2, <2>1, AtRest DEF FlashRests, flashSaveGame
    <3>7. FlashAt(flashSaveGame, saveType, order, done, got, bank, expected)'
      BY <1>1, <1>2, <3>3, <3>4, <3>5, <3>6 DEF FlashAt
    <3> QED  BY <1>0, <1>1, <1>3, <2>1, <3>1, <3>7, ChipIsOne, InStepAfter
  <2>2. CASE chip = "SRAM"
    <3>1. NoEEprom(eepromVars)' /\ NoRtc(rtcVars)'
      BY <1>1, <2>2, InvParts, NoneKept
    <3>2. /\ order'.kind \in {"read", "write"} /\ order'.cell \in Cells \ {K5555}
          /\ order'.kind = "write" => order'.value \in Data
      <4>1. Orders = Order({"write"}, Cells \ {K5555}, Data)
                       \cup Order({"read"}, Cells \ {K5555}, {0})
        BY <1>0, <2>2, ChipIsOne DEF Orders
      <4>2. \/ order' \in Order({"write"}, Cells \ {K5555}, Data)
            \/ order' \in Order({"read"}, Cells \ {K5555}, {0})
        BY <1>1, <4>1
      <4> QED  BY <4>2 DEF Order
    <3>3. SramAt(flashSaveGame, saveType, order, done, got, bank, expected)
      BY <2>2, InvParts
    <3>4. SramAt(flashSaveGame, saveType, order, done, got, bank, expected)'
      BY <1>1, <1>2, <3>2, <3>3 DEF SramAt
    <3> QED  BY <1>0, <1>1, <1>3, <2>2, <3>1, <3>4, ChipIsOne, InStepAfter
  <2>3. CASE chip \in EEPROMs
    <3>1. NoFlash(flashSaveGame)' /\ NoRtc(rtcVars)' /\ saveType' = 0 /\ bank' = 0
      BY <1>1, <1>2, <2>3, InvParts, NoneKept
    <3>2. EEpromOrder(order')
      <4>1. Orders = Order({"write"}, EEpromBlocks, BlockData)
                       \cup Order({"read"}, EEpromBlocks, {Zeros})
        BY <1>0, <2>3, ChipIsOne DEF Orders
      <4>2. \/ order' \in Order({"write"}, EEpromBlocks, BlockData)
            \/ order' \in Order({"read"}, EEpromBlocks, {Zeros})
        BY <1>1, <4>1
      <4> QED  BY <4>2 DEF Order, EEpromOrder
    <3>3. EEpromOrder(order)'
      BY <1>1, <3>2, ChipStays DEF EEpromOrder
    <3>4. EEpromAt(eepromVars, order, done, got, expected)
      BY <2>3, InvParts
    <3>5. eepromVars' = eepromVars
      BY <1>1
    <3>6. eepromVars[1] = "IDLE" /\ eepromVars[2] \in 0 .. DataBits
      BY <1>1, <2>3, AtRest DEF EEpromRested, eepromVars
    <3>7. Idles(eepromVars, order, done, got, expected)'
      BY <1>1, <3>5, <3>6 DEF Idles
    <3>8. EEpromAt(eepromVars, order, done, got, expected)'
      BY <1>1, <3>3, <3>4, <3>5, <3>7 DEF EEpromAt
    <3> QED  BY <1>0, <1>1, <1>3, <2>3, <3>1, <3>8, ChipIsOne, InStepAfter
  <2>4. CASE chip = "RTC"
    <3>1. /\ NoFlash(flashSaveGame)' /\ NoEEprom(eepromVars)' /\ saveType' = 0 /\ bank' = 0
          /\ expected' = Blank'
      BY <1>1, <1>2, <2>4, InvParts, NoneKept, ChipStays
    <3>2. order'.kind = "command" /\ order'.cell \in RtcCommands /\ order'.time = now
      BY <1>1, <2>4 DEF Orders, Order, EEPROMs, Flashes
    <3>3. RtcOrder(order)'
      BY <1>0, <1>1, <3>2 DEF RtcOrder
    <3>4. RtcTyped(rtcVars)
      BY <2>4, InvParts DEF RtcAt
    <3>5. rtcVars' = rtcVars
      BY <1>1
    <3>6. rtcVars[4] = "IDLE" /\ rtcVars[1] \in {0, 1}
      BY <1>1, <2>4, AtRest DEF RtcRested, rtcVars
    <3>7. RtcRests(rtcVars, order, done, got)'
      BY <1>1, <3>5, <3>6 DEF RtcRests
    <3>8. RtcAt(rtcVars, order, done, got)'
      BY <3>3, <3>4, <3>5, <3>7 DEF RtcAt, RtcTyped
    <3> QED  BY <1>0, <1>1, <1>3, <2>4, <3>1, <3>8, ChipIsOne, InStepAfter
  <2> QED  BY <1>0, <2>1, <2>2, <2>3, <2>4, ChipIsOne
<1>5. (state # <<>> => InStep(state[1], state[2], state[3], state[4], state[5]))'
  BY <1>0, <1>1, StateStays
<1>6. FileFits'
  BY <1>1, FileStays
<1>7. Common'
  BY <1>0, <1>1, <1>2, <1>6, ChipStays DEF Common, SaveTypeNow
<1> QED  BY <1>4, <1>5, <1>7 DEF Inv

\* Where the chip and the game are is kept when neither does anything.
LEMMA InStepSame ==
  ASSUME Inv, chip' = chip, now' \in Nat, now <= now',
         UNCHANGED <<flashVars, eepromVars, rtcVars, saveType, gameVars>>
  PROVE  InStep(flashSaveGame, eepromSaveGame, rtcSaveGame, saveType, gameVars)'
<1>1. InStep(flashSaveGame, eepromSaveGame, rtcSaveGame, saveType, gameVars)
  BY DEF Inv
<1>2. /\ flashSaveGame' = flashSaveGame /\ eepromSaveGame' = eepromSaveGame
      /\ rtcSaveGame' = rtcSaveGame /\ gameVars' = gameVars /\ saveType' = saveType
  BY DEF flashSaveGame, flashVars, eepromSaveGame, rtcSaveGame
<1>3. /\ Same5(flashSaveGame', flashSaveGame) /\ Same7(eepromSaveGame', eepromSaveGame)
      /\ Same7(rtcSaveGame', rtcSaveGame) /\ Same5(gameVars', gameVars)
  BY <1>2 DEF Same5, Same7
<1>4. chip \in Chips /\ now \in Nat
  BY InvParts
<1> QED  BY <1>1, <1>2, <1>3, <1>4, InStepStays

\* The clock of the host runs.
LEMMA TickKeeps == ASSUME Inv, Tick PROVE Inv'
<1>0. chip \in Chips /\ Common /\ now \in Nat /\ now \in 0 .. MaxTime /\ MaxTime \in Nat
  BY InvParts, RtcAssumption
<1>1. /\ now < MaxTime /\ now' = now + 1
      /\ UNCHANGED <<flashVars, eepromVars, rtcVars, systemSaveUpdateCounter, chip,
                     cpuSaveType, typeVars, file, state, gameVars, saved, used>>
  BY DEF Tick
<1>2. /\ UNCHANGED <<flashDeviceID, saveType, cpuSaveGameFunc, gbaSaveType, eepromInUse>>
  BY <1>1 DEF flashVars, typeVars, eepromVars
<1>3. now' \in Nat /\ now <= now' /\ now' \in 0 .. MaxTime
  BY <1>0, <1>1
<1>4. InStep(flashSaveGame, eepromSaveGame, rtcSaveGame, saveType, gameVars)'
  BY <1>1, <1>2, <1>3, InStepSame
<1>5. (state # <<>> => InStep(state[1], state[2], state[3], state[4], state[5]))'
  BY <1>1, <1>3, StateStays
<1>6. FileFits'
  BY <1>1, FileStays
<1>7. Common'
  BY <1>0, <1>1, <1>2, <1>3, <1>6, ChipStays DEF Common, SaveTypeNow
<1> QED  BY <1>4, <1>5, <1>7 DEF Inv

\* The save type is that of the chip as soon as it is known.
LEMMA TypeIsOfChip ==
  ASSUME Inv
  PROVE  /\ SaveTypeNow \in {0, TypeOfChip}
         /\ SaveTypeNow = 3 => chip \in EEPROMs
         /\ SaveTypeNow = 2 => chip \in Flashes
         /\ SaveTypeNow = 1 => chip = "SRAM"
         /\ chip = "RTC" => SaveTypeNow = 0
         /\ eepromInUse \in BOOLEAN
         /\ eepromInUse => chip \in EEPROMs
         /\ saveType \in {0, 1, 2} /\ saveType \in {0, TypeOfChip}
<1>0. chip \in Chips /\ gbaSaveType \in {0, TypeOfChip}
  BY InvParts DEF Common
<1>1. CASE chip \in Flashes
  <2>1. TypeOfChip = 2
    BY <1>0, <1>1, ChipIsOne DEF TypeOfChip
  <2>2. saveType \in {0, 2} /\ eepromInUse = FALSE
    <3>1. saveType \in {0, 2}
      BY <1>1, InvParts DEF FlashAt
    <3>2. NoEEprom(eepromVars)
      BY <1>1, InvParts
    <3>3. eepromInUse = FALSE
      BY <3>2 DEF NoEEprom, eepromVars
    <3> QED  BY <3>1, <3>3
  <2>3. ~eepromInUse /\ eepromInUse \in BOOLEAN
    BY <2>2
  <2>4. SaveTypeNow = IF gbaSaveType # 0 THEN gbaSaveType ELSE saveType
    BY <2>3 DEF SaveTypeNow
  <2>5. SaveTypeNow \in {0, TypeOfChip} /\ saveType \in {0, TypeOfChip}
    BY <1>0, <2>1, <2>2, <2>4
  <2> QED  BY <1>0, <1>1, <2>1, <2>2, <2>3, <2>5, ChipIsOne
<1>2. CASE chip = "SRAM"
  <2>1. TypeOfChip = 1
    BY <1>0, <1>2, ChipIsOne DEF TypeOfChip
  <2>2. saveType \in {0, 1} /\ eepromInUse = FALSE
    <3>1. saveType \in {0, 1}
      BY <1>2, InvParts DEF SramAt
    <3>2. NoEEprom(eepromVars)
      BY <1>2, InvParts
    <3>3. eepromInUse = FALSE
      BY <3>2 DEF NoEEprom, eepromVars
    <3> QED  BY <3>1, <3>3
  <2>3. ~eepromInUse /\ eepromInUse \in BOOLEAN
    BY <2>2
  <2>4. SaveTypeNow = IF gbaSaveType # 0 THEN gbaSaveType ELSE saveType
    BY <2>3 DEF SaveTypeNow
  <2>5. SaveTypeNow \in {0, TypeOfChip} /\ saveType \in {0, TypeOfChip}
    BY <1>0, <2>1, <2>2, <2>4
  <2> QED  BY <1>0, <1>2, <2>1, <2>2, <2>3, <2>5, ChipIsOne
<1>3. CASE chip \in EEPROMs
  <2>1. TypeOfChip = 3
    BY <1>0, <1>3, ChipIsOne DEF TypeOfChip
  <2>2. saveType = 0 /\ eepromInUse \in BOOLEAN
    BY <1>3, InvParts DEF EEpromAt, eepromVars
  <2> QED  BY <1>0, <1>3, <2>1, <2>2, ChipIsOne DEF SaveTypeNow
<1>4. CASE chip = "RTC"
  <2>1. TypeOfChip = 0
    BY <1>0, <1>4, ChipIsOne DEF TypeOfChip
  <2>2. saveType = 0 /\ eepromInUse = FALSE
    <3>1. saveType = 0
      BY <1>4, InvParts
    <3>2. NoEEprom(eepromVars)
      BY <1>4, InvParts
    <3>3. eepromInUse = FALSE
      BY <3>2 DEF NoEEprom, eepromVars
    <3> QED  BY <3>1, <3>3
  <2>3. ~eepromInUse /\ eepromInUse \in BOOLEAN
    BY <2>2
  <2>4. SaveTypeNow = IF gbaSaveType # 0 THEN gbaSaveType ELSE saveType
    BY <2>3 DEF SaveTypeNow
  <2>5. SaveTypeNow \in {0, TypeOfChip} /\ saveType \in {0, TypeOfChip}
    BY <1>0, <2>1, <2>2, <2>4
  <2> QED  BY <1>0, <1>4, <2>1, <2>2, <2>3, <2>5, ChipIsOne
<1> QED  BY <1>0, <1>1, <1>2, <1>3, <1>4, ChipIsOne

\* The memory of the chip is what is expected.
LEMMA MemoryFits ==
  ASSUME Inv
  PROVE  /\ chip \in EEPROMs => eepromData = expected /\ eepromSize \in {SmallSize, LargeSize}
         /\ chip = "EEPROM512" => eepromSize = SmallSize
         /\ chip \in Flashes \cup {"SRAM"} =>
              flashSaveMemory = expected /\ flashSize = FlashBanks
         /\ Memory = expected
<1>0. chip \in Chips
  BY InvParts
<1>1. ASSUME chip \in EEPROMs
      PROVE  /\ eepromData = expected /\ eepromSize \in {SmallSize, LargeSize}
             /\ chip = "EEPROM512" => eepromSize = SmallSize
  <2>1. EEpromAt(eepromVars, order, done, got, expected)
    BY <1>1, InvParts
  <2>2. eepromVars[7] = eepromData /\ eepromVars[6] = eepromSize
    BY DEF eepromVars
  <2> QED  BY <2>1, <2>2 DEF EEpromAt
<1>2. /\ flashSaveGame[5] = flashSaveMemory /\ flashSaveGame[3] = flashSize
  BY DEF flashSaveGame
<1>3. ASSUME chip \in Flashes
      PROVE  flashSaveMemory = expected /\ flashSize = FlashBanks
  <2>1. FlashAt(flashSaveGame, saveType, order, done, got, bank, expected)
    BY <1>3, InvParts
  <2> QED  BY <1>2, <2>1 DEF FlashAt
<1>4. ASSUME chip = "SRAM"
      PROVE  flashSaveMemory = expected /\ flashSize = FlashBanks
  <2>1. SramAt(flashSaveGame, saveType, order, done, got, bank, expected)
    BY <1>4, InvParts
  <2>2. FlashBanks = 1
    BY <1>4 DEF FlashBanks
  <2> QED  BY <1>2, <2>1, <2>2 DEF SramAt
<1>5. ASSUME chip = "RTC" PROVE flashSaveMemory = expected
  <2>1. flashSaveMemory = [c \in Array |-> 0]
    BY <1>2, <1>5, InvParts DEF NoFlash
  <2>2. expected = [c \in Array |-> 0]
    BY <1>0, <1>5, InvParts, ChipIsOne DEF Blank
  <2> QED  BY <2>1, <2>2
<1>6. chip = "EEPROM512" => chip \in EEPROMs
  BY DEF EEPROMs
<1> QED  BY <1>0, <1>1, <1>3, <1>4, <1>5, <1>6, ChipIsOne DEF Memory

\* A part of a memory of the chip is one.
LEMMA PartFits ==
  ASSUME NEW m, NEW size, Fits(m), chip \in Chips PROVE Fits(Part(m, size))
<1>1. /\ m \in [AllCells -> Values]
      /\ \A c \in AllCells : ~InChip(c) => m[c] = Blank[c]
  BY DEF Fits
<1>2. \A c \in AllCells : Blank[c] \in Values
  <2>1. CASE chip \in EEPROMs
    <3>1. Zeros \in [1 .. DataBits -> Bit]
      BY DEF Zeros, Bit
    <3> QED  BY <2>1, <3>1 DEF Blank, AllCells, Values
  <2>2. CASE chip \notin EEPROMs
    <3>1. 0 \in Bytes
      BY DEF Bytes
    <3> QED  BY <2>2, <3>1 DEF Blank, AllCells, Values
  <2> QED  BY <2>1, <2>2
<1>3. Part(m, size) = [c \in AllCells |-> IF InFile(c, size) THEN m[c] ELSE Blank[c]]
  BY DEF Part
<1>4. \A c \in AllCells : Part(m, size)[c] \in {m[c], Blank[c]}
  BY <1>3
<1>5. Part(m, size) \in [AllCells -> Values]
  BY <1>1, <1>2, <1>3
<1> QED  BY <1>1, <1>4, <1>5 DEF Fits

\* A part as large as the chip is the whole of it.
LEMMA PartIsAll ==
  ASSUME NEW m, NEW size, Fits(m), chip \in Chips,
         chip = "EEPROM512" => size = SmallSize, chip = "EEPROM8K" => size = LargeSize,
         chip \notin EEPROMs => size = FlashBanks
  PROVE  Part(m, size) = m
<1>1. /\ m \in [AllCells -> Values]
      /\ \A c \in AllCells : ~InChip(c) => m[c] = Blank[c]
  BY DEF Fits
<1>2. \A c \in AllCells : ~InFile(c, size) => ~InChip(c)
  <2>1. CASE chip \in EEPROMs
    <3>1. CASE chip = "EEPROM512"
      <4>1. \A c : InFile(c, SmallSize) = (c \in SmallBlocks)
        BY DEF InFile, SmallSize, LargeSize
      <4>2. \A c : InChip(c) = (c \in SmallBlocks)
        BY <3>1 DEF InChip, EEPROMs
      <4> QED  BY <3>1, <4>1, <4>2
    <3>2. CASE chip = "EEPROM8K"
      <4>1. \A c : InFile(c, LargeSize)
        BY DEF InFile, SmallSize, LargeSize
      <4> QED  BY <3>2, <4>1
    <3> QED  BY <2>1, <3>1, <3>2 DEF EEPROMs
  <2>2. CASE chip \notin EEPROMs
    <3>1. size \in {1, 2}
      BY <2>2 DEF FlashBanks
    <3>2. \A c : InFile(c, size) = (c[1] < size)
      BY <3>1 DEF InFile, SmallSize, LargeSize
    <3>3. \A c : InChip(c) = (c[1] < FlashBanks)
      BY <2>2 DEF InChip, EEPROMs
    <3> QED  BY <2>2, <3>2, <3>3
  <2> QED  BY <2>1, <2>2
<1>3. \A c \in AllCells : (IF InFile(c, size) THEN m[c] ELSE Blank[c]) = m[c]
  BY <1>1, <1>2
<1>4. m = [c \in AllCells |-> m[c]]
  BY <1>1
<1> QED  BY <1>3, <1>4 DEF Part

\* The size that is written.
LEMMA SizeIs ==
  ASSUME Inv, SaveTypeNow # 0
  PROVE  SizeNow = IF chip \in EEPROMs THEN eepromSize ELSE FlashBanks
<1>0. chip \in Chips
  BY InvParts
<1>1. CASE SaveTypeNow = 3
  BY <1>1, TypeIsOfChip DEF SizeNow
<1>2. CASE SaveTypeNow = 2
  <2>1. SizeNow = flashSize
    BY <1>2 DEF SizeNow
  <2> QED  BY <1>0, <1>2, <2>1, TypeIsOfChip, MemoryFits, ChipIsOne
<1>3. CASE SaveTypeNow = 1
  <2>1. SizeNow = 1 /\ chip = "SRAM"
    BY <1>3, TypeIsOfChip DEF SizeNow
  <2> QED  BY <1>0, <2>1, ChipIsOne DEF FlashBanks
<1>4. SaveTypeNow \in {0, 1, 2, 3}
  BY TypeIsOfChip DEF TypeOfChip
<1> QED  BY <1>1, <1>2, <1>3, <1>4

\* Writing the battery file.
LEMMA FileWritten ==
  ASSUME Inv, chip' = chip, file' = FileNow, saved' = SavedNow
  PROVE  FileFits'
<1>0. chip \in Chips /\ FileFits /\ Fits(expected)
  BY InvParts DEF Common
<1>1. CASE SaveTypeNow = 0
  <2>1. file' = file /\ saved' = saved
    BY <1>1 DEF FileNow, SavedNow
  <2> QED  BY <2>1, FileStays
<1>2. CASE SaveTypeNow # 0
  <2>1. /\ saved' = Part(expected, SizeNow)
        /\ file' = [kind |-> IF SaveTypeNow = 3 THEN "eeprom" ELSE "flash",
                    size |-> SizeNow,
                    holds |-> Part(IF SaveTypeNow = 3 THEN eepromData ELSE flashSaveMemory,
                                   SizeNow)]
    BY <1>2 DEF FileNow, SavedNow
  <2>2. chip # "RTC"
    BY <1>2, TypeIsOfChip
  <2>3. (IF SaveTypeNow = 3 THEN eepromData ELSE flashSaveMemory) = expected
    <3>1. CASE SaveTypeNow = 3
      BY <3>1, TypeIsOfChip, MemoryFits
    <3>2. CASE SaveTypeNow # 3
      <4>1. SaveTypeNow \in {1, 2}
        BY <1>2, <3>2, TypeIsOfChip DEF TypeOfChip
      <4>2. chip \in Flashes \cup {"SRAM"}
        BY <4>1, TypeIsOfChip
      <4> QED  BY <3>2, <4>2, MemoryFits
    <3> QED  BY <3>1, <3>2
  <2>4. Fits(saved')
    BY <1>0, <2>1, PartFits
  <2>5. Fits(saved)'
    BY <2>4, ChipStays DEF Fits, InChip
  <2>6. /\ file'.kind = (IF chip \in EEPROMs THEN "eeprom" ELSE "flash")
        /\ file'.holds = saved' /\ file'.size = SizeNow
    <3>1. SaveTypeNow = 3 <=> chip \in EEPROMs
      <4>1. SaveTypeNow = TypeOfChip
        BY <1>2, TypeIsOfChip
      <4>2. chip \in EEPROMs => TypeOfChip = 3
        BY <1>0, ChipIsOne DEF TypeOfChip
      <4> QED  BY <4>1, <4>2, TypeIsOfChip
    <3> QED  BY <2>1, <2>3, <3>1
  <2>7. SizeNow \in IF chip \in EEPROMs THEN {SmallSize, LargeSize} ELSE {FlashBanks}
    BY <1>2, SizeIs, MemoryFits
  <2> QED  BY <2>2, <2>5, <2>6, <2>7, ChipStays DEF FileFits
<1> QED  BY <1>1, <1>2

\* A frame.
LEMMA FrameKeeps == ASSUME Inv, systemFrame PROVE Inv'
<1>0. chip \in Chips /\ Common /\ now \in Nat /\ now \in 0 .. MaxTime
  BY InvParts
<1>1. /\ UNCHANGED <<flashVars, eepromVars, rtcVars, now, chip, cpuSaveType, saveType,
                     cpuSaveGameFunc, state, gameVars, used>>
      /\ systemSaveUpdateCounter > 0
      /\ systemSaveUpdateCounter' = systemSaveUpdateCounter - 1
      /\ \/ CPUWriteBatteryFile \/ UNCHANGED <<gbaSaveType, file, saved>>
  BY DEF systemFrame, SYSTEM_SAVE_NOT_UPDATED
<1>2. /\ UNCHANGED <<flashDeviceID, eepromInUse>>
  BY <1>1 DEF flashVars, eepromVars
<1>3. systemSaveUpdateCounter' \in 0 .. SYSTEM_SAVE_UPDATED
  BY <1>0, <1>1, SaveAssumption DEF Common
<1>4. InStep(flashSaveGame, eepromSaveGame, rtcSaveGame, saveType, gameVars)'
  BY <1>0, <1>1, InStepSame
<1>5. (state # <<>> => InStep(state[1], state[2], state[3], state[4], state[5]))'
  BY <1>0, <1>1, StateStays
<1>6. FileFits'
  BY <1>1, FileStays, FileWritten DEF CPUWriteBatteryFile
<1>7. gbaSaveType' \in {gbaSaveType, SaveTypeNow}
  BY <1>1 DEF CPUWriteBatteryFile
<1>8. gbaSaveType' \in {0, TypeOfChip} /\ TypeOfChip' = TypeOfChip
  BY <1>0, <1>1, <1>7, TypeIsOfChip, ChipStays DEF Common
<1>9. used' \in BOOLEAN /\ (used' => SaveTypeNow' # 0)
  <2>1. used' = used /\ used \in BOOLEAN /\ (used => SaveTypeNow # 0)
    BY <1>0, <1>1 DEF Common
  <2>2. SaveTypeNow # 0 => SaveTypeNow' # 0
    BY <1>1, <1>2, <1>7 DEF SaveTypeNow
  <2> QED  BY <2>1, <2>2
<1>10. Common'
  BY <1>0, <1>1, <1>2, <1>3, <1>6, <1>8, <1>9, ChipStays DEF Common
<1> QED  BY <1>4, <1>5, <1>10 DEF Inv

\* After a reset the chip is at rest, and the game has not ordered anything.
LEMMA ResetInStep ==
  ASSUME chip \in Chips, chip' = chip, rtcReset, eepromReset, flashReset, GameAtReset,
         saveType' = 0, flashSize' = FlashBanks, Fits(expected)', eepromBuffer' \in Seq(Bit),
         chip \in EEPROMs =>
           eepromData' = expected' /\ flashSaveMemory' = [c \in Array |-> 0],
         chip \notin EEPROMs =>
           /\ eepromData' = [c \in Blocks |-> Zeros] /\ eepromBuffer' = <<>>
           /\ flashSaveMemory' = expected',
         chip = "RTC" => expected' = Blank
  PROVE  InStep(flashSaveGame, eepromSaveGame, rtcSaveGame, saveType, gameVars)'
<1>1. /\ flashSaveGame'[1] = "READ_ARRAY" /\ flashSaveGame'[2] = "READ_ARRAY"
      /\ flashSaveGame'[3] = FlashBanks' /\ flashSaveGame'[4] = 0
      /\ flashSaveGame'[5] = flashSaveMemory'
  BY ChipStays DEF flashSaveGame, flashReset, flashToArray
<1>2. /\ eepromVars'[1] = "IDLE" /\ eepromVars'[2] = 0 /\ eepromVars'[3] = eepromBuffer'
      /\ eepromVars'[4] = FirstBlock /\ eepromVars'[6] = SmallSize
      /\ eepromVars'[7] = eepromData'
  BY DEF eepromVars, eepromReset
<1>3. eepromVars'[5] = FALSE
  BY DEF eepromVars, eepromReset
<1>4. /\ rtcVars'[1] = 0 /\ rtcVars'[2] = 0 /\ rtcVars'[3] = 0 /\ rtcVars'[4] = "IDLE"
      /\ rtcVars'[5] = 0 /\ rtcVars'[6] = <<>> /\ rtcVars'[7] = <<>>
  BY DEF rtcVars, rtcReset
<1>5. order' = NoOrder /\ done' = 0 /\ got' = <<>> /\ bank' = 0
  BY DEF GameAtReset
<1>6. NoRtc(rtcVars)'
  BY <1>4 DEF NoRtc
<1>7. chip \notin EEPROMs => NoEEprom(eepromVars)'
  BY <1>2, <1>3 DEF NoEEprom
<1>8. chip \in Flashes =>
        FlashAt(flashSaveGame, saveType, order, done, got, bank, expected)'
  <2>1. 0 \in 0 .. FlashBanks' - 1
    BY DEF FlashBanks
  <2>2. chip \in Flashes => flashSaveMemory' = expected'
    BY ChipIsOne
  <2> QED  BY <1>1, <1>5, <2>1, <2>2 DEF FlashAt, NoOrder
<1>9. chip = "SRAM" =>
        SramAt(flashSaveGame, saveType, order, done, got, bank, expected)'
  <2>1. chip = "SRAM" => flashSaveMemory' = expected' /\ FlashBanks' = 1
    BY ChipIsOne, ChipStays DEF FlashBanks
  <2> QED  BY <1>1, <1>5, <2>1 DEF SramAt, NoOrder
<1>10. chip \in EEPROMs =>
         EEpromAt(eepromVars, order, done, got, expected)' /\ NoFlash(flashSaveGame)'
  <2>1. ASSUME chip \in EEPROMs PROVE EEpromAt(eepromVars, order, done, got, expected)'
    <3>1. 0 \in 0 .. DataBits
      BY EEpromAssumption
    <3>2. FirstBlock \in Blocks
      BY EEpromAssumption DEF FirstBlock, Blocks, Bit
    <3>3. FALSE \in BOOLEAN
      OBVIOUS
    <3> QED  BY <1>2, <1>3, <1>5, <2>1, <3>1, <3>2, <3>3 DEF EEpromAt, NoOrder
  <2>2. ASSUME chip \in EEPROMs PROVE NoFlash(flashSaveGame)'
    BY <1>1, <2>2 DEF NoFlash
  <2> QED  BY <2>1, <2>2
<1>11. chip = "RTC" => RtcAt(rtcVars, order, done, got)' /\ NoFlash(flashSaveGame)'
  <2>1. ASSUME chip = "RTC" PROVE RtcAt(rtcVars, order, done, got)'
    <3>1. 0 \in Pins /\ 0 \in 0 .. 8 + DateBits + TimeBits + ControlBits
      BY RtcAssumption DEF Pins
    <3>2. RtcTyped(rtcVars)'
      BY <1>4, <3>1 DEF RtcTyped
    <3> QED  BY <1>4, <1>5, <3>2 DEF RtcAt, NoOrder
  <2>2. ASSUME chip = "RTC" PROVE NoFlash(flashSaveGame)'
    <3>1. flashSaveMemory' = [c \in Array |-> 0]
      BY <2>2, ChipIsOne DEF Blank
    <3> QED  BY <1>1, <3>1 DEF NoFlash
  <2> QED  BY <2>1, <2>2
<1>12. chip = "RTC" => expected' = Blank'
  BY ChipStays
<1> QED  BY <1>5, <1>6, <1>7, <1>8, <1>9, <1>10, <1>11, <1>12, ChipIsOne, InStepAfter

\* The game finds out what chip there is at its first access.
LEMMA ResetFunc ==
  ASSUME Inv, SaveTypes \subseteq {0, 1} PROVE FuncAtReset = FuncOfType(0)
<1>1. cpuSaveType \in {0, 1}
  BY DEF Inv, Common
<1> QED  BY <1>1 DEF FuncAtReset, FuncOfType

\* A reset.
LEMMA ResetKeeps == ASSUME Inv, SaveTypes \subseteq {0, 1}, CPUReset PROVE Inv'
<1>0. chip \in Chips /\ Common /\ now \in Nat /\ now \in 0 .. MaxTime /\ Fits(expected)
  BY InvParts
<1>1. /\ gbaSaveType' = SaveTypeNow /\ saveType' = 0 /\ cpuSaveGameFunc' = FuncAtReset
      /\ rtcReset /\ eepromReset /\ flashReset /\ GameAtReset
      /\ systemSaveUpdateCounter' = 0
      /\ UNCHANGED <<flashSize, flashDeviceID, flashSaveMemory, eepromBuffer, eepromData,
                     now, chip, cpuSaveType, file, state, expected, saved, used>>
  BY DEF CPUReset, SYSTEM_SAVE_NOT_UPDATED
<1>2. Fits(expected)'
  BY <1>0, <1>1, FitsStays
<1>3. chip \in EEPROMs => /\ eepromData = expected /\ flashSaveMemory = [c \in Array |-> 0]
                          /\ flashSize = FlashBanks /\ eepromBuffer \in Seq(Bit)
  BY InvParts, MemoryFits DEF NoFlash, flashSaveGame, EEpromAt, eepromVars
<1>4. chip \notin EEPROMs =>
        /\ eepromData = [c \in Blocks |-> Zeros] /\ eepromBuffer = <<>>
        /\ flashSaveMemory = expected /\ flashSize = FlashBanks
  <2>1. ASSUME chip \notin EEPROMs PROVE NoEEprom(eepromVars)
    BY <1>0, <2>1, InvParts, ChipIsOne
  <2>2. ASSUME chip \notin EEPROMs PROVE flashSaveMemory = expected
    BY <2>2, MemoryFits DEF Memory
  <2>3. chip = "RTC" => flashSize = FlashBanks
    BY InvParts DEF NoFlash, flashSaveGame
  <2> QED  BY <1>0, <2>1, <2>2, <2>3, ChipIsOne, MemoryFits DEF NoEEprom, eepromVars
<1>5. chip = "RTC" => expected = Blank
  BY InvParts
<1>6. eepromBuffer \in Seq(Bit) /\ flashSize = FlashBanks
  <2>1. <<>> \in Seq(Bit)
    OBVIOUS
  <2>2. CASE chip \in EEPROMs
    BY <1>3, <2>2
  <2>3. CASE chip \notin EEPROMs
    BY <1>4, <2>1, <2>3
  <2> QED  BY <2>2, <2>3
<1>7. InStep(flashSaveGame, eepromSaveGame, rtcSaveGame, saveType, gameVars)'
  BY <1>0, <1>1, <1>2, <1>3, <1>4, <1>5, <1>6, ResetInStep
<1>8. (state # <<>> => InStep(state[1], state[2], state[3], state[4], state[5]))'
  BY <1>0, <1>1, StateStays
<1>9. FileFits'
  BY <1>1, FileStays
<1>10. cpuSaveGameFunc' = FuncOfType(saveType')
  BY <1>1, ResetFunc
<1>11. gbaSaveType' \in {0, TypeOfChip'} /\ used' \in BOOLEAN
  BY <1>0, <1>1, TypeIsOfChip, ChipStays DEF Common
<1>12. used' => SaveTypeNow' # 0
  <2>1. used' = used /\ (used => SaveTypeNow # 0)
    BY <1>0, <1>1 DEF Common
  <2>2. SaveTypeNow # 0 => SaveTypeNow' # 0
    BY <1>1 DEF SaveTypeNow
  <2> QED  BY <2>1, <2>2
<1>13. Common'
  BY <1>0, <1>1, <1>9, <1>10, <1>11, <1>12, ChipStays, SaveAssumption DEF Common
<1> QED  BY <1>7, <1>8, <1>13 DEF Inv

\* What the save type can be in a state.
LEMMA TypeInStep ==
  ASSUME chip \in Chips, NEW F, NEW E, NEW R, NEW t, NEW G, InStep(F, E, R, t, G)
  PROVE  /\ t \in {0, 1, 2} /\ t \in {0, TypeOfChip}
         /\ E[5] \in BOOLEAN /\ (E[5] => TypeOfChip = 3)
<1>1. CASE chip \in Flashes
  <2>1. TypeOfChip = 2
    BY <1>1, ChipIsOne DEF TypeOfChip
  <2>2. t \in {0, 2}
    BY <1>1 DEF InStep, FlashAt
  <2>3. E[5] = FALSE
    BY <1>1 DEF InStep, NoEEprom
  <2> QED  BY <2>1, <2>2, <2>3
<1>2. CASE chip = "SRAM"
  <2>1. TypeOfChip = 1
    BY <1>2, ChipIsOne DEF TypeOfChip
  <2>2. t \in {0, 1}
    BY <1>2 DEF InStep, SramAt
  <2>3. E[5] = FALSE
    BY <1>2 DEF InStep, NoEEprom
  <2> QED  BY <2>1, <2>2, <2>3
<1>3. CASE chip \in EEPROMs
  <2>1. TypeOfChip = 3
    BY <1>3, ChipIsOne DEF TypeOfChip
  <2>2. t = 0
    BY <1>3 DEF InStep
  <2>3. E[5] \in BOOLEAN
    BY <1>3 DEF InStep, EEpromAt
  <2> QED  BY <2>1, <2>2, <2>3
<1>4. CASE chip = "RTC"
  <2>1. TypeOfChip = 0
    BY <1>4, ChipIsOne DEF TypeOfChip
  <2>2. t = 0
    BY <1>4 DEF InStep
  <2>3. E[5] = FALSE
    BY <1>4 DEF InStep, NoEEprom
  <2> QED  BY <2>1, <2>2, <2>3
<1> QED  BY <1>1, <1>2, <1>3, <1>4, ChipIsOne

\* A state is saved.
LEMMA WriteStateKeeps == ASSUME Inv, CPUWriteState PROVE Inv'
<1>0. chip \in Chips /\ Common /\ now \in Nat /\ now \in 0 .. MaxTime
  BY InvParts
<1>1. /\ state' = <<flashSaveGame, eepromSaveGame, rtcSaveGame, saveType, gameVars>>
      /\ UNCHANGED <<flashVars, eepromVars, rtcVars, now, systemSaveUpdateCounter, chip,
                     cpuSaveType, typeVars, file, gameVars, saved, used>>
  BY DEF CPUWriteState
<1>2. /\ UNCHANGED <<flashDeviceID, saveType, cpuSaveGameFunc, gbaSaveType, eepromInUse>>
  BY <1>1 DEF flashVars, typeVars, eepromVars
<1>3. InStep(flashSaveGame, eepromSaveGame, rtcSaveGame, saveType, gameVars)'
  BY <1>0, <1>1, <1>2, InStepSame
<1>4. (state # <<>> => InStep(state[1], state[2], state[3], state[4], state[5]))'
  <2>1. /\ state'[1] = flashSaveGame /\ state'[2] = eepromSaveGame
        /\ state'[3] = rtcSaveGame /\ state'[4] = saveType /\ state'[5] = gameVars
    BY <1>1
  <2>2. InStep(flashSaveGame, eepromSaveGame, rtcSaveGame, saveType, gameVars)
    BY DEF Inv
  <2>3. /\ Same5(state'[1], flashSaveGame) /\ Same7(state'[2], eepromSaveGame)
        /\ Same7(state'[3], rtcSaveGame) /\ Same5(state'[5], gameVars)
    BY <2>1 DEF Same5, Same7
  <2> QED  BY <1>0, <1>1, <2>1, <2>2, <2>3, InStepStays
<1>5. FileFits'
  BY <1>1, FileStays
<1>6. Common'
  BY <1>0, <1>1, <1>2, <1>5, ChipStays DEF Common, SaveTypeNow
<1> QED  BY <1>3, <1>4, <1>6 DEF Inv

\* A state is loaded.
LEMMA ReadStateKeeps == ASSUME Inv, CPUReadState PROVE Inv'
<1>0. chip \in Chips /\ Common /\ now \in Nat /\ now \in 0 .. MaxTime
  BY InvParts
<1>1. /\ state # <<>>
      /\ flashReadGame(state[1]) /\ eepromReadGame(state[2]) /\ rtcReadGame(state[3])
      /\ saveType' = state[4] /\ GameAtState(state[5])
      /\ systemSaveUpdateCounter' = 0
      /\ UNCHANGED <<now, chip, cpuSaveType, file, state, saved>>
  BY DEF CPUReadState, SYSTEM_SAVE_NOT_UPDATED
<1>2. /\ cpuSaveGameFunc' = CASE saveType' = 0 -> "flashSaveDecide"
                              [] saveType' = 1 -> "sramWrite"
                              [] saveType' = 2 -> "flashWrite"
      /\ gbaSaveType' = IF eepromInUse' THEN 3 ELSE saveType'
  BY DEF CPUReadState
<1>3. used' = (gbaSaveType' # 0)
  BY DEF CPUReadState
<1>4. InStep(state[1], state[2], state[3], state[4], state[5])
  BY <1>1 DEF Inv
<1>5. /\ Same5(flashSaveGame', state[1]) /\ Same7(eepromSaveGame', state[2])
      /\ Same7(rtcSaveGame', state[3]) /\ Same5(gameVars', state[5])
  <2>1. Same5(flashSaveGame', state[1]) /\ flashDeviceID' = flashDeviceID
    BY <1>1 DEF Same5, flashReadGame, flashSaveGame
  <2>2. Same7(eepromSaveGame', state[2])
    BY <1>1 DEF Same7, eepromReadGame, eepromSaveGame, eepromVars
  <2>3. Same7(rtcSaveGame', state[3])
    BY <1>1 DEF Same7, rtcReadGame, rtcSaveGame, rtcVars
  <2>4. Same5(gameVars', state[5])
    BY <1>1 DEF Same5, GameAtState, gameVars
  <2> QED  BY <2>1, <2>2, <2>3, <2>4
<1>6. InStep(flashSaveGame, eepromSaveGame, rtcSaveGame, saveType, gameVars)'
  BY <1>0, <1>1, <1>4, <1>5, InStepStays
<1>7. (state # <<>> => InStep(state[1], state[2], state[3], state[4], state[5]))'
  BY <1>0, <1>1, StateStays
<1>8. FileFits'
  BY <1>1, FileStays
<1>9. saveType' \in {0, 1, 2} /\ saveType' \in {0, TypeOfChip}
  BY <1>0, <1>1, <1>4, TypeInStep
<1>10. eepromInUse' \in BOOLEAN /\ (eepromInUse' => TypeOfChip = 3)
  <2>1. eepromInUse' = state[2][5]
    BY <1>1 DEF eepromReadGame
  <2> QED  BY <1>0, <1>4, <2>1, TypeInStep
<1>11. cpuSaveGameFunc' = FuncOfType(saveType')
  BY <1>2 DEF FuncOfType
<1>12. gbaSaveType' \in {0, TypeOfChip'}
  BY <1>1, <1>2, <1>9, <1>10, ChipStays
<1>13. used' \in BOOLEAN /\ (used' => SaveTypeNow' # 0)
  BY <1>3 DEF SaveTypeNow
<1>14. flashDeviceID' = FlashBanks'
  BY <1>0, <1>1, ChipStays DEF flashReadGame, Common
<1>15. Common'
  BY <1>0, <1>1, <1>8, <1>11, <1>12, <1>13, <1>14, ChipStays, SaveAssumption DEF Common
<1> QED  BY <1>6, <1>7, <1>15 DEF Inv

\* The program starts again.
LEMMA StartKeeps ==
  ASSUME Inv, SaveTypes \subseteq {0, 1}, Start, FileFits' PROVE Inv'
<1>0. chip \in Chips /\ Common /\ now \in Nat /\ now \in 0 .. MaxTime
  BY InvParts
<1>1. /\ rtcReset /\ eepromReset /\ flashReset /\ eepromBuffer' = <<>>
      /\ saveType' = 0 /\ gbaSaveType' = 0 /\ cpuSaveGameFunc' = FuncAtReset
      /\ CPUReadBatteryFile /\ systemSaveUpdateCounter' = 0
      /\ GameAtReset /\ expected' = saved'
      /\ UNCHANGED <<now, chip, cpuSaveType, state>>
  BY DEF Start, SYSTEM_SAVE_NOT_UPDATED
<1>2. used' = FALSE
  BY DEF Start
<1>3. Fits(saved)' /\ (chip = "RTC" => saved' = Blank)
  BY <1>1, ChipStays DEF FileFits
<1>4. Fits(expected)'
  BY <1>1, <1>3 DEF Fits
<1>5. /\ flashSize' = FlashBanks /\ flashDeviceID' = FlashBanks
      /\ chip \in EEPROMs =>
           eepromData' = expected' /\ flashSaveMemory' = [c \in Array |-> 0]
      /\ chip \notin EEPROMs =>
           eepromData' = [c \in Blocks |-> Zeros] /\ flashSaveMemory' = expected'
  <2>1. CASE file'.kind = "none" /\ saved' = Blank
    <3>1. /\ flashSize' = FlashBanks' /\ flashDeviceID' = FlashBanks
          /\ flashSaveMemory' = [c \in Array |-> 0]
          /\ eepromData' = [c \in Blocks |-> Zeros]
      BY <1>1, <2>1, ChipStays DEF CPUReadBatteryFile, flashSetSize
    <3> QED  BY <1>1, <2>1, <3>1, ChipStays DEF Blank
  <2>2. CASE /\ file'.kind = (IF chip \in EEPROMs THEN "eeprom" ELSE "flash")
             /\ file'.holds = saved'
             /\ file'.size \in IF chip \in EEPROMs THEN {SmallSize, LargeSize}
                                                   ELSE {FlashBanks}
    BY <1>1, <2>2, ChipStays DEF CPUReadBatteryFile, flashSetSize
  <2>3. \/ file'.kind = "none" /\ saved' = Blank
        \/ /\ file'.kind = (IF chip \in EEPROMs THEN "eeprom" ELSE "flash")
           /\ file'.holds = saved'
           /\ file'.size \in IF chip \in EEPROMs THEN {SmallSize, LargeSize}
                                                 ELSE {FlashBanks}
    BY <1>1, ChipStays DEF FileFits
  <2> QED  BY <2>1, <2>2, <2>3
<1>6. eepromBuffer' \in Seq(Bit)
  BY <1>1
<1>7. InStep(flashSaveGame, eepromSaveGame, rtcSaveGame, saveType, gameVars)'
  BY <1>0, <1>1, <1>3, <1>4, <1>5, <1>6, ResetInStep
<1>8. (state # <<>> => InStep(state[1], state[2], state[3], state[4], state[5]))'
  BY <1>0, <1>1, StateStays
<1>9. cpuSaveGameFunc' = FuncOfType(saveType')
  BY <1>1, ResetFunc
<1>10. used' \in BOOLEAN /\ ~used'
  BY <1>2
<1>11. Common'
  BY <1>0, <1>1, <1>5, <1>9, <1>10, ChipStays, SaveAssumption DEF Common
<1> QED  BY <1>7, <1>8, <1>11 DEF Inv

LEMMA QuitKeeps == ASSUME Inv, SaveTypes \subseteq {0, 1}, Quit \/ Crash PROVE Inv'
<1>1. Start /\ chip' = chip
  BY DEF Quit, Crash, Start
<1>2. FileFits'
  <2>1. CASE Quit
    BY <1>1, <2>1, FileWritten DEF Quit
  <2>2. CASE Crash
    BY <1>1, <2>2, FileStays DEF Crash
  <2> QED  BY <2>1, <2>2
<1> QED  BY <1>1, <1>2, StartKeeps

----------------------------------------------------------------------------
(* The theorems                                                               *)

\* The hypothesis of the theorems: the user has not forced the save type to
\* SRAM or to flash.  Where he has, saveType stays 0, also in a save state, and
\* when that is loaded the next access finds out again what chip there is
\* (GBA.cpp:887): in the middle of a command to the flash memory it finds SRAM.
NotForced == SaveTypes \subseteq {0, 1}

LEMMA InitKeeps == ASSUME Init, NotForced PROVE Inv
<1>0. /\ chip \in Chips /\ cpuSaveType \in SaveTypes /\ now = 0 /\ 0 \in 0 .. MaxTime
      /\ systemSaveUpdateCounter = 0 /\ 0 \in 0 .. SYSTEM_SAVE_UPDATED
  BY RtcAssumption, SaveAssumption DEF Init, SYSTEM_SAVE_NOT_UPDATED
<1>1. /\ file = NoFile /\ state = <<>> /\ saved = Blank /\ expected = Blank
      /\ saveType = 0 /\ gbaSaveType = 0 /\ cpuSaveGameFunc = FuncAtReset
      /\ order = NoOrder /\ done = 0 /\ got = <<>> /\ bank = 0
      /\ flashDeviceID = FlashBanks
  BY DEF Init
<1>2. used = FALSE /\ eepromInUse = FALSE
  BY DEF Init
<1>3. Fits(Blank)
  <2>1. CASE chip \in EEPROMs
    <3>1. Zeros \in [1 .. DataBits -> Bit]
      BY DEF Zeros, Bit
    <3> QED  BY <2>1, <3>1 DEF Fits, Blank, AllCells, Values
  <2>2. CASE chip \notin EEPROMs
    <3>1. 0 \in Bytes
      BY DEF Bytes
    <3> QED  BY <2>2, <3>1 DEF Fits, Blank, AllCells, Values
  <2> QED  BY <2>1, <2>2
<1>4. /\ flashSaveGame[1] = "READ_ARRAY" /\ flashSaveGame[2] = "READ_ARRAY"
      /\ flashSaveGame[3] = FlashBanks /\ flashSaveGame[4] = 0
      /\ flashSaveGame[5] = [c \in Array |-> 0]
  BY DEF Init, flashSaveGame
<1>5. /\ eepromVars[1] = "IDLE" /\ eepromVars[2] = 0 /\ eepromVars[3] = <<>>
      /\ eepromVars[4] = FirstBlock /\ eepromVars[6] = SmallSize
      /\ eepromVars[7] = [c \in Blocks |-> Zeros]
  BY DEF Init, eepromVars
<1>6. eepromVars[5] = FALSE
  BY <1>2 DEF eepromVars
<1>7. /\ rtcVars[1] = 0 /\ rtcVars[2] = 0 /\ rtcVars[3] = 0 /\ rtcVars[4] = "IDLE"
      /\ rtcVars[5] = 0 /\ rtcVars[6] = <<>> /\ rtcVars[7] = <<>>
  BY DEF Init, rtcVars
<1>8. NoRtc(rtcVars) /\ NoEEprom(eepromVars) /\ NoFlash(flashSaveGame)
  BY <1>4, <1>5, <1>6, <1>7 DEF NoRtc, NoEEprom, NoFlash
<1>9. /\ gameVars[1] = NoOrder /\ gameVars[2] = 0 /\ gameVars[3] = <<>>
      /\ gameVars[4] = 0 /\ gameVars[5] = Blank
  BY <1>1 DEF gameVars
<1>10. chip \notin EEPROMs => Blank = [c \in Array |-> 0]
  BY DEF Blank
<1>11. chip \in EEPROMs => Blank = [c \in Blocks |-> Zeros]
  BY DEF Blank
<1>12. chip \in Flashes => FlashAt(flashSaveGame, saveType, NoOrder, 0, <<>>, 0, Blank)
  <2>1. 0 \in 0 .. FlashBanks - 1
    BY DEF FlashBanks
  <2>2. chip \in Flashes => chip \notin EEPROMs
    BY <1>0, ChipIsOne
  <2> QED  BY <1>1, <1>4, <1>10, <2>1, <2>2 DEF FlashAt
<1>13. chip = "SRAM" => SramAt(flashSaveGame, saveType, NoOrder, 0, <<>>, 0, Blank)
  <2>1. chip = "SRAM" => FlashBanks = 1 /\ chip \notin EEPROMs
    BY <1>0, ChipIsOne DEF FlashBanks
  <2> QED  BY <1>1, <1>4, <1>10, <2>1 DEF SramAt
<1>14. chip \in EEPROMs => EEpromAt(eepromVars, NoOrder, 0, <<>>, Blank)
  <2>1. 0 \in 0 .. DataBits
    BY EEpromAssumption
  <2>2. FirstBlock \in Blocks
    BY EEpromAssumption DEF FirstBlock, Blocks, Bit
  <2>3. FALSE \in BOOLEAN /\ <<>> \in Seq(Bit)
    OBVIOUS
  <2> QED  BY <1>5, <1>6, <1>11, <2>1, <2>2, <2>3 DEF EEpromAt
<1>15. RtcAt(rtcVars, NoOrder, 0, <<>>)
  <2>1. 0 \in Pins /\ 0 \in 0 .. 8 + DateBits + TimeBits + ControlBits
    BY RtcAssumption DEF Pins
  <2>2. RtcTyped(rtcVars)
    BY <1>7, <2>1 DEF RtcTyped
  <2> QED  BY <1>7, <2>2 DEF RtcAt
<1>16. InStep(flashSaveGame, eepromVars, rtcVars, saveType, gameVars)
  BY <1>1, <1>3, <1>8, <1>9, <1>12, <1>13, <1>14, <1>15 DEF InStep
<1>17. FileFits
  BY <1>1, <1>3 DEF FileFits, NoFile
<1>18. cpuSaveGameFunc = FuncOfType(saveType)
  BY <1>0, <1>1 DEF NotForced, FuncAtReset, FuncOfType
<1>19. used \in BOOLEAN /\ ~used
  BY <1>2
<1>20. Common
  BY <1>0, <1>1, <1>17, <1>18, <1>19 DEF Common
<1> QED  BY <1>1, <1>16, <1>20 DEF Inv, eepromSaveGame, rtcSaveGame

LEMMA NextKeeps == ASSUME Inv, NotForced, [Next]_vars PROVE Inv'
<1>1. CASE Begin
  BY <1>1, BeginKeeps
<1>2. CASE Go
  BY <1>2, GoKeeps
<1>3. CASE systemFrame
  BY <1>3, FrameKeeps
<1>4. CASE Tick
  BY <1>4, TickKeeps
<1>5. CASE CPUReset
  BY <1>5, ResetKeeps DEF NotForced
<1>6. CASE CPUWriteState
  BY <1>6, WriteStateKeeps
<1>7. CASE CPUReadState
  BY <1>7, ReadStateKeeps
<1>8. CASE Quit \/ Crash
  BY <1>8, QuitKeeps DEF NotForced
<1>9. CASE UNCHANGED vars
  <2>1. /\ chip \in Chips /\ Common /\ now \in Nat
    BY InvParts
  <2>2. UNCHANGED <<flashVars, eepromVars, rtcVars, now, systemSaveUpdateCounter, chip,
                    cpuSaveType, typeVars, file, state, gameVars, saved, used>>
    BY <1>9 DEF vars
  <2>3. UNCHANGED <<flashDeviceID, saveType, cpuSaveGameFunc, gbaSaveType, eepromInUse>>
    BY <2>2 DEF flashVars, typeVars, eepromVars
  <2>4. InStep(flashSaveGame, eepromSaveGame, rtcSaveGame, saveType, gameVars)'
    BY <2>1, <2>2, <2>3, InStepSame
  <2>5. (state # <<>> => InStep(state[1], state[2], state[3], state[4], state[5]))'
    BY <2>1, <2>2, StateStays
  <2>6. FileFits'
    BY <2>2, FileStays
  <2>7. Common'
    BY <2>1, <2>2, <2>3, <2>6, ChipStays DEF Common, SaveTypeNow
  <2> QED  BY <2>4, <2>5, <2>7 DEF Inv
<1> QED  BY <1>1, <1>2, <1>3, <1>4, <1>5, <1>6, <1>7, <1>8, <1>9 DEF Next

\* In every reachable state the chip, and the one in a save state, is where the
\* game is with its order, and the battery file holds what was expected when it
\* was written.
THEOREM ChipIsInStep == NotForced => (Spec => []Inv)
<1> SUFFICES ASSUME NotForced PROVE Spec => []Inv
  OBVIOUS
<1>1. Init => Inv
  BY InitKeeps
<1>2. Inv /\ [Next]_vars => Inv'
  BY NextKeeps
<1> QED  BY <1>1, <1>2, PTL DEF Spec

\* The chip holds what the orders of the game say and nothing else, with any
\* number of orders, resets, save states, quits and crashes between and in them
\* (Flash.cpp:54, EEprom.cpp:30, GBA.cpp:780, GBA.cpp:1341).
THEOREM MemoryIsAsExpected == NotForced => (Spec => []MemoryIsExpected)
<1> SUFFICES ASSUME NotForced PROVE Spec => []MemoryIsExpected
  OBVIOUS
<1>1. Spec => []Inv
  BY ChipIsInStep
<1>2. Inv => MemoryIsExpected
  BY MemoryFits DEF MemoryIsExpected
<1> QED  BY <1>1, <1>2, PTL

\* What the game has read when an order is over.
LEMMA EEpromReads ==
  ASSUME Inv, Finished, got # <<>>, chip \in EEPROMs
  PROVE  [i \in 1 .. DataBits |-> got[Dummies + i]] = expected[order.cell]
<1>1. EEpromAt(eepromVars, order, done, got, expected)
  BY InvParts
<1>2. EEpromOrder(order)
  BY <1>1 DEF EEpromAt
<1>3. Idles(eepromVars, order, done, got, expected)
  BY <1>2, EEpromEnds
<1>4. Gave(got, expected[order.cell], DataBits)
  BY <1>3 DEF Idles
<1>5. \A j \in 1 .. DataBits : got[Dummies + j] = expected[order.cell][j]
  BY <1>4 DEF Gave
<1>6. expected[order.cell] \in [1 .. DataBits -> Bit]
  <2>1. order.cell \in AllCells
    BY <1>2 DEF EEpromOrder, EEpromBlocks, AllCells, SmallBlocks
  <2>2. expected \in [AllCells -> Values]
    BY InvParts DEF Fits
  <2> QED  BY <2>1, <2>2 DEF Values
<1>7. expected[order.cell] = [i \in 1 .. DataBits |-> expected[order.cell][i]]
  BY <1>6
<1> QED  BY <1>5, <1>7
LEMMA RtcReads ==
  ASSUME Inv, Finished, got # <<>>, chip = "RTC"
  PROVE  got \in {Answer(order.cell, t) : t \in order.time .. now}
<1>1. RtcAt(rtcVars, order, done, got)
  BY InvParts
<1>2. RtcOrder(order)
  BY <1>1 DEF RtcAt
<1>3. /\ RtcRests(rtcVars, order, done, got)
      /\ done = Length(order) /\ Length(order) \in Nat /\ Length(order) >= 21
  BY <1>2, RtcEnds DEF Finished
<1>4. RtcGot(order, got)
  BY <1>3 DEF RtcRests
<1>5. Latched(order, got)
  BY <1>4 DEF RtcGot
<1> QED  BY <1>5 DEF Latched
LEMMA ArrayReads ==
  ASSUME Inv, Finished, got # <<>>, chip \notin EEPROMs \cup {"RTC"}
  PROVE  got = CASE order.kind = "read" -> <<expected[<<bank, order.cell>>]>>
                 [] order.kind = "identify" -> <<FlashBanks>>
                 [] OTHER -> <<255>>
<1>0. chip \in Chips /\ done = Length(order)
  BY InvParts DEF Finished
<1>1. CASE chip \in Flashes
  <2>1. FlashAt(flashSaveGame, saveType, order, done, got, bank, expected)
    BY <1>1, InvParts
  <2>2. FlashOrder(order) /\ got = FlashGot(order, done, bank, expected)
    BY <2>1 DEF FlashAt
  <2>3. CASE order.kind = "read"
    BY <1>0, <1>1, <2>2, <2>3, FlashLengths DEF FlashGot
  <2>4. CASE order.kind = "identify"
    BY <1>0, <1>1, <2>2, <2>4, FlashLengths DEF FlashGot
  <2>5. CASE Erasing(order)
    BY <1>0, <1>1, <2>2, <2>5, FlashLengths DEF FlashGot, Erasing
  <2>6. CASE order.kind \in {"program", "bank"}
    BY <1>0, <1>1, <2>2, <2>6, FlashLengths DEF FlashGot
  <2> QED  BY <2>2, <2>3, <2>4, <2>5, <2>6 DEF FlashOrder, Erasing
<1>2. CASE chip = "SRAM"
  <2>1. SramAt(flashSaveGame, saveType, order, done, got, bank, expected)
    BY <1>2, InvParts
  <2> QED  BY <2>1 DEF SramAt
<1> QED  BY <1>0, <1>1, <1>2, ChipIsOne

\* What the game reads in one or many accesses is what it saved; the chip tells
\* its size; and the clock gives the bits of one moment between the order and
\* now (Flash.cpp:109, EEprom.cpp:74, RTC.cpp:175).
THEOREM GameReadsWhatItSaved == NotForced => (Spec => []ReadsAreRight)
<1> SUFFICES ASSUME NotForced PROVE Spec => []ReadsAreRight
  OBVIOUS
<1>1. Spec => []Inv
  BY ChipIsInStep
<1>2. Inv => ReadsAreRight
  <2> SUFFICES ASSUME Inv, Finished, got # <<>>
               PROVE  CASE chip \in EEPROMs ->
                        [i \in 1 .. DataBits |-> got[Dummies + i]] = expected[order.cell]
                   [] chip = "RTC" -> got \in {Answer(order.cell, t) : t \in order.time .. now}
                   [] chip \notin EEPROMs \cup {"RTC"} ->
                        got = CASE order.kind = "read" -> <<expected[<<bank, order.cell>>]>>
                                [] order.kind = "identify" -> <<FlashBanks>>
                                [] OTHER -> <<255>>
    BY DEF ReadsAreRight
  <2>1. CASE chip \in EEPROMs
    <3>1. chip # "RTC"
      BY <2>1 DEF EEPROMs
    <3> QED  BY <2>1, <3>1, EEpromReads
  <2>2. CASE chip = "RTC"
    <3>1. chip \notin EEPROMs
      BY <2>2 DEF EEPROMs
    <3> QED  BY <2>2, <3>1, RtcReads
  <2>3. CASE chip \notin EEPROMs \cup {"RTC"}
    BY <2>3, ArrayReads
  <2> QED  BY <2>1, <2>2, <2>3
<1> QED  BY <1>1, <1>2, PTL

\* When the battery file is written, at the end of the countdown or of the
\* program, it gets all that the game has saved (GBA.cpp:1083), the large EEPROM
\* between a reset and the next access excepted.
THEOREM NothingSavedIsLost == NotForced => (Spec => QuitKeepsWhatIsSaved)
<1> SUFFICES ASSUME NotForced PROVE Spec => QuitKeepsWhatIsSaved
  OBVIOUS
<1>1. Spec => []Inv
  BY ChipIsInStep
<1>2. Inv /\ [Next]_vars => [(chip = "EEPROM8K" => eepromSize = LargeSize) => SavesAll]_vars
  <2> SUFFICES ASSUME Inv, chip = "EEPROM8K" => eepromSize = LargeSize, WritesBattery, used
               PROVE  saved' = expected
    BY DEF SavesAll
  <2>1. chip \in Chips /\ Fits(expected) /\ SaveTypeNow # 0
    BY InvParts DEF Common
  <2>2. saved' = SavedNow
    BY DEF WritesBattery, Quit, systemFrame, CPUWriteBatteryFile, SYSTEM_SAVE_NOT_UPDATED
  <2>3. saved' = Part(expected, SizeNow)
    BY <2>1, <2>2 DEF SavedNow
  <2>4. /\ chip = "EEPROM512" => SizeNow = SmallSize
        /\ chip = "EEPROM8K" => SizeNow = LargeSize
        /\ chip \notin EEPROMs => SizeNow = FlashBanks
    BY <2>1, SizeIs, MemoryFits DEF EEPROMs
  <2> QED  BY <2>1, <2>3, <2>4, PartIsAll
<1> QED  BY <1>1, <1>2, PTL DEF Spec, QuitKeepsWhatIsSaved

\* The chips that are not there are in a state, too.
LEMMA NoneTypes ==
  ASSUME chip \in Chips
  PROVE  /\ NoFlash(flashSaveGame) => /\ flashState = "READ_ARRAY"
                                      /\ flashReadState = "READ_ARRAY"
                                      /\ flashSize = FlashBanks /\ flashBank = 0
                                      /\ flashSaveMemory \in [Array -> Bytes]
         /\ NoEEprom(eepromVars) => EEpromTypeOK
         /\ NoRtc(rtcVars) => /\ byte0 = 0 /\ byte1 = 0 /\ byte2 = 0
                              /\ rtcState = "IDLE" /\ rtcBits = 0
                              /\ rtcCommand = <<>> /\ rtcData = <<>>
<1>1. NoFlash(flashSaveGame) => /\ flashState = "READ_ARRAY"
                                /\ flashReadState = "READ_ARRAY"
                                /\ flashSize = FlashBanks /\ flashBank = 0
                                /\ flashSaveMemory \in [Array -> Bytes]
  <2>1. 0 \in Bytes
    BY DEF Bytes
  <2> QED  BY <2>1 DEF NoFlash, flashSaveGame
<1>2. NoEEprom(eepromVars) => EEpromTypeOK
  <2> SUFFICES ASSUME NoEEprom(eepromVars) PROVE EEpromTypeOK
    OBVIOUS
  <2>1. /\ eepromMode = "IDLE" /\ eepromBits = 0 /\ eepromBuffer = <<>>
        /\ eepromAddress = FirstBlock /\ eepromSize = SmallSize
        /\ eepromData = [c \in Blocks |-> Zeros]
    BY DEF NoEEprom, eepromVars
  <2>2. eepromInUse = FALSE
    BY DEF NoEEprom, eepromVars
  <2>3. eepromInUse \in BOOLEAN
    BY <2>2
  <2>4. 0 \in 0 .. WideBits + DataBits + 3
    BY EEpromAssumption
  <2>5. FirstBlock \in Blocks
    BY EEpromAssumption DEF FirstBlock, Blocks, Bit
  <2>6. [c \in Blocks |-> Zeros] \in [Blocks -> [1 .. DataBits -> Bit]]
    BY DEF Zeros, Bit
  <2>7. <<>> \in Seq(Bit) /\ "IDLE" \in EEpromModes
    BY DEF EEpromModes
  <2> QED  BY <2>1, <2>3, <2>4, <2>5, <2>6, <2>7 DEF EEpromTypeOK
<1>3. NoRtc(rtcVars) => /\ byte0 = 0 /\ byte1 = 0 /\ byte2 = 0
                        /\ rtcState = "IDLE" /\ rtcBits = 0
                        /\ rtcCommand = <<>> /\ rtcData = <<>>
  BY DEF NoRtc, rtcVars
<1> QED  BY <1>1, <1>2, <1>3

LEMMA FlashTypes == ASSUME Inv PROVE FlashTypeOK /\ bank \in Banks
<1>0. chip \in Chips /\ Fits(expected) /\ flashDeviceID = FlashBanks
  BY InvParts
<1>1. FlashBanks \in {1, 2}
  BY DEF FlashBanks
<1>2. chip \notin EEPROMs => expected \in [Array -> Bytes]
  BY <1>0 DEF Fits, AllCells, Values
<1>3. CASE chip \in Flashes
  <2>1. FlashAt(flashSaveGame, saveType, order, done, got, bank, expected)
    BY <1>3, InvParts
  <2>2. /\ flashSize = FlashBanks /\ flashBank = bank /\ flashSaveMemory = expected
        /\ bank \in 0 .. FlashBanks - 1
    BY <2>1 DEF FlashAt, flashSaveGame
  <2>3. bank \in Banks
    BY <1>1, <2>2 DEF Banks
  <2>4. flashState \in FlashStates /\ flashReadState \in FlashReadStates
    <3>1. CASE flashState = "READ_ARRAY" /\ flashReadState = "READ_ARRAY"
      BY <3>1 DEF FlashStates, FlashReadStates
    <3>2. CASE /\ FlashOrder(order) /\ done \in 0 .. Length(order)
               /\ flashState = FlashStateAt(order, done)
               /\ flashReadState = FlashReadStateAt(order, done)
      <4>1. flashReadState \in FlashReadStates
        BY <3>2 DEF FlashReadStateAt, FlashReadStates
      <4>2. /\ order.kind \in {"program", "sector", "chip", "bank", "identify", "read"}
            /\ Length(order) \in {1, 4, 5, 7}
        BY <1>3, <3>2, FlashLengths DEF FlashOrder, Erasing
      <4>3. /\ order.kind \in {"program", "bank"} => Length(order) = 4
            /\ order.kind = "identify" => Length(order) = 5
            /\ order.kind = "read" => Length(order) = 1
            /\ Erasing(order) => Length(order) = 7
        BY <1>3, <3>2, FlashLengths
      <4>4. CASE done = 0 \/ done = Length(order)
        <5>1. FlashStateAt(order, done) = "READ_ARRAY"
          BY <4>2, <4>3, <4>4 DEF FlashStateAt, Erasing
        <5> QED  BY <3>2, <4>1, <5>1 DEF FlashStates
      <4>5. CASE done # 0 /\ done # Length(order) /\ order.kind \in {"program", "bank"}
        <5>1. done \in {1, 2, 3}
          BY <3>2, <4>3, <4>5
        <5>2. FlashStateAt(order, done)
                \in {"CMD_1", "CMD_2", "PROGRAM", "SETBANK", "READ_ARRAY"}
          BY <4>3, <4>5, <5>1 DEF FlashStateAt, Erasing
        <5> QED  BY <3>2, <4>1, <5>2 DEF FlashStates, Programs
      <4>6. CASE done # 0 /\ done # Length(order) /\ order.kind = "identify"
        <5>1. done \in {1, 2, 3, 4}
          BY <3>2, <4>3, <4>6
        <5>2. FlashStateAt(order, done)
                \in {"CMD_1", "CMD_2", "AUTOSELECT"}
          BY <4>3, <4>6, <5>1 DEF FlashStateAt, Erasing
        <5> QED  BY <3>2, <4>1, <5>2 DEF FlashStates, Programs
      <4>7. CASE done # 0 /\ done # Length(order) /\ Erasing(order)
        <5>1. done \in {1, 2, 3, 4, 5, 6}
          BY <3>2, <4>3, <4>7
        <5>2. FlashStateAt(order, done)
                \in {"CMD_1", "CMD_2", "CMD_3", "CMD_4", "CMD_5"}
          BY <4>3, <4>7, <5>1 DEF FlashStateAt, Erasing
        <5> QED  BY <3>2, <4>1, <5>2 DEF FlashStates, Programs
      <4>8. done # 0 => done = Length(order) \/ order.kind # "read"
        BY <3>2, <4>3
      <4> QED  BY <4>1, <4>2, <4>4, <4>5, <4>6, <4>7, <4>8 DEF Erasing
    <3> QED  BY <2>1, <3>1, <3>2 DEF FlashAt, flashSaveGame
  <2> QED  BY <1>0, <1>1, <1>2, <1>3, <2>2, <2>3, <2>4, ChipIsOne DEF FlashTypeOK
<1>4. CASE chip = "SRAM"
  <2>1. SramAt(flashSaveGame, saveType, order, done, got, bank, expected)
    BY <1>4, InvParts
  <2>2. /\ flashSize = 1 /\ flashBank = 0 /\ flashSaveMemory = expected /\ bank = 0
        /\ flashState = "READ_ARRAY" /\ flashReadState = "READ_ARRAY"
    BY <2>1 DEF SramAt, flashSaveGame
  <2> QED  BY <1>0, <1>1, <1>2, <1>4, <2>2, ChipIsOne
           DEF FlashTypeOK, FlashStates, FlashReadStates, Banks
<1>5. CASE chip \in EEPROMs \/ chip = "RTC"
  <2>1. NoFlash(flashSaveGame) /\ bank = 0
    BY <1>5, InvParts
  <2> QED  BY <1>0, <1>1, <2>1, NoneTypes DEF FlashTypeOK, FlashStates, FlashReadStates, Banks
<1> QED  BY <1>0, <1>3, <1>4, <1>5, ChipIsOne

LEMMA EEpromTypes == ASSUME Inv PROVE EEpromTypeOK
<1>0. chip \in Chips /\ Fits(expected)
  BY InvParts
<1>1. CASE chip \notin EEPROMs
  BY <1>0, <1>1, InvParts, NoneTypes, ChipIsOne
<1>2. CASE chip \in EEPROMs
  <2>1. EEpromAt(eepromVars, order, done, got, expected)
    BY <1>2, InvParts
  <2>2. /\ eepromVars[1] = eepromMode /\ eepromVars[2] = eepromBits
        /\ eepromVars[3] = eepromBuffer /\ eepromVars[4] = eepromAddress
        /\ eepromVars[6] = eepromSize /\ eepromVars[7] = eepromData
    BY DEF eepromVars
  <2>3. eepromVars[5] = eepromInUse
    BY DEF eepromVars
  <2>4. /\ eepromBuffer \in Seq(Bit) /\ eepromAddress \in Blocks
        /\ eepromSize \in {SmallSize, LargeSize}
    BY <2>1, <2>2 DEF EEpromAt
  <2>5. eepromInUse \in BOOLEAN
    BY <2>1, <2>3 DEF EEpromAt
  <2>6. eepromData \in [Blocks -> [1 .. DataBits -> Bit]]
    BY <1>0, <1>2, MemoryFits DEF Fits, AllCells, Values
  <2>7. eepromMode \in EEpromModes /\ eepromBits \in 0 .. WideBits + DataBits + 3
    <3>0. /\ WideBits \in Nat /\ DataBits \in Nat /\ AddressBits \in Nat
          /\ AddressBits <= WideBits /\ DmaLength(order) \in Nat
      BY EEpromAssumption DEF AddressBits, DmaLength
    <3>1. CASE eepromMode = "IDLE" /\ eepromBits \in 0 .. DataBits
      BY <3>0, <3>1 DEF EEpromModes
    <3>2. CASE TakesAddress(eepromVars, order, done, got)
      <4>1. eepromMode = "READADDRESS" /\ eepromBits \in 1 .. AddressBits + 2
        BY <2>2, <3>2 DEF TakesAddress
      <4> QED  BY <3>0, <4>1 DEF EEpromModes
    <3>3. CASE TakesData(eepromVars, order, done, got)
      <4>1. /\ eepromMode = "WRITEDATA" /\ order.kind = "write"
            /\ done \in AddressBits + 3 .. DmaLength(order) - 1
            /\ eepromBits = done - AddressBits - 2
        BY <2>2, <3>3 DEF TakesData
      <4>2. DmaLength(order) = AddressBits + 3 + DataBits
        BY <4>1 DEF DmaLength
      <4>3. eepromBits \in 1 .. DataBits
        BY <3>0, <4>1, <4>2
      <4> QED  BY <3>0, <4>1, <4>3 DEF EEpromModes
    <3>4. CASE GivesDummies(eepromVars, order, done, got)
      <4>1. /\ eepromMode = "READDATA"
            /\ done \in DmaLength(order) .. DmaLength(order) + 3
            /\ eepromBits = done - DmaLength(order)
        BY <2>2, <3>4 DEF GivesDummies, Dummies
      <4>2. eepromBits \in 0 .. 3
        BY <3>0, <4>1
      <4> QED  BY <3>0, <4>1, <4>2 DEF EEpromModes
    <3>5. CASE GivesData(eepromVars, order, done, got, expected)
      <4>1. /\ eepromMode = "READDATA2"
            /\ done \in DmaLength(order) + 4 .. DmaLength(order) + 4 + DataBits - 1
            /\ eepromBits = done - DmaLength(order) - 4
        BY <2>2, <3>5 DEF GivesData, Dummies
      <4>2. eepromBits \in 0 .. DataBits
        BY <3>0, <4>1
      <4> QED  BY <3>0, <4>1, <4>2 DEF EEpromModes
    <3>6. CASE Idles(eepromVars, order, done, got, expected)
      <4>1. eepromMode = "IDLE" /\ eepromBits \in 0 .. DataBits
        BY <2>2, <3>6 DEF Idles
      <4> QED  BY <3>1, <4>1
    <3> QED  BY <2>1, <2>2, <3>1, <3>2, <3>3, <3>4, <3>5, <3>6 DEF EEpromAt
  <2> QED  BY <2>4, <2>5, <2>6, <2>7 DEF EEpromTypeOK
<1> QED  BY <1>1, <1>2

LEMMA RtcTypes == ASSUME Inv PROVE RtcTypeOK
<1>0. chip \in Chips /\ now \in 0 .. MaxTime
  BY InvParts
<1>1. /\ rtcVars[1] = byte0 /\ rtcVars[2] = byte1 /\ rtcVars[3] = byte2
      /\ rtcVars[4] = rtcState /\ rtcVars[5] = rtcBits /\ rtcVars[6] = rtcCommand
      /\ rtcVars[7] = rtcData
  BY DEF rtcVars
<1>2. CASE chip # "RTC"
  <2>1. NoRtc(rtcVars)
    BY <1>0, <1>2, InvParts, ChipIsOne
  <2>2. 0 \in Pins /\ 0 \in 0 .. 8 + DateBits + TimeBits + ControlBits
    BY RtcAssumption DEF Pins
  <2>3. <<>> \in Seq({0, 1})
    OBVIOUS
  <2> QED  BY <1>0, <2>1, <2>2, <2>3, NoneTypes DEF RtcTypeOK
<1>3. CASE chip = "RTC"
  <2>1. RtcAt(rtcVars, order, done, got)
    BY <1>3, InvParts
  <2>2. /\ byte0 \in Pins /\ byte1 \in Pins /\ byte2 \in Pins
        /\ rtcBits \in 0 .. 8 + DateBits + TimeBits + ControlBits
        /\ rtcCommand \in Seq({0, 1}) /\ rtcData \in Seq({0, 1})
    BY <1>1, <2>1 DEF RtcAt, RtcTyped
  <2>3. rtcVars[4] \in {"IDLE", "COMMAND", "DATA", "READDATA"}
    BY <2>1 DEF RtcAt, RtcRests, TakesCommand, TakesControl, TurnsRound, Answers
  <2> QED  BY <1>0, <1>1, <2>2, <2>3 DEF RtcTypeOK
<1> QED  BY <1>2, <1>3

\* The state is one the program can represent.
THEOREM TypeCorrect == NotForced => (Spec => []TypeOK)
<1> SUFFICES ASSUME NotForced PROVE Spec => []TypeOK
  OBVIOUS
<1>1. Spec => []Inv
  BY ChipIsInStep
<1>2. Inv => TypeOK
  <2> SUFFICES ASSUME Inv PROVE TypeOK
    OBVIOUS
  <2>1. /\ chip \in Chips /\ cpuSaveType \in SaveTypes
        /\ systemSaveUpdateCounter \in 0 .. SYSTEM_SAVE_UPDATED
        /\ gbaSaveType \in {0, TypeOfChip}
    BY DEF Inv, Common
  <2>2. used \in BOOLEAN
    BY InvParts
  <2>3. gbaSaveType \in 0 .. 3 /\ saveType \in 0 .. 2
    BY <2>1, TypeIsOfChip DEF TypeOfChip
  <2>4. cpuSaveGameFunc \in {"flashSaveDecide", "sramWrite", "flashWrite"}
    BY InvParts, TypeIsOfChip DEF FuncOfType
  <2>5. file.size \in {0, 1, 2, SmallSize, LargeSize}
    BY DEF Inv, Common, FileFits, FlashBanks
  <2> QED  BY <2>1, <2>2, <2>3, <2>4, <2>5, FlashTypes, EEpromTypes, RtcTypes DEF TypeOK
<1> QED  BY <1>1, <1>2, PTL
=============================================================================
