------------------------------ MODULE GbaSaves ------------------------------
(* What a Game Boy Advance game saves, from the chip of its cartridge to the  *)
(* battery file: gba/GBA.cpp and sdl/SDL.cpp around the chips.  The game      *)
(* gives its chip one order after the other, each a sequence of accesses; the *)
(* user resets, saves and loads states, quits and starts again between any    *)
(* two accesses that are not of one DMA.                                      *)
EXTENDS Flash, EEprom, Rtc

CONSTANTS
  Chips,      \* the chips a cartridge may have: of "EEPROM512", "EEPROM8K",
              \* "SRAM", "FLASH64", "FLASH128", "RTC"
  SaveTypes,  \* values of cpuSaveType: 0 automatic, 1 EEPROM, 2 SRAM, 3 flash
  Data,       \* the bytes a game saves,
  BlockData,  \* or the blocks of an EEPROM
  RtcCommands,  \* what it asks of the clock
  MaxOrders, MaxEvents  \* bounds: what the game orders, what the user does

VARIABLES
  chip, cpuSaveType,
  saveType, cpuSaveGameFunc, gbaSaveType,
  file,     \* the battery file: its kind, its size and what it holds
  state,    \* the save state
  order, done, got, bank,  \* the game: what it is at, how many accesses of it are
                           \* done, what it has read, the bank it thinks is set
  expected, \* history: what the orders of the game should have left in the chip
  saved,    \* history: what was expected when the battery file was written
  used,     \* history: the game has saved, and the save type could be kept
  orders, events
gameVars == <<order, done, got, bank, expected>>
typeVars == <<saveType, cpuSaveGameFunc, gbaSaveType>>
bounds == <<orders, events>>
vars == <<flashVars, eepromVars, rtcVars, now, systemSaveUpdateCounter, chip,
          cpuSaveType, typeVars, file, state, gameVars, saved, used, bounds>>

EEPROMs == {"EEPROM512", "EEPROM8K"}
Flashes == {"FLASH64", "FLASH128"}
FlashBanks == IF chip = "FLASH128" THEN 2 ELSE 1
TypeOfChip == CASE chip \in EEPROMs -> 3 [] chip \in Flashes -> 2
                [] chip = "SRAM" -> 1 [] OTHER -> 0
EEpromBlocks == IF chip = "EEPROM8K" THEN Blocks ELSE SmallBlocks

ASSUME SavesAssumption ==
  /\ Chips \subseteq EEPROMs \cup Flashes \cup {"SRAM", "RTC"}
  /\ SaveTypes \subseteq {0, 1, 2, 3} /\ Data \subseteq Bytes
  /\ BlockData \subseteq [1 .. DataBits -> Bit]
  /\ RtcCommands \subseteq {Stop, SetControl, GetControl, GetDate, GetTime}
  /\ MaxOrders \in Nat /\ MaxEvents \in Nat

----------------------------------------------------------------------------
(* The game                                                                   *)

\* An access: what it does, with which arguments, whether the user can get in
\* before it, and whether it completes an order that changes what is saved.
Access(op, a, b, first) ==
  [op |-> op, a |-> a, b |-> b, first |-> first, commits |-> FALSE]
Write(a, b) == Access("write", a, b, TRUE)
Commit(access) == [access EXCEPT !.commits = TRUE]

\* The unlock sequence is the same for all commands but the last byte.
FlashScript(o) ==
  CASE o.kind = "program" ->
         <<Write(K5555, 170), Write(K2AAA, 85), Write(K5555, 160),
           Commit(Write(o.cell, o.value))>>
    [] o.kind \in {"sector", "chip"} ->
         <<Write(K5555, 170), Write(K2AAA, 85), Write(K5555, 128),
           Write(K5555, 170), Write(K2AAA, 85),
           Commit(IF o.kind = "sector" THEN Write(o.cell, 48) ELSE Write(K5555, 16)),
           Access("poll", o.cell, 0, TRUE)>>
    [] o.kind = "bank" ->
         <<Write(K5555, 170), Write(K2AAA, 85), Write(K5555, 176), Write(0, o.value)>>
    [] o.kind = "identify" ->
         <<Write(K5555, 170), Write(K2AAA, 85), Write(K5555, 144),
           Access("read", 1, 0, TRUE), Write(K5555, 240)>>
    [] o.kind = "read" -> <<Access("read", o.cell, 0, TRUE)>>

\* The bits of a command to the EEPROM are one DMA, and so are those it gives.
AddressBits == IF chip = "EEPROM8K" THEN WideBits ELSE NarrowBits
DmaLength(o) == AddressBits + 3 + (IF o.kind = "write" THEN DataBits ELSE 0)
DmaBit(o, i) ==
  CASE i = 1 -> 1
    [] i = 2 -> IF o.kind = "write" THEN 0 ELSE 1
    [] i \in 3 .. AddressBits + 2 -> o.cell[WideBits - AddressBits + i - 2]
    [] i > AddressBits + 2 /\ i < DmaLength(o) -> o.value[i - AddressBits - 2]
    [] OTHER -> 0
DmaAccess(o, i) ==
  IF i > DmaLength(o) THEN Access("dmaRead", 0, 0, i = DmaLength(o) + 1)
  ELSE IF o.kind = "write" /\ i = DmaLength(o) - 1
    THEN Commit(Access("dmaWrite", DmaBit(o, i), DmaLength(o), FALSE))
  ELSE Access("dmaWrite", DmaBit(o, i), DmaLength(o), i = 1)

\* The pins of the clock: a command or data goes over bit by bit.
Pins0(value) == Access("pins", value, 0, TRUE)
Direction(value) == Access("direction", value, 0, TRUE)
Out(bits, i) ==  \* the i-th access, two for each bit
  Pins0(4 + 2 * bits[(i + 1) \div 2] + (IF i % 2 = 0 THEN 1 ELSE 0))
In(i) ==         \* three for each bit
  IF i % 3 = 0 THEN Access("look", 0, 0, TRUE)
               ELSE Pins0(4 + (IF i % 3 = 2 THEN 1 ELSE 0))
AnswerBits(command) ==
  CASE command = GetControl -> ControlBits [] command = GetDate -> DateBits
    [] command = GetTime -> TimeBits
RtcLength(command) ==
  CASE command = Stop -> 21 [] command = SetControl -> 21 + 2 * ControlBits
    [] OTHER -> 22 + 3 * AnswerBits(command)
RtcAccess(command, i) ==
  CASE i = 1 -> Access("enable", 1, 0, TRUE)
    [] i = 2 \/ i = RtcLength(command) -> Pins0(1)
    [] i = 3 -> Pins0(5) [] i = 4 -> Direction(7)
    [] i \in 5 .. 20 -> Out(command, i - 4)
    [] OTHER -> IF command = SetControl THEN Out(Control, i - 20)
                ELSE IF i = 21 THEN Direction(5) ELSE In(i - 21)

\* An order: its kind, the cell, block or command it is about, the value it
\* saves, and the time it is given.
Order(kinds, cells, values) ==
  [kind : kinds, cell : cells, value : values, time : {now}]
NoOrder == [kind |-> "none", cell |-> 0, value |-> 0, time |-> 0]
Orders ==
  CASE chip \in EEPROMs ->
         Order({"write"}, EEpromBlocks, BlockData)
           \cup Order({"read"}, EEpromBlocks, {Zeros})
    [] chip = "SRAM" ->
         Order({"write"}, Cells \ {K5555}, Data)
           \cup Order({"read"}, Cells \ {K5555}, {0})
    [] chip \in Flashes ->
         Order({"program"}, Cells, Data) \cup Order({"sector", "read"}, Cells, {0})
           \cup Order({"chip", "identify"}, {0}, {0})
           \cup Order({"bank"}, {0}, 0 .. FlashBanks - 1)
    [] chip = "RTC" -> Order({"command"}, RtcCommands, {0})

\* How many accesses an order takes, and the i-th of them.
Length(o) ==
  CASE o.kind = "none" -> 0
    [] o.kind # "none" /\ chip \in EEPROMs ->
         DmaLength(o) + (IF o.kind = "write" THEN 0 ELSE Dummies + DataBits)
    [] o.kind # "none" /\ chip \in Flashes -> Len(FlashScript(o))
    [] o.kind # "none" /\ chip = "SRAM" -> 1
    [] o.kind = "command" /\ chip = "RTC" -> RtcLength(o.cell)
AccessOf(o, i) ==
  CASE chip \in EEPROMs -> DmaAccess(o, i)
    [] chip \in Flashes -> FlashScript(o)[i]
    [] chip = "SRAM" -> IF o.kind = "read" THEN Access("read", o.cell, 0, TRUE)
                        ELSE Commit(Write(o.cell, o.value))
    [] chip = "RTC" -> RtcAccess(o.cell, i)
Finished == done = Length(order)

\* What a cell of the chip is, and what an order should do to the cells.
AllCells == IF chip \in EEPROMs THEN Blocks ELSE Array
Memory == IF chip \in EEPROMs THEN eepromData ELSE flashSaveMemory
Erases(o, c) ==
  \/ o.kind = "chip" /\ c[1] < FlashBanks
  \/ /\ o.kind = "sector"
     /\ c[1] = bank /\ c[2] \div SectorSize = o.cell \div SectorSize
Target(o) == IF chip \in EEPROMs THEN o.cell ELSE <<bank, o.cell>>
Effect(o) ==
  IF o.kind \in {"write", "program"} THEN [expected EXCEPT ![Target(o)] = o.value]
    ELSE [c \in AllCells |-> IF Erases(o, c) THEN 0 ELSE expected[c]]

----------------------------------------------------------------------------
(* One access                                                                 *)

\* A write to 0x0E......: the first one tells SRAM and flash apart.
flashSaveDecide(address, byte) ==
  \/ address = K5555 /\ saveType' = 2 /\ cpuSaveGameFunc' = "flashWrite"
       /\ flashWrite(address, byte)
  \/ address # K5555 /\ saveType' = 1 /\ cpuSaveGameFunc' = "sramWrite"
       /\ sramWrite(address, byte)

cpuSaveGame(address, byte) ==
  /\ \/ cpuSaveGameFunc = "flashSaveDecide" /\ flashSaveDecide(address, byte)
     \/ /\ \/ cpuSaveGameFunc = "flashWrite" /\ flashWrite(address, byte)
           \/ cpuSaveGameFunc = "sramWrite" /\ sramWrite(address, byte)
        /\ UNCHANGED <<saveType, cpuSaveGameFunc>>
  /\ UNCHANGED <<eepromVars, rtcVars, gbaSaveType, got>>

\* A poll is repeated until the chip shows that the erase is done.
readFlash(address) ==
  /\ flashReadDone /\ got' = <<flashRead(address)>>
  /\ UNCHANGED <<eepromVars, rtcVars, typeVars, systemSaveUpdateCounter>>

writeEEprom(bit, count) ==
  /\ eepromWrite(bit, count) /\ UNCHANGED <<flashVars, rtcVars, typeVars, got>>
readEEprom ==
  /\ eepromReadDone /\ got' = Append(got, eepromRead)
  /\ UNCHANGED <<flashVars, rtcVars, typeVars, systemSaveUpdateCounter>>

writeRtc(op, value) ==
  /\ \/ op = "pins" /\ rtcWritePins(value)
     \/ op = "direction" /\ rtcWriteDirection(value)
     \/ op = "enable" /\ rtcWriteEnable(value)
  /\ UNCHANGED <<flashVars, eepromVars, typeVars, systemSaveUpdateCounter, got>>
readRtc ==
  /\ got' = Append(got, SIO(byte0))
  /\ UNCHANGED <<flashVars, eepromVars, rtcVars, typeVars, systemSaveUpdateCounter>>

Do(x) ==
  \/ x.op = "write" /\ cpuSaveGame(x.a, x.b)
  \/ x.op \in {"read", "poll"} /\ readFlash(x.a)
  \/ x.op = "dmaWrite" /\ writeEEprom(x.a, x.b)
  \/ x.op = "dmaRead" /\ readEEprom
  \/ x.op \in {"pins", "direction", "enable"} /\ writeRtc(x.op, x.a)
  \/ x.op = "look" /\ readRtc

Go ==
  /\ ~Finished
  /\ LET x == AccessOf(order, done + 1)
     IN  /\ Do(x)
         /\ done' = IF x.op = "poll" /\ flashRead(x.a) # 255 THEN done ELSE done + 1
         /\ expected' = IF x.commits THEN Effect(order) ELSE expected
         /\ used' = (used \/ x.commits)
         /\ bank' = IF order.kind = "bank" /\ done' = 4 THEN order.value ELSE bank
  /\ UNCHANGED <<now, chip, cpuSaveType, file, state, order, saved, bounds>>

Begin ==
  /\ Finished /\ orders < MaxOrders
  /\ order' \in Orders /\ done' = 0 /\ got' = <<>>
  /\ orders' = orders + 1
  /\ UNCHANGED <<flashVars, eepromVars, rtcVars, now, systemSaveUpdateCounter, chip,
                 cpuSaveType, typeVars, file, state, bank, expected, saved,
                 used, events>>

----------------------------------------------------------------------------
(* The user and the frames                                                    *)

\* Nothing comes between the transfers of one DMA.
Between == ~Finished => AccessOf(order, done + 1).first
Event == events < MaxEvents /\ events' = events + 1 /\ UNCHANGED orders

SaveTypeNow == IF gbaSaveType # 0 THEN gbaSaveType
                 ELSE IF eepromInUse THEN 3 ELSE saveType

Blank == IF chip \in EEPROMs THEN [c \in Blocks |-> Zeros] ELSE [c \in Array |-> 0]
\* Mutant: the flash memory is taken for one bank.
SizeOfOneBank == IF SaveTypeNow = 3 THEN eepromSize ELSE 1

\* What a file of so many bytes or banks holds of a memory.
InFile(c, size) ==
  CASE size = SmallSize -> c \in SmallBlocks [] size = LargeSize -> TRUE
    [] size \in {1, 2} -> c[1] < size
Part(memory, size) ==
  [c \in AllCells |-> IF InFile(c, size) THEN memory[c] ELSE Blank[c]]
SizeNow == CASE SaveTypeNow = 3 -> eepromSize [] SaveTypeNow = 2 -> flashSize
             [] OTHER -> 1
NoFile == [kind |-> "none", size |-> 0, holds |-> Blank]

\* The battery file as it would be written now, and what that would keep.
FileNow ==
  IF SaveTypeNow = 0 THEN file
    ELSE [kind |-> IF SaveTypeNow = 3 THEN "eeprom" ELSE "flash",
          size |-> SizeNow,
          holds |-> Part(IF SaveTypeNow = 3 THEN eepromData ELSE flashSaveMemory,
                         SizeNow)]
SavedNow == IF SaveTypeNow = 0 THEN saved ELSE Part(expected, SizeNow)
CPUWriteBatteryFile ==
  gbaSaveType' = SaveTypeNow /\ file' = FileNow /\ saved' = SavedNow

\* At each frame; the last frame of the countdown writes the battery file.
systemFrame ==
  /\ Between /\ systemSaveUpdateCounter > SYSTEM_SAVE_NOT_UPDATED
  /\ systemSaveUpdateCounter' = systemSaveUpdateCounter - 1
  /\ IF systemSaveUpdateCounter' = SYSTEM_SAVE_NOT_UPDATED
       THEN CPUWriteBatteryFile ELSE UNCHANGED <<gbaSaveType, file, saved>>
  /\ UNCHANGED <<flashVars, eepromVars, rtcVars, now, chip, cpuSaveType, saveType,
                 cpuSaveGameFunc, state, gameVars, used, bounds>>

Tick ==
  /\ chip = "RTC" /\ now < MaxTime /\ now' = now + 1
  /\ UNCHANGED <<flashVars, eepromVars, rtcVars, systemSaveUpdateCounter, chip,
                 cpuSaveType, typeVars, file, state, gameVars, saved, used,
                 bounds>>

FuncAtReset ==
  CASE cpuSaveType = 2 -> "sramWrite" [] cpuSaveType = 3 -> "flashWrite"
    [] OTHER -> "flashSaveDecide"
GameAtReset == order' = NoOrder /\ done' = 0 /\ got' = <<>> /\ bank' = 0

\* The save type found so far is kept, and the chips forget where they were.
CPUReset ==
  /\ Between /\ Event
  /\ gbaSaveType' = SaveTypeNow
  /\ saveType' = 0 /\ cpuSaveGameFunc' = FuncAtReset
  /\ rtcReset /\ eepromReset /\ flashReset
  /\ systemSaveUpdateCounter' = SYSTEM_SAVE_NOT_UPDATED
  /\ GameAtReset
  /\ UNCHANGED <<flashSize, flashDeviceID, flashSaveMemory, eepromBuffer, eepromData,
                 now, chip, cpuSaveType, file, state, expected, saved, used>>

CPUWriteState ==
  /\ Between /\ Event
  /\ state' = <<flashSaveGame, eepromSaveGame, rtcSaveGame, saveType, gameVars>>
  /\ UNCHANGED <<flashVars, eepromVars, rtcVars, now, systemSaveUpdateCounter, chip,
                 cpuSaveType, typeVars, file, gameVars, saved, used>>

GameAtState(s) ==
  order' = s[1] /\ done' = s[2] /\ got' = s[3] /\ bank' = s[4] /\ expected' = s[5]

\* The save type is found from the state, and the battery file has to wait for
\* the next write.
CPUReadState ==
  /\ Between /\ Event /\ state # <<>>
  /\ flashReadGame(state[1]) /\ eepromReadGame(state[2]) /\ rtcReadGame(state[3])
  /\ saveType' = state[4] /\ GameAtState(state[5])
  /\ cpuSaveGameFunc' = CASE saveType' = 0 -> "flashSaveDecide"
                          [] saveType' = 1 -> "sramWrite"
                          [] saveType' = 2 -> "flashWrite"
  /\ gbaSaveType' = IF eepromInUse' THEN 3 ELSE saveType'
  /\ systemSaveUpdateCounter' = SYSTEM_SAVE_NOT_UPDATED
  /\ used' = (gbaSaveType' # 0)
  /\ UNCHANGED <<now, chip, cpuSaveType, file, state, saved>>

\* The program starts: the chips are set up, and the battery file is read.
CPUReadBatteryFile ==
  /\ flashSetSize(IF file'.kind = "flash" THEN file'.size ELSE FlashBanks)
  /\ flashSaveMemory' =
       IF file'.kind = "flash" THEN file'.holds ELSE [c \in Array |-> 0]
  /\ eepromData' =
       IF file'.kind = "eeprom" THEN file'.holds ELSE [c \in Blocks |-> Zeros]
Start ==
  /\ rtcReset /\ eepromReset /\ flashReset /\ eepromBuffer' = <<>>
  /\ saveType' = 0 /\ gbaSaveType' = 0 /\ cpuSaveGameFunc' = FuncAtReset
  /\ CPUReadBatteryFile
  /\ systemSaveUpdateCounter' = SYSTEM_SAVE_NOT_UPDATED
  /\ GameAtReset /\ expected' = saved' /\ used' = FALSE
  /\ UNCHANGED <<now, chip, cpuSaveType, state>>

\* The program ends, on purpose or not, and is started again.
Quit ==
  /\ Between /\ Event
  /\ file' = FileNow /\ saved' = SavedNow
  /\ Start
Crash == Event /\ UNCHANGED <<file, saved>> /\ Start

Init ==
  /\ chip \in Chips /\ cpuSaveType \in SaveTypes
  /\ <<cpuSaveType, TypeOfChip>> \in {0} \X (0 .. 3) \cup {<<1, 3>>, <<2, 1>>, <<3, 2>>}
  /\ file = NoFile /\ state = <<>>
  /\ flashState = "READ_ARRAY" /\ flashReadState = "READ_ARRAY" /\ flashBank = 0
  /\ flashSize = FlashBanks /\ flashDeviceID = FlashBanks /\ flashSaveMemory = [c \in Array |-> 0]
  /\ eepromMode = "IDLE" /\ eepromBits = 0 /\ eepromBuffer = <<>>
  /\ eepromAddress = FirstBlock /\ eepromInUse = FALSE /\ eepromSize = SmallSize
  /\ eepromData = [c \in Blocks |-> Zeros]
  /\ byte0 = 0 /\ byte1 = 0 /\ byte2 = 0 /\ now = 0
  /\ rtcState = "IDLE" /\ rtcBits = 0 /\ rtcCommand = <<>> /\ rtcData = <<>>
  /\ saveType = 0 /\ gbaSaveType = 0 /\ cpuSaveGameFunc = FuncAtReset
  /\ systemSaveUpdateCounter = SYSTEM_SAVE_NOT_UPDATED
  /\ order = NoOrder /\ done = 0 /\ got = <<>> /\ bank = 0
  /\ expected = Blank /\ saved = Blank /\ used = FALSE
  /\ orders = 0 /\ events = 0

Next == \/ Begin \/ Go \/ systemFrame \/ Tick \/ CPUReset \/ CPUWriteState
        \/ CPUReadState \/ Quit \/ Crash
Spec == Init /\ [][Next]_vars

\* The game goes on, as the emulated CPU does whatever the user does.
FairSpec == Spec /\ WF_vars(Go)

----------------------------------------------------------------------------
(* Properties                                                                 *)

\* The state is one the program can represent.
TypeOK ==
  /\ FlashTypeOK /\ EEpromTypeOK /\ RtcTypeOK
  /\ systemSaveUpdateCounter \in 0 .. SYSTEM_SAVE_UPDATED
  /\ chip \in Chips /\ cpuSaveType \in SaveTypes
  /\ saveType \in 0 .. 2 /\ gbaSaveType \in 0 .. 3
  /\ cpuSaveGameFunc \in {"flashSaveDecide", "sramWrite", "flashWrite"}
  /\ file.size \in {0, 1, 2, SmallSize, LargeSize}
  /\ bank \in Banks /\ used \in BOOLEAN

\* The chip holds what the orders of the game say and nothing else, whatever
\* the user does between two accesses: a command cut off by a reset has no
\* effect, neither at once nor on the next command; a loaded state goes on with
\* the command it was saved in; what was written to the battery file is back
\* when the program starts again, even after a crash (Flash.cpp:54,
\* EEprom.cpp:30, GBA.cpp:780, GBA.cpp:1341).
MemoryIsExpected == Memory = expected

\* What the game reads in one or many accesses is what it saved; the chip tells
\* its size; and the clock gives the bits of one moment between the order and
\* now (Flash.cpp:109, EEprom.cpp:74, RTC.cpp:175).
Answer(command, t) ==
  CASE command = GetControl -> Control [] command = GetDate -> DateAt[t]
    [] command = GetTime -> TimeAt[t]
ReadsAreRight ==
  Finished /\ got # <<>> =>
    CASE chip \in EEPROMs ->
           [i \in 1 .. DataBits |-> got[Dummies + i]] = expected[order.cell]
      [] chip = "RTC" -> got \in {Answer(order.cell, t) : t \in order.time .. now}
      [] chip \notin EEPROMs \cup {"RTC"} ->
           got = CASE order.kind = "read" -> <<expected[<<bank, order.cell>>]>>
                   [] order.kind = "identify" -> <<FlashBanks>>
                   [] OTHER -> <<255>>

WritesBattery == Quit \/ (systemFrame /\ systemSaveUpdateCounter' = 0)
SavesAll == WritesBattery /\ used => saved' = expected

\* When the battery file is written, at the end of the countdown or of the
\* program, it gets all that the game has saved (GBA.cpp:1083).  Not so for the
\* large EEPROM between a reset and the next access: see SizeIsRemembered.
QuitKeepsWhatIsSaved ==
  [][(chip = "EEPROM8K" => eepromSize = LargeSize) => SavesAll]_vars

\* The same for every chip: the save type is remembered on a reset (GBA.cpp:66).
SizeIsRemembered == [][SavesAll]_vars

\* A game never waits for ever for its chip: each order ends, or is cut off by
\* the user.  An erase is over when the game has seen that it is
\* (Flash.cpp:130), which a reset in between, or a loaded state, has to leave
\* possible.
OrdersEnd == ~Finished ~> Finished
=============================================================================
