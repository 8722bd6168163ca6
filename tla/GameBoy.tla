------------------------------ MODULE GameBoy ------------------------------
(* The clockwork of the Game Boy core, gb/GB.cpp: interrupts, screen timing,   *)
(* serial port, timer and the H-blank DMA.  One call of gbEmulate executes an  *)
(* instruction, or waits if the CPU is halted, and then lets the devices catch *)
(* up with the ticks that took.  The call is cut at its loops: pc names the    *)
(* part that runs next, and between two calls pc = "cpu".                      *)
(*                                                                             *)
(* Instructions are told apart by what they do to the clockwork.  What DIV,    *)
(* sound and drawing do with the ticks comes back to nothing else here.        *)
EXTENDS Integers, FiniteSets

CONSTANTS
  MODE_0, MODE_1, MODE_2, MODE_3,  \* GBLCD_MODE_n_CLOCK_TICKS
  LY_INCREMENT,     \* GBLY_INCREMENT_CLOCK_TICKS
  LastLineTicks,    \* how long LY shows the last line: 6
  Lines, LastLine,  \* the first line of the V-blank and the last: 144, 153
  LyModulus,        \* register_LY is a byte
  WaitTicks,        \* gbInterruptWait after a V-blank: 6
  SERIAL, SerialBits,  \* GBSERIAL_CLOCK_TICKS, the bits of a byte
  OffTicks,         \* how far a halted CPU goes with the LCD off: 100
  DmaTicks,         \* ticks for one block of a DMA: 8, ...
  OldDmaTicks,      \* ... or 231 for the first
  DMASpeedVersions, \* the values of gbDMASpeedVersion, which depends on the movie
  TimaModulus,      \* register_TIMA is a byte
  InstructionTicks, \* gbCycles
  Models,           \* the values of gbCgbMode
  Speeds,           \* the speeds: {1} or {1, 2}
  \* what the game writes: IE, IF, LCDC, STAT, LYC, TAC, TIMA, TMA, SC, HDMA5
  IeValues, IfValues, LcdcValues, StatValues, LycValues, Periods,
  TimaValues, ScValues, Blocks

VBlank == 0  Lcd == 1  Timer == 2  Serial == 3  Joypad == 4  \* bits of IF and IE
Interrupts == 0 .. 4
Sources == {"HBlank", "VBlank", "OAM", "LYC"}  \* bits of STAT that ask for Lcd

ASSUME TicksAssumption ==
  /\ {MODE_0, MODE_1, MODE_2, MODE_3, LY_INCREMENT, LastLineTicks, SERIAL,
      SerialBits, OffTicks, DmaTicks, OldDmaTicks, TimaModulus, LyModulus, WaitTicks}
       \subseteq Nat \ {0}
  /\ InstructionTicks \subseteq 1 .. LY_INCREMENT
  /\ Periods \subseteq Nat \ {0}
  /\ Speeds \subseteq {1, 2} /\ 1 \in Speeds
  /\ Lines \in Nat /\ LastLine \in Nat /\ 0 < Lines /\ Lines < LastLine
  /\ LastLine < LyModulus
  /\ DMASpeedVersions \subseteq {0, 1}
ASSUME ValuesAssumption ==
  /\ IeValues \subseteq SUBSET Interrupts /\ IfValues \subseteq SUBSET Interrupts
  /\ Models \subseteq BOOLEAN /\ LcdcValues \subseteq BOOLEAN
  /\ StatValues \subseteq SUBSET Sources /\ LycValues \subseteq 0 .. LyModulus - 1
  /\ TimaValues \subseteq 0 .. TimaModulus - 1 /\ ScValues \subseteq BOOLEAN
  /\ Blocks \subseteq Nat \ {0}

\* What is left of the V-blank when LY comes to its last line: 114, one line; and by
\* how much the time LY then stays 0 is longer (GB.cpp:3364).
LastLineOfVBlank == MODE_1 - LY_INCREMENT * (LastLine - Lines)
LineAfterVBlank == LY_INCREMENT * 2 - LastLineOfVBlank
ASSUME LastLineAssumption == LastLineOfVBlank \in LastLineTicks .. LY_INCREMENT

VARIABLES
  pc, clockTicks, newFrame, gbCgbMode,
  IFF, gbInterrupt, register_IF, register_IE, gbInterruptWait,
  gbSpeed,  \* 1, or 2 for the double speed
  lcdOn, gbLcdMode, gbLcdTicks, register_LY, gbLcdLYIncrementTicks,
  register_STAT, register_LYC,
  gbTimerOn, gbTimerTicks, gbTimerClockTicks, register_TIMA, register_TMA,
  gbSerialOn, internalClock, gbSerialTicks, gbSerialBits,
  gbHdmaOn, gbHdmaBytes, register_HDMA5,  \* the last two in blocks
  drawn     \* history: how many lines were drawn since the V-blank, or -1 if
            \* the LCD was switched, the machine reset, or one call ran over the
            \* end of the V-blank (RunsOverVBlank) in between

callVars == <<pc, clockTicks, newFrame, gbCgbMode>>
cpuVars == <<IFF, gbInterrupt, register_IF, register_IE, gbInterruptWait>>
lcdVars == <<lcdOn, gbLcdMode, gbLcdTicks, register_LY, gbLcdLYIncrementTicks>>
statVars == <<register_STAT, register_LYC>>
timerVars == <<gbTimerOn, gbTimerTicks, gbTimerClockTicks, register_TIMA, register_TMA>>
serialVars == <<gbSerialOn, internalClock, gbSerialTicks, gbSerialBits>>
hdmaVars == <<gbHdmaOn, gbHdmaBytes, register_HDMA5>>
vars == <<callVars, cpuVars, gbSpeed, lcdVars, statVars, timerVars, serialVars,
          hdmaVars, drawn>>

Lesser(S) == CHOOSE n \in S : \A k \in S : n <= k

-----------------------------------------------------------------------------
\* The start of a call: the frame's buttons, then an instruction or a wait.

\* The buttons are read at the start of a frame (if (newFrame)).
Frame ==
  /\ pc = "cpu" /\ newFrame
  /\ newFrame' = FALSE
  /\ \E pressed \in {{}, {Joypad}} : gbInterrupt' = gbInterrupt \cup pressed
  /\ UNCHANGED <<pc, clockTicks, gbCgbMode, IFF, register_IF, register_IE,
                 gbInterruptWait, gbSpeed, lcdVars, statVars, timerVars,
                 serialVars, hdmaVars, drawn>>

Execute ==
  /\ pc = "cpu" /\ ~newFrame /\ "HALT" \notin IFF
  /\ pc' = "tick"
  /\ UNCHANGED <<newFrame, gbCgbMode>>

InTime == clockTicks' \in InstructionTicks

\* A device the halted CPU waits for; sound may interrupt the wait at any time.
DeadlinesOfAny ==  \* mutant: the counter of the V-blank's lines outside the V-blank
  {IF lcdOn THEN gbLcdTicks ELSE OffTicks} \cup {gbLcdLYIncrementTicks}

Deadlines ==
  {IF lcdOn THEN gbLcdTicks ELSE OffTicks}
    \cup (IF gbLcdMode = 1 THEN {gbLcdLYIncrementTicks} ELSE {})
    \cup (IF gbSerialOn THEN {gbSerialTicks} ELSE {})
    \cup (IF gbTimerOn THEN {gbTimerTicks} ELSE {})

Halted ==
  /\ pc = "cpu" /\ ~newFrame /\ "HALT" \in IFF
  /\ pc' = "tick"
  /\ clockTicks' \in {Lesser(Deadlines)} \cup 1 .. Lesser(Deadlines)
  /\ UNCHANGED <<newFrame, gbCgbMode, cpuVars, gbSpeed, lcdVars, statVars,
                 timerVars, serialVars, hdmaVars, drawn>>

\* HALT with interrupts off and one waiting (IFF 0x100) only moves PC.
HALT ==
  /\ Execute /\ InTime
  /\ IFF' = IF "IME" \in IFF THEN IFF \cup {"HALT"}
            ELSE IF register_IE \cap register_IF # {} THEN IFF
            ELSE IFF \cup {"HALT", "IME"}
  /\ UNCHANGED <<gbInterrupt, register_IF, register_IE, gbInterruptWait, gbSpeed,
                 lcdVars, statVars, timerVars, serialVars, hdmaVars, drawn>>

\* EI, DI and RETI, and any instruction that leaves the clockwork alone.
SwitchInterrupts ==
  /\ Execute /\ InTime
  /\ IFF' \in {IFF \cup {"EI"}, IFF \ {"EI", "IME"}, IFF \cup {"IME"}, IFF}
  /\ UNCHANGED <<gbInterrupt, register_IF, register_IE, gbInterruptWait, gbSpeed,
                 lcdVars, statVars, timerVars, serialVars, hdmaVars, drawn>>

\* STOP after KEY1 was set: gbSpeedSwitch.
STOP ==
  /\ Execute /\ InTime
  /\ gbCgbMode /\ gbSpeed' \in Speeds \ {gbSpeed}
  /\ gbLcdTicks' = (gbLcdTicks * gbSpeed') \div gbSpeed
  /\ gbLcdLYIncrementTicks' = (gbLcdLYIncrementTicks * gbSpeed') \div gbSpeed
  /\ gbSerialTicks' = (gbSerialTicks * gbSpeed') \div gbSpeed
  /\ UNCHANGED <<cpuVars, lcdOn, gbLcdMode, register_LY, statVars, timerVars,
                 gbSerialOn, internalClock, gbSerialBits, hdmaVars, drawn>>

-----------------------------------------------------------------------------
\* Writes to the registers: gbWriteMemoryWrapped.

WriteIE ==
  /\ Execute /\ InTime
  /\ register_IE' \in IeValues
  /\ register_IF' = register_IF \cap register_IE'
  /\ UNCHANGED <<IFF, gbInterrupt, gbInterruptWait, gbSpeed, lcdVars, statVars,
                 timerVars, serialVars, hdmaVars, drawn>>

WriteIF ==
  /\ Execute /\ InTime
  /\ register_IF' \in IfValues
  /\ gbInterrupt' = register_IF'
  /\ UNCHANGED <<IFF, register_IE, gbInterruptWait, gbSpeed, lcdVars, statVars,
                 timerVars, serialVars, hdmaVars, drawn>>

WriteLCDC ==
  /\ Execute /\ InTime
  /\ lcdOn' \in LcdcValues
  /\ IF lcdOn' = lcdOn
       THEN UNCHANGED <<gbLcdMode, gbLcdTicks, register_LY, drawn>>
       ELSE /\ gbLcdTicks' = IF lcdOn' THEN MODE_1 * gbSpeed ELSE 0
            /\ gbLcdMode' = 0 /\ register_LY' = 0
            /\ drawn' = -1
  /\ UNCHANGED <<cpuVars, gbSpeed, gbLcdLYIncrementTicks, statVars, timerVars,
                 serialVars, hdmaVars>>

\* gbCompareLYToLYC: what a line asks for.
Compared(line, lyc) ==
  IF line = lyc /\ "LYC" \in register_STAT /\ Lcd \in register_IE THEN {Lcd} ELSE {}

\* A write to STAT raises the interrupt on the old model (GB bug from Devrs FAQ).
WriteSTAT ==
  /\ Execute /\ InTime
  /\ register_STAT' \in StatValues
  /\ gbInterrupt' = gbInterrupt \cup
       (IF ~gbCgbMode /\ lcdOn /\ gbLcdMode < 2 THEN {Lcd} ELSE {})
  /\ UNCHANGED <<IFF, register_IF, register_IE, gbInterruptWait, gbSpeed, lcdVars,
                 register_LYC, timerVars, serialVars, hdmaVars, drawn>>

WriteLYC ==
  /\ Execute /\ InTime
  /\ register_LYC' \in LycValues
  /\ gbInterrupt' = gbInterrupt \cup
       (IF lcdOn THEN Compared(register_LY, register_LYC') ELSE {})
  /\ UNCHANGED <<IFF, register_IF, register_IE, gbInterruptWait, gbSpeed, lcdVars,
                 register_STAT, timerVars, serialVars, hdmaVars, drawn>>

WriteTAC ==
  /\ Execute /\ InTime
  /\ gbTimerOn' \in BOOLEAN
  /\ gbTimerClockTicks' \in Periods /\ gbTimerTicks' = gbTimerClockTicks'
  /\ UNCHANGED <<cpuVars, gbSpeed, lcdVars, statVars, register_TIMA, register_TMA,
                 serialVars, hdmaVars, drawn>>

WriteTimer ==
  /\ Execute /\ InTime
  /\ \/ register_TIMA' \in TimaValues /\ UNCHANGED register_TMA
     \/ register_TMA' \in TimaValues /\ UNCHANGED register_TIMA
  /\ UNCHANGED <<cpuVars, gbSpeed, lcdVars, statVars, gbTimerOn, gbTimerTicks,
                 gbTimerClockTicks, serialVars, hdmaVars, drawn>>

WriteSC ==
  /\ Execute /\ InTime
  /\ gbSerialOn' \in ScValues /\ internalClock' \in ScValues
  /\ gbSerialTicks' = IF gbSerialOn' THEN SERIAL * gbSpeed ELSE gbSerialTicks
  /\ gbSerialBits' = 0
  /\ UNCHANGED <<cpuVars, gbSpeed, lcdVars, statVars, timerVars, hdmaVars, drawn>>

GoesOnInHBlank == TRUE  \* mutant: without a look at what is left
StillOn == gbHdmaBytes' > 0

\* How long a DMA of n blocks takes if it copies them at once.
GeneralDmaTicks(version, n) ==
  CASE version = 1 -> n * DmaTicks * gbSpeed
    [] version = 0 -> OldDmaTicks + (n - 1) * DmaTicks * gbSpeed

\* HDMA5: n blocks, one now and one in each H-blank, or all of them at once.
WriteHDMA5 ==
  /\ Execute /\ gbCgbMode
  /\ \E n \in Blocks, inHBlank \in BOOLEAN, t \in InstructionTicks,
        version \in DMASpeedVersions :
       /\ gbHdmaBytes' =
            IF ~gbHdmaOn /\ inHBlank /\ gbLcdMode = 0 THEN n - 1 ELSE n
       /\ register_HDMA5' = CASE inHBlank -> gbHdmaBytes' - 1
                             [] ~inHBlank -> IF gbHdmaOn THEN -1 ELSE register_HDMA5
       /\ gbHdmaOn' = (inHBlank /\ StillOn)
       /\ clockTicks' = IF gbHdmaOn \/ inHBlank THEN t ELSE t + GeneralDmaTicks(version, n)
  /\ UNCHANGED <<cpuVars, gbSpeed, lcdVars, statVars, timerVars, serialVars, drawn>>

-----------------------------------------------------------------------------
\* The devices catch up with clockTicks.

\* What the properties except: a call that is longer than the V-blank's last line takes
\* the V-blank to its end before LY comes to that line, or a line further than that.
RunsOverVBlank ==
  /\ lcdOn /\ gbLcdMode = 1
  /\ clockTicks + LastLineTicks > LastLineOfVBlank * gbSpeed
  /\ IF register_LY = 0 THEN clockTicks >= gbLcdTicks + LineAfterVBlank * gbSpeed
     ELSE register_LY < LastLine /\ gbLcdTicks - clockTicks < LastLineTicks

Tick ==
  /\ pc = "tick" /\ pc' = "ly"
  /\ drawn' = IF RunsOverVBlank THEN -1 ELSE drawn
  /\ gbLcdTicks' = IF lcdOn THEN gbLcdTicks - clockTicks ELSE gbLcdTicks
  /\ gbLcdLYIncrementTicks' = IF lcdOn /\ gbLcdMode = 1
       THEN gbLcdLYIncrementTicks - clockTicks ELSE gbLcdLYIncrementTicks
  /\ gbSerialTicks' = IF gbSerialOn /\ internalClock
       THEN gbSerialTicks - clockTicks ELSE gbSerialTicks
  /\ gbTimerTicks' = IF gbTimerOn THEN gbTimerTicks - clockTicks ELSE gbTimerTicks
  /\ UNCHANGED <<clockTicks, newFrame, gbCgbMode, cpuVars, gbSpeed, lcdOn, gbLcdMode,
                 register_LY, statVars, gbTimerOn, gbTimerClockTicks, register_TIMA,
                 register_TMA, gbSerialOn, internalClock, gbSerialBits, hdmaVars>>

LineIsDue == lcdOn /\ gbLcdMode = 1 /\ gbLcdLYIncrementTicks <= 0
ModeIsDue == lcdOn /\ gbLcdTicks <= 0
BitIsDue == gbSerialOn /\ internalClock /\ gbSerialTicks <= 0
CountIsDue == gbTimerOn /\ gbTimerTicks <= 0

\* The devices' turns: the V-blank's lines first, and never again in the same call.
Rest == pc = "lcd" \/ (pc = "ly" /\ ~LineIsDue)
LcdTurn == Rest /\ ModeIsDue /\ pc' = "lcd"
SerialTurn == Rest /\ ~ModeIsDue /\ BitIsDue /\ pc' = "lcd"
TimerTurn == Rest /\ ~ModeIsDue /\ ~BitIsDue /\ CountIsDue /\ pc' = "lcd"
AllDone == Rest /\ ~ModeIsDue /\ ~BitIsDue /\ ~CountIsDue

LineTicksUnscaled == LY_INCREMENT  \* mutant: gbSpeedSwitch leaves this one alone
LineTicks == LY_INCREMENT * gbSpeed

\* LY goes on counting during the V-blank, and shows the last line only briefly.
VBlankLine ==
  /\ pc = "ly" /\ LineIsDue
  /\ IF register_LY < LastLine
       THEN /\ register_LY' = register_LY + 1
            /\ gbLcdLYIncrementTicks' = IF register_LY' >= LastLine THEN LastLineTicks
                 ELSE gbLcdLYIncrementTicks + LineTicks
       ELSE /\ register_LY' = 0
            /\ gbLcdLYIncrementTicks' = LineTicks * 2
  /\ gbInterrupt' = gbInterrupt \cup Compared(register_LY', register_LYC)
  /\ UNCHANGED <<callVars, IFF, register_IF, register_IE, gbInterruptWait, gbSpeed,
                 lcdOn, gbLcdMode, gbLcdTicks, statVars, timerVars, serialVars,
                 hdmaVars, drawn>>

\* Only one LCD interrupt per line: none if the line has asked for one already.
Asked == "LYC" \in register_STAT /\ register_LY' = register_LYC
AskedByOAM ==
  IF ~Asked /\ "OAM" \in register_STAT /\ "HBlank" \notin register_STAT
    THEN {Lcd} ELSE {}

NextLineOfScreen == (register_LY + 1) % Lines  \* mutant: LY stays on the screen
NextLine == (register_LY + 1) % LyModulus

\* Mode 0 ends: the next line, or the V-blank.
HBlankEnds ==
  /\ LcdTurn /\ gbLcdMode = 0
  /\ register_LY' = NextLine
  /\ IF register_LY' = Lines
       THEN /\ gbLcdLYIncrementTicks' = gbLcdTicks + LineTicks
            /\ gbLcdTicks' = gbLcdTicks + MODE_1 * gbSpeed
            /\ gbLcdMode' = 1
            /\ gbInterrupt' = gbInterrupt \cup {VBlank}
                 \cup (IF "VBlank" \in register_STAT THEN {Lcd} ELSE {})
                 \cup Compared(register_LY', register_LYC)
            /\ gbInterruptWait' = WaitTicks
            /\ newFrame' = TRUE
            /\ drawn' = IF gbLcdTicks' < LastLineOfVBlank * gbSpeed THEN -1 ELSE 0
       ELSE /\ gbLcdTicks' = gbLcdTicks + MODE_2 * gbSpeed
            /\ gbLcdMode' = 2
            /\ gbInterrupt' = gbInterrupt \cup AskedByOAM
                 \cup Compared(register_LY', register_LYC)
            /\ UNCHANGED <<gbLcdLYIncrementTicks, gbInterruptWait, newFrame, drawn>>
  /\ UNCHANGED <<clockTicks, gbCgbMode, IFF, register_IF, register_IE, gbSpeed,
                 lcdOn, statVars, timerVars, serialVars, hdmaVars>>

VBlankEnds ==
  /\ LcdTurn /\ gbLcdMode = 1
  /\ gbLcdTicks' = gbLcdTicks + MODE_2 * gbSpeed
  /\ gbLcdMode' = 2
  /\ UNCHANGED register_LY
  /\ gbInterrupt' = gbInterrupt \cup AskedByOAM
  /\ UNCHANGED <<clockTicks, newFrame, gbCgbMode, IFF, register_IF, register_IE, gbInterruptWait, gbSpeed,
                 lcdOn, gbLcdLYIncrementTicks, statVars, timerVars, serialVars,
                 hdmaVars, drawn>>

OamEnds ==
  /\ LcdTurn /\ gbLcdMode = 2
  /\ gbLcdTicks' = gbLcdTicks + MODE_3 * gbSpeed
  /\ gbLcdMode' = 3
  /\ UNCHANGED <<clockTicks, newFrame, gbCgbMode, cpuVars, gbSpeed, lcdOn, register_LY,
                 gbLcdLYIncrementTicks, statVars, timerVars, serialVars, hdmaVars, drawn>>

\* Mode 3 ends: the line is drawn, and the H-blank DMA (gbDoHdma) copies a block.
DrawingEnds ==
  /\ LcdTurn /\ gbLcdMode = 3
  /\ gbLcdTicks' = gbLcdTicks + MODE_0 * gbSpeed
  /\ gbLcdMode' = 0
  /\ UNCHANGED register_LY
  /\ drawn' = IF register_LY < Lines /\ drawn >= 0 THEN drawn + 1 ELSE drawn
  /\ gbInterrupt' = gbInterrupt \cup
       (IF ~Asked /\ "HBlank" \in register_STAT THEN {Lcd} ELSE {})
  /\ IF gbHdmaOn
       THEN /\ gbHdmaBytes' = gbHdmaBytes - 1
            /\ register_HDMA5' = register_HDMA5 - 1
            /\ gbHdmaOn' = (register_HDMA5' # -1)
       ELSE UNCHANGED hdmaVars
  /\ UNCHANGED <<clockTicks, newFrame, gbCgbMode, IFF, register_IF, register_IE, gbInterruptWait, gbSpeed,
                 lcdOn, gbLcdLYIncrementTicks, statVars, timerVars, serialVars>>

\* A bit is shifted; after the last one the counters are reset and the loop goes on.
ShiftBit ==
  /\ SerialTurn
  /\ IF gbSerialBits + 1 = SerialBits
       THEN /\ gbSerialBits' = 1 /\ gbSerialTicks' = SERIAL * gbSpeed
            /\ gbSerialOn' = FALSE
            /\ gbInterrupt' = gbInterrupt \cup {Serial}
       ELSE /\ gbSerialBits' = gbSerialBits + 1
            /\ gbSerialTicks' = gbSerialTicks + SERIAL * gbSpeed
            /\ UNCHANGED <<gbSerialOn, gbInterrupt>>
  /\ UNCHANGED <<clockTicks, newFrame, gbCgbMode, IFF, register_IF, register_IE, gbInterruptWait, gbSpeed,
                 lcdVars, statVars, timerVars, internalClock, hdmaVars, drawn>>

Count ==
  /\ TimerTurn
  /\ IF register_TIMA + 1 = TimaModulus
       THEN /\ register_TIMA' = register_TMA
            /\ gbInterrupt' = gbInterrupt \cup {Timer}
       ELSE /\ register_TIMA' = register_TIMA + 1
            /\ UNCHANGED gbInterrupt
  /\ gbTimerTicks' = gbTimerTicks + gbTimerClockTicks
  /\ UNCHANGED <<clockTicks, newFrame, gbCgbMode, IFF, register_IF, register_IE, gbInterruptWait, gbSpeed,
                 lcdVars, statVars, gbTimerOn, gbTimerClockTicks, register_TMA,
                 serialVars, hdmaVars, drawn>>

-----------------------------------------------------------------------------
\* The end of a call.

Pending == gbInterrupt \cap register_IE

TakeAll ==  \* mutant: all requests are answered at once
  /\ gbInterrupt' = {}
  /\ register_IF' = gbInterrupt'
  /\ IFF' = IFF \ {"IME", "HALT"}
  /\ UNCHANGED gbInterruptWait

TakeHalted ==  \* mutant: the CPU stays halted
  /\ gbInterrupt' = gbInterrupt \ {Lesser(Pending)}
  /\ register_IF' = gbInterrupt'
  /\ IFF' = IFF \ {"IME"}
  /\ UNCHANGED gbInterruptWait

TakeAfterwards ==  \* mutant: IF is written before the request is taken
  /\ gbInterrupt' = gbInterrupt \ {Lesser(Pending)}
  /\ register_IF' = gbInterrupt
  /\ IFF' = IFF \ {"IME", "HALT"}
  /\ UNCHANGED gbInterruptWait

\* gbVblank_interrupt ... gbJoypad_interrupt: the first of the pending ones.
Take ==
  /\ gbInterrupt' = gbInterrupt \ {Lesser(Pending)}
  /\ register_IF' = gbInterrupt'
  /\ IFF' = IFF \ {"IME", "HALT"}
  /\ UNCHANGED gbInterruptWait

Interrupt ==
  /\ AllDone /\ pc' = "cpu" /\ clockTicks' = 0
  /\ \/ /\ "EI" \in IFF
        /\ IFF' = (IFF \ {"EI"}) \cup {"IME"}
        /\ gbInterruptWait' = 0
        /\ register_IF' = gbInterrupt /\ UNCHANGED gbInterrupt
     \/ /\ "EI" \notin IFF /\ gbInterruptWait = 0 /\ "IME" \in IFF /\ Pending # {}
        /\ Take
     \/ /\ "EI" \notin IFF /\ ~(gbInterruptWait = 0 /\ "IME" \in IFF /\ Pending # {})
        /\ gbInterruptWait' = IF gbInterrupt = {} THEN gbInterruptWait
             ELSE IF gbInterruptWait > clockTicks THEN gbInterruptWait - clockTicks
             ELSE 0
        /\ register_IF' = gbInterrupt
        /\ UNCHANGED <<IFF, gbInterrupt>>
  /\ UNCHANGED <<newFrame, gbCgbMode, register_IE, gbSpeed, lcdVars, statVars,
                 timerVars, serialVars, hdmaVars, drawn>>

-----------------------------------------------------------------------------
\* gbReset.  On the Color model it starts in the V-blank, in a line of its own.
Start(cgb) ==
  /\ IFF' = {} /\ gbInterrupt' = {VBlank} /\ register_IF' = {VBlank}
  /\ register_IE' = {} /\ gbInterruptWait' = 0 /\ gbSpeed' = 1
  /\ lcdOn' = TRUE /\ gbLcdMode' = (IF cgb THEN 1 ELSE 2) /\ gbLcdTicks' = MODE_2
  /\ register_LY' = (IF cgb THEN Lines ELSE 0) /\ gbLcdLYIncrementTicks' = 0
  /\ register_STAT' = {} /\ register_LYC' = 0
  /\ gbTimerOn' = FALSE /\ gbTimerTicks' = 0 /\ gbTimerClockTicks' = 0
  /\ register_TIMA' = 0 /\ register_TMA' = 0
  /\ gbSerialOn' = FALSE /\ gbSerialTicks' = 0 /\ gbSerialBits' = 0
  /\ gbHdmaOn' = (~cgb /\ gbHdmaOn) /\ register_HDMA5' = (IF cgb THEN -1 ELSE 0)
  /\ drawn' = -1

Reset ==
  /\ pc = "cpu"
  /\ Start(gbCgbMode)
  /\ UNCHANGED <<callVars, internalClock, gbHdmaBytes>>

Init ==
  /\ pc = "cpu" /\ clockTicks = 0 /\ newFrame = TRUE /\ gbCgbMode \in Models
  /\ IFF = {} /\ gbInterrupt = {VBlank} /\ register_IF = {VBlank}
  /\ register_IE = {} /\ gbInterruptWait = 0 /\ gbSpeed = 1
  /\ lcdOn = TRUE /\ gbLcdMode = (IF gbCgbMode THEN 1 ELSE 2) /\ gbLcdTicks = MODE_2
  /\ register_LY = (IF gbCgbMode THEN Lines ELSE 0) /\ gbLcdLYIncrementTicks = 0
  /\ register_STAT = {} /\ register_LYC = 0
  /\ gbTimerOn = FALSE /\ gbTimerTicks = 0 /\ gbTimerClockTicks = 0
  /\ register_TIMA = 0 /\ register_TMA = 0
  /\ gbSerialOn = FALSE /\ internalClock = FALSE
  /\ gbSerialTicks = 0 /\ gbSerialBits = 0
  /\ gbHdmaOn = FALSE /\ gbHdmaBytes = 0
  /\ register_HDMA5 = (IF gbCgbMode THEN -1 ELSE 0)
  /\ drawn = -1

Program ==
  \/ HALT \/ SwitchInterrupts \/ STOP
  \/ WriteIE \/ WriteIF \/ WriteLCDC \/ WriteSTAT \/ WriteLYC
  \/ WriteTAC \/ WriteTimer \/ WriteSC \/ WriteHDMA5

Devices ==
  \/ Tick \/ VBlankLine
  \/ HBlankEnds \/ VBlankEnds \/ OamEnds \/ DrawingEnds
  \/ ShiftBit \/ Count \/ Interrupt

gbEmulate == Frame \/ Halted \/ Program \/ Devices

Next == gbEmulate \/ Reset

Spec == Init /\ [][Next]_vars

\* The front end calls gbEmulate again and again.
FairSpec == Spec /\ WF_vars(gbEmulate)

-----------------------------------------------------------------------------
TypeOK ==
  /\ pc \in {"cpu", "tick", "ly", "lcd"}
  /\ clockTicks \in Int /\ newFrame \in BOOLEAN /\ gbCgbMode \in BOOLEAN
  /\ IFF \subseteq {"IME", "EI", "HALT"}
  /\ gbInterrupt \subseteq Interrupts /\ register_IF \subseteq Interrupts
  /\ register_IE \subseteq Interrupts /\ gbInterruptWait \in Nat
  /\ gbSpeed \in {1, 2}
  /\ lcdOn \in BOOLEAN /\ gbLcdMode \in 0 .. 3 /\ gbLcdTicks \in Int
  /\ register_LY \in 0 .. LyModulus - 1 /\ gbLcdLYIncrementTicks \in Int
  /\ register_STAT \subseteq Sources /\ register_LYC \in 0 .. LyModulus - 1
  /\ gbTimerOn \in BOOLEAN /\ gbTimerTicks \in Int /\ gbTimerClockTicks \in Nat
  /\ register_TIMA \in 0 .. TimaModulus - 1 /\ register_TMA \in 0 .. TimaModulus - 1
  /\ gbSerialOn \in BOOLEAN /\ internalClock \in BOOLEAN /\ gbSerialTicks \in Int
  /\ gbSerialBits \in Nat
  /\ gbHdmaOn \in BOOLEAN /\ gbHdmaBytes \in Int /\ register_HDMA5 \in Int
  /\ drawn \in Nat \cup {-1}

BetweenCalls == pc = "cpu"

\* A halted CPU can be interrupted: only an interrupt ends the wait (HALT, gbCodes.h).
HaltCanEnd == "HALT" \in IFF => "IME" \in IFF

\* A halted CPU waits for a time that is not over yet, whichever device was switched
\* on, off or to another speed before: otherwise no call would move the clocks
\* (clockTicks, GB.cpp:3257).
WaitIsPositive == BetweenCalls /\ "HALT" \in IFF => Lesser(Deadlines) > 0

\* Between calls IF shows the requests, the buttons of the new frame excepted,
\* although a write to IE clears bits of the one and not of the other (GB.cpp:1203).
IfShowsRequests ==
  BetweenCalls => gbInterrupt \in {register_IF, register_IF \cup {Joypad}}

\* Since the V-blank every line was drawn once: two counters move LY, one in and one
\* outside the V-blank, and they must hand over to each other at line 0 (GB.cpp:3344).
\* Excepted is the frame in which one call, so a general DMA (GB.cpp:1050), runs over
\* the V-blank's end (RunsOverVBlank): its line 0 is missed or LY counts on from it.
LinesInOrder ==
  BetweenCalls /\ lcdOn /\ drawn >= 0 =>
    drawn = CASE gbLcdMode = 1 -> 0
              [] gbLcdMode = 0 -> register_LY + 1
              [] OTHER -> register_LY

\* On the Color model HDMA5 shows what is left of an H-blank DMA, and that none is on
\* by its top bit, however the game stops, restarts or changes it (GB.cpp:1016).
HdmaCountsAgree ==
  gbCgbMode =>
    IF gbHdmaOn THEN gbHdmaBytes = register_HDMA5 + 1 /\ gbHdmaBytes > 0
                ELSE register_HDMA5 = -1

\* The machine withdraws a request only by taking it: one at a time, enabled, and with
\* interrupts off afterwards.
RequestsAreKept ==
  [][pc = "cpu" \/ gbInterrupt \subseteq gbInterrupt'
     \/ /\ gbInterrupt \ gbInterrupt' = {Lesser(Pending)}
        /\ "IME" \in IFF /\ IFF' \cap {"IME", "HALT"} = {}]_vars

\* While the LCD stays on and nobody resets the machine, frames go on.
FramesGoOn == <>[][~Reset]_vars /\ <>[]lcdOn => []<>newFrame

\* A halted CPU goes on after the V-blank, or when the timer runs over, if it asked to.
HaltEnds ==
  /\ "HALT" \in IFF /\ lcdOn /\ VBlank \in register_IE ~> "HALT" \notin IFF
  /\ "HALT" \in IFF /\ gbTimerOn /\ Timer \in register_IE ~> "HALT" \notin IFF
=============================================================================
