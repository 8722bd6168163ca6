--------------------------- MODULE GameBoyProofs ---------------------------
(* Proofs about the Game Boy's clockwork, for all timings and all values that *)
(* the game may write.                                                        *)
EXTENDS GameBoy, TLAPS

\* A set of times or requests that has a least element, as a fact about sets.
HasLesser(S) == \E n \in S : \A k \in S : n <= k

\* If there is a least element, Lesser is it.
LEMMA LesserIsLeast ==
  ASSUME NEW S, HasLesser(S)
  PROVE  Lesser(S) \in S /\ \A k \in S : Lesser(S) <= k
BY DEF Lesser, HasLesser

\* One number has a least element, and one more number leaves one.
LEMMA OneHasLesser == ASSUME NEW n \in Int PROVE HasLesser({n})
BY DEF HasLesser

LEMMA MoreHasLesser ==
  ASSUME NEW S \in SUBSET Int, NEW T \in SUBSET Int, NEW n \in Int,
         HasLesser(S), T \in {{}, {n}}
  PROVE  HasLesser(S \cup T)
<1>1. CASE T = {}
  <2>1. S \cup T = S
    BY <1>1
  <2> QED BY <2>1
<1>2. CASE T = {n}
  <2>1. PICK m \in S : \A k \in S : m <= k
    BY DEF HasLesser
  <2>2. CASE m <= n
    BY <1>2, <2>1, <2>2 DEF HasLesser
  <2>3. CASE n < m
    <3>1. \A k \in S \cup T : n <= k
      BY <1>2, <2>1, <2>3
    <3> QED BY <1>2, <3>1 DEF HasLesser
  <2> QED BY <2>1, <2>2, <2>3
<1> QED BY <1>1, <1>2

\* The device that a halted CPU waits for exists, and none is earlier.
LEMMA DeadlinesHaveLesser ==
  ASSUME TypeOK
  PROVE  /\ Deadlines \in SUBSET Int
         /\ Lesser(Deadlines) \in Deadlines
         /\ \A k \in Deadlines : Lesser(Deadlines) <= k
<1> DEFINE A == {IF lcdOn THEN gbLcdTicks ELSE OffTicks}
           B == IF gbLcdMode = 1 THEN {gbLcdLYIncrementTicks} ELSE {}
           C == IF gbSerialOn THEN {gbSerialTicks} ELSE {}
           D == IF gbTimerOn THEN {gbTimerTicks} ELSE {}
<1>1. /\ A \in SUBSET Int /\ B \in SUBSET Int /\ C \in SUBSET Int /\ D \in SUBSET Int
      /\ gbLcdLYIncrementTicks \in Int /\ gbSerialTicks \in Int /\ gbTimerTicks \in Int
      /\ B \in {{}, {gbLcdLYIncrementTicks}} /\ C \in {{}, {gbSerialTicks}}
      /\ D \in {{}, {gbTimerTicks}}
  BY TicksAssumption DEF TypeOK
<1>2. HasLesser(A)
  BY OneHasLesser, TicksAssumption DEF TypeOK
<1>3. HasLesser(A \cup B)
  <2> HIDE DEF A, B, C, D
  <2> QED BY <1>1, <1>2, MoreHasLesser
<1>4. HasLesser(A \cup B \cup C)
  <2> HIDE DEF A, B, C, D
  <2> QED BY <1>1, <1>3, MoreHasLesser
<1>5. HasLesser(A \cup B \cup C \cup D)
  <2> HIDE DEF A, B, C, D
  <2> QED BY <1>1, <1>4, MoreHasLesser
<1>6. Deadlines = A \cup B \cup C \cup D
  BY DEF Deadlines
<1> HIDE DEF A, B, C, D
<1> QED BY <1>1, <1>5, <1>6, LesserIsLeast

\* Of the pending interrupts one comes first.
LEMMA PendingHaveLesser ==
  ASSUME TypeOK, Pending # {}
  PROVE  Lesser(Pending) \in Pending
<1>1. Pending \subseteq 0 .. 4
  BY DEF TypeOK, Interrupts, Pending
<1>2. HasLesser(Pending)
  <2> HIDE DEF Pending
  <2>1. CASE 0 \in Pending  BY <1>1, <2>1 DEF HasLesser
  <2>2. CASE 0 \notin Pending /\ 1 \in Pending  BY <1>1, <2>2 DEF HasLesser
  <2>3. CASE 0 \notin Pending /\ 1 \notin Pending /\ 2 \in Pending
    BY <1>1, <2>3 DEF HasLesser
  <2>4. CASE 0 \notin Pending /\ 1 \notin Pending /\ 2 \notin Pending /\ 3 \in Pending
    BY <1>1, <2>4 DEF HasLesser
  <2>5. CASE 0 \notin Pending /\ 1 \notin Pending /\ 2 \notin Pending /\ 3 \notin Pending
    <3>1. PICK n \in Pending : TRUE
      OBVIOUS
    <3>2. \A k \in Pending : k = 4
      BY <1>1, <2>5
    <3> QED BY <3>1, <3>2 DEF HasLesser
  <2> QED BY <2>1, <2>2, <2>3, <2>4, <2>5
<1> QED BY <1>2, LesserIsLeast

-----------------------------------------------------------------------------
\* Types.

\* The counters stay numbers when the speed changes.
LEMMA ScaledIsInt ==
  ASSUME NEW n \in Int, NEW s \in {1, 2}, NEW t \in {1, 2}
  PROVE  n * s \in Int /\ (n * t) \div s \in Int
<1>1. CASE s = 1  BY <1>1
<1>2. CASE s = 2  BY <1>2
<1> QED BY <1>1, <1>2

\* What the devices and the program ask for are interrupts.
LEMMA RequestsAreInterrupts ==
  /\ VBlank \in Interrupts /\ Lcd \in Interrupts /\ Timer \in Interrupts
  /\ Serial \in Interrupts /\ Joypad \in Interrupts
  /\ AskedByOAM \subseteq Interrupts
  /\ \A line, lyc : Compared(line, lyc) \subseteq Interrupts
<1>1. /\ VBlank \in Interrupts /\ Lcd \in Interrupts /\ Timer \in Interrupts
      /\ Serial \in Interrupts /\ Joypad \in Interrupts
  BY DEF VBlank, Lcd, Timer, Serial, Joypad, Interrupts
<1>2. AskedByOAM \in {{}, {Lcd}}
  BY DEF AskedByOAM
<1>3. ASSUME NEW line, NEW lyc PROVE Compared(line, lyc) \in {{}, {Lcd}}
  BY DEF Compared
<1> QED BY <1>1, <1>2, <1>3

\* The start of a call keeps the types.
LEMMA FrameKeepsTypes ==
  ASSUME TypeOK, Frame \/ Halted \/ Reset
  PROVE  TypeOK'
<1>1. CASE Frame
  <2>1. PICK pressed \in {{}, {Joypad}} : gbInterrupt' = gbInterrupt \cup pressed
    BY <1>1 DEF Frame
  <2>2. gbInterrupt' \subseteq Interrupts
    BY <2>1, RequestsAreInterrupts DEF TypeOK
  <2>3. newFrame' = FALSE /\ UNCHANGED <<pc, clockTicks, gbCgbMode, IFF, register_IF,
          register_IE, gbInterruptWait, gbSpeed, lcdVars, statVars, timerVars,
          serialVars, hdmaVars, drawn>>
    BY <1>1 DEF Frame
  <2> QED BY <2>2, <2>3 DEF TypeOK, lcdVars, statVars, timerVars, serialVars, hdmaVars
<1>2. CASE Halted
  <2>1. clockTicks' \in Int
    BY <1>2, DeadlinesHaveLesser DEF Halted
  <2>2. pc' = "tick" /\ UNCHANGED <<newFrame, gbCgbMode, cpuVars, gbSpeed, lcdVars,
          statVars, timerVars, serialVars, hdmaVars, drawn>>
    BY <1>2 DEF Halted
  <2> QED BY <2>1, <2>2 DEF TypeOK, cpuVars, lcdVars, statVars, timerVars, serialVars, hdmaVars
<1>3. CASE Reset
  <2>1. /\ MODE_2 \in Int /\ Lines \in 0 .. LyModulus - 1 /\ 0 \in 0 .. LyModulus - 1
        /\ 0 \in 0 .. TimaModulus - 1
    BY TicksAssumption
  <2>2. gbLcdMode' \in 0 .. 3 /\ register_LY' \in 0 .. LyModulus - 1
    BY <1>3, <2>1 DEF Reset, Start
  <2>3. gbInterrupt' \subseteq Interrupts /\ register_IF' \subseteq Interrupts
    BY <1>3, RequestsAreInterrupts DEF Reset, Start
  <2>4. /\ gbLcdTicks' \in Int /\ register_LYC' \in 0 .. LyModulus - 1
        /\ register_TIMA' \in 0 .. TimaModulus - 1 /\ register_TMA' \in 0 .. TimaModulus - 1
    BY <1>3, <2>1 DEF Reset, Start
  <2>5. UNCHANGED <<callVars, internalClock, gbHdmaBytes>>
    BY <1>3 DEF Reset
  <2>6. /\ IFF' = {} /\ register_IE' = {} /\ gbInterruptWait' = 0 /\ gbSpeed' = 1
        /\ lcdOn' = TRUE /\ gbLcdLYIncrementTicks' = 0 /\ register_STAT' = {}
        /\ gbTimerOn' = FALSE /\ gbTimerTicks' = 0 /\ gbTimerClockTicks' = 0
        /\ gbSerialOn' = FALSE /\ gbSerialTicks' = 0 /\ gbSerialBits' = 0
        /\ gbHdmaOn' = (~gbCgbMode /\ gbHdmaOn) /\ register_HDMA5' \in {-1, 0} /\ drawn' = -1
    BY <1>3 DEF Reset, Start
  <2>7. /\ pc' \in {"cpu", "tick", "ly", "lcd"} /\ IFF' \subseteq {"IME", "EI", "HALT"}
        /\ register_IE' \subseteq Interrupts /\ register_STAT' \subseteq Sources
        /\ drawn' \in Nat \cup {-1} /\ gbSpeed' \in {1, 2}
    BY <2>5, <2>6 DEF TypeOK, callVars
  <2>8. /\ clockTicks' \in Int /\ gbInterruptWait' \in Nat /\ gbLcdLYIncrementTicks' \in Int
        /\ gbTimerTicks' \in Int /\ gbTimerClockTicks' \in Nat /\ gbSerialTicks' \in Int
        /\ gbSerialBits' \in Nat /\ gbHdmaBytes' \in Int /\ register_HDMA5' \in Int
    BY <2>5, <2>6 DEF TypeOK, callVars
  <2>9. /\ newFrame' \in BOOLEAN /\ gbCgbMode' \in BOOLEAN /\ lcdOn' \in BOOLEAN
        /\ gbTimerOn' \in BOOLEAN /\ gbSerialOn' \in BOOLEAN /\ internalClock' \in BOOLEAN
        /\ gbHdmaOn' \in BOOLEAN
    BY <2>5, <2>6 DEF TypeOK, callVars
  <2> QED BY <2>2, <2>3, <2>4, <2>7, <2>8, <2>9, Zenon DEF TypeOK
<1> QED BY <1>1, <1>2, <1>3

\* An instruction keeps the types.
LEMMA ProgramKeepsTypes ==
  ASSUME TypeOK, Program
  PROVE  TypeOK'
<1> USE TicksAssumption, ValuesAssumption
<1>0. /\ pc' = "tick" /\ newFrame' \in BOOLEAN /\ gbCgbMode' \in BOOLEAN
      /\ LY_INCREMENT \in Nat
      /\ InstructionTicks \subseteq Int
  BY DEF Program, HALT, SwitchInterrupts, STOP, WriteIE, WriteIF, WriteLCDC, WriteSTAT,
     WriteLYC, WriteTAC, WriteTimer, WriteSC, WriteHDMA5, Execute, TypeOK
<1>1. CASE HALT
  BY <1>0, <1>1 DEF HALT, InTime, TypeOK, lcdVars, statVars, timerVars, serialVars, hdmaVars
<1>2. CASE SwitchInterrupts
  BY <1>0, <1>2 DEF SwitchInterrupts, InTime, TypeOK, lcdVars, statVars, timerVars,
     serialVars, hdmaVars
<1>3. CASE STOP
  <2>1. gbSpeed \in {1, 2} /\ gbSpeed' \in {1, 2}
    BY <1>3 DEF STOP, TypeOK
  <2>2. gbLcdTicks' \in Int /\ gbLcdLYIncrementTicks' \in Int /\ gbSerialTicks' \in Int
    BY <1>3, <2>1, ScaledIsInt DEF STOP, TypeOK
  <2>3. /\ clockTicks' \in InstructionTicks
        /\ UNCHANGED <<cpuVars, lcdOn, gbLcdMode, register_LY, statVars, timerVars,
             gbSerialOn, internalClock, gbSerialBits, hdmaVars, drawn>>
    BY <1>3 DEF STOP, InTime
  <2> QED BY <1>0, <2>1, <2>2, <2>3 DEF TypeOK, cpuVars, statVars, timerVars, hdmaVars
<1>4. CASE WriteIE \/ WriteIF
  BY <1>0, <1>4 DEF WriteIE, WriteIF, InTime, TypeOK, lcdVars, statVars, timerVars,
     serialVars, hdmaVars
<1>5. CASE WriteLCDC
  BY <1>0, <1>5, ScaledIsInt DEF WriteLCDC, InTime, TypeOK, cpuVars, statVars, timerVars,
     serialVars, hdmaVars
<1>6. CASE WriteSTAT \/ WriteLYC
  <2>1. gbInterrupt' \subseteq Interrupts
    <3>1. CASE WriteSTAT
      <4>1. gbInterrupt' \in {gbInterrupt, gbInterrupt \cup {Lcd}}
        BY <3>1 DEF WriteSTAT
      <4> QED BY <4>1, RequestsAreInterrupts DEF TypeOK
    <3>2. CASE WriteLYC
      <4>1. \/ gbInterrupt' = gbInterrupt
            \/ gbInterrupt' = gbInterrupt \cup Compared(register_LY, register_LYC')
        BY <3>2 DEF WriteLYC
      <4> QED BY <4>1, RequestsAreInterrupts DEF TypeOK
    <3> QED BY <1>6, <3>1, <3>2
  <2>2. register_STAT' \subseteq Sources /\ register_LYC' \in 0 .. LyModulus - 1
    BY <1>6 DEF WriteSTAT, WriteLYC, TypeOK
  <2>3. clockTicks' \in Int /\ UNCHANGED <<IFF, register_IF, register_IE, gbInterruptWait,
          gbSpeed, lcdVars, timerVars, serialVars, hdmaVars, drawn>>
    BY <1>0, <1>6 DEF WriteSTAT, WriteLYC, InTime
  <2> QED BY <1>0, <2>1, <2>2, <2>3 DEF TypeOK, lcdVars, timerVars, serialVars, hdmaVars
<1>7. CASE WriteTAC \/ WriteTimer
  <2>1. /\ gbTimerOn' \in BOOLEAN /\ gbTimerTicks' \in Int /\ gbTimerClockTicks' \in Nat
        /\ register_TIMA' \in 0 .. TimaModulus - 1 /\ register_TMA' \in 0 .. TimaModulus - 1
    <3>1. CASE WriteTAC
      BY <3>1 DEF WriteTAC, TypeOK
    <3>2. CASE WriteTimer
      BY <3>2 DEF WriteTimer, TypeOK
    <3> QED BY <1>7, <3>1, <3>2
  <2>2. clockTicks' \in Int /\ UNCHANGED <<cpuVars, gbSpeed, lcdVars, statVars,
          serialVars, hdmaVars, drawn>>
    BY <1>0, <1>7 DEF WriteTAC, WriteTimer, InTime
  <2> QED BY <1>0, <2>1, <2>2 DEF TypeOK, cpuVars, lcdVars, statVars, serialVars, hdmaVars
<1>8. CASE WriteSC
  BY <1>0, <1>8, ScaledIsInt DEF WriteSC, InTime, TypeOK, cpuVars, lcdVars, statVars,
     timerVars, hdmaVars
<1>9. CASE WriteHDMA5
  <2>1. gbHdmaBytes' \in Int /\ register_HDMA5' \in Int /\ gbHdmaOn' \in BOOLEAN
    BY <1>9 DEF WriteHDMA5, TypeOK
  <2>2. clockTicks' \in Int
    <3>1. PICK n \in Blocks, t \in InstructionTicks, version \in DMASpeedVersions :
            clockTicks' \in {t, t + GeneralDmaTicks(version, n)}
      BY <1>9 DEF WriteHDMA5
    <3>2. n \in Int /\ t \in Int /\ DmaTicks \in Int /\ gbSpeed \in Int /\ OldDmaTicks \in Int
          /\ version \in {0, 1}
      BY <1>0, TicksAssumption DEF TypeOK
    <3>3. n * DmaTicks * gbSpeed \in Int /\ (n - 1) * DmaTicks * gbSpeed \in Int
      BY <3>2
    <3>4. GeneralDmaTicks(version, n) \in Int
      BY <3>2, <3>3 DEF GeneralDmaTicks
    <3> QED BY <3>1, <3>2, <3>4
  <2>3. UNCHANGED <<cpuVars, gbSpeed, lcdVars, statVars, timerVars, serialVars, drawn>>
    BY <1>9 DEF WriteHDMA5
  <2> QED BY <1>0, <2>1, <2>2, <2>3 DEF TypeOK, cpuVars, lcdVars, statVars, timerVars, serialVars
<1> QED BY <1>1, <1>2, <1>3, <1>4, <1>5, <1>6, <1>7, <1>8, <1>9 DEF Program

\* The devices keep the types.
LEMMA DevicesKeepTypes ==
  ASSUME TypeOK, Devices
  PROVE  TypeOK'
<1> USE TicksAssumption
<1>0. /\ \A n \in Int : n * gbSpeed \in Int
      /\ LY_INCREMENT * gbSpeed * 2 \in Int
  BY ScaledIsInt DEF TypeOK
<1>1. CASE Tick
  BY <1>1 DEF Tick, TypeOK, cpuVars, statVars, hdmaVars
<1>2. CASE VBlankLine
  BY <1>0, <1>2 DEF VBlankLine, LineTicks, Compared, TypeOK, Interrupts, Lcd, callVars, statVars,
     timerVars, serialVars, hdmaVars
<1>3. CASE HBlankEnds
  <2>1. NextLine \in 0 .. LyModulus - 1
    BY DEF NextLine, TypeOK
  <2>2. /\ gbLcdTicks' \in Int /\ gbLcdLYIncrementTicks' \in Int /\ gbLcdMode' \in 0 .. 3
        /\ gbInterruptWait' \in Nat /\ newFrame' \in BOOLEAN
        /\ drawn' \in Nat \cup {-1} /\ pc' = "lcd"
    <3>1. /\ MODE_1 * gbSpeed \in Int /\ MODE_2 * gbSpeed \in Int
          /\ LY_INCREMENT * gbSpeed \in Int /\ WaitTicks \in Nat
      BY <1>0
    <3>2. CASE register_LY' = Lines
      BY <1>3, <3>1, <3>2 DEF HBlankEnds, LineTicks, LcdTurn, TypeOK
    <3>3. CASE register_LY' # Lines
      BY <1>3, <3>1, <3>3 DEF HBlankEnds, LcdTurn, TypeOK
    <3> QED BY <3>2, <3>3
  <2>3. gbInterrupt' \subseteq Interrupts
    <3>1. CASE register_LY' = Lines
      <4>1. PICK s \in {{}, {Lcd}} :
              gbInterrupt' = gbInterrupt \cup {VBlank} \cup s
                \cup Compared(register_LY', register_LYC)
        BY <1>3, <3>1 DEF HBlankEnds
      <4> QED BY <4>1, RequestsAreInterrupts DEF TypeOK
    <3>2. CASE register_LY' # Lines
      <4>1. gbInterrupt' = gbInterrupt \cup AskedByOAM \cup Compared(register_LY', register_LYC)
        BY <1>3, <3>2 DEF HBlankEnds
      <4> QED BY <4>1, RequestsAreInterrupts DEF TypeOK
    <3> QED BY <3>1, <3>2
  <2>4. /\ register_LY' = NextLine
        /\ UNCHANGED <<clockTicks, gbCgbMode, IFF, register_IF, register_IE, gbSpeed,
                      lcdOn, statVars, timerVars, serialVars, hdmaVars>>
    BY <1>3 DEF HBlankEnds
  <2> QED BY <2>1, <2>2, <2>3, <2>4 DEF TypeOK, statVars, timerVars, serialVars, hdmaVars
<1>4. CASE VBlankEnds \/ OamEnds
  <2>1. gbInterrupt' \subseteq Interrupts
    BY <1>4, RequestsAreInterrupts DEF VBlankEnds, OamEnds, TypeOK, cpuVars
  <2>2. gbLcdTicks' \in Int /\ gbLcdMode' \in 0 .. 3 /\ pc' = "lcd"
    BY <1>0, <1>4 DEF VBlankEnds, OamEnds, LcdTurn, TypeOK
  <2>3. UNCHANGED <<clockTicks, newFrame, gbCgbMode, IFF, register_IF, register_IE,
          gbInterruptWait, gbSpeed, lcdOn, register_LY, gbLcdLYIncrementTicks, statVars,
          timerVars, serialVars, hdmaVars, drawn>>
    BY <1>4 DEF VBlankEnds, OamEnds, cpuVars
  <2> QED BY <2>1, <2>2, <2>3 DEF TypeOK, statVars, timerVars, serialVars, hdmaVars
<1>5. CASE DrawingEnds
  <2>1. /\ gbLcdTicks' \in Int /\ gbLcdMode' = 0 /\ drawn' \in Nat \cup {-1} /\ pc' = "lcd"
        /\ gbInterrupt' \subseteq Interrupts
    <3>1. PICK s \in {{}, {Lcd}} : gbInterrupt' = gbInterrupt \cup s
      BY <1>5 DEF DrawingEnds
    <3>2. gbInterrupt' \subseteq Interrupts
      BY <3>1, RequestsAreInterrupts DEF TypeOK
    <3> QED BY <1>0, <1>5, <3>2 DEF DrawingEnds, LcdTurn, TypeOK
  <2>2. gbHdmaOn' \in BOOLEAN /\ gbHdmaBytes' \in Int /\ register_HDMA5' \in Int
    <3>1. CASE gbHdmaOn
      <4>1. gbHdmaOn' \in BOOLEAN
        BY <1>5, <3>1, Zenon DEF DrawingEnds
      <4> QED BY <1>5, <3>1, <4>1 DEF DrawingEnds, TypeOK
    <3>2. CASE ~gbHdmaOn
      BY <1>5, <3>2 DEF DrawingEnds, TypeOK, hdmaVars
    <3> QED BY <3>1, <3>2
  <2>3. UNCHANGED <<clockTicks, newFrame, gbCgbMode, IFF, register_IF, register_IE,
          gbInterruptWait, gbSpeed, lcdOn, register_LY, gbLcdLYIncrementTicks, statVars,
          timerVars, serialVars>>
    BY <1>5 DEF DrawingEnds
  <2> QED BY <2>1, <2>2, <2>3 DEF TypeOK, statVars, timerVars, serialVars
<1>6. CASE ShiftBit \/ Count
  <2>1. gbInterrupt' \subseteq Interrupts /\ pc' = "lcd"
    <3>1. gbInterrupt' \in {gbInterrupt, gbInterrupt \cup {Serial}, gbInterrupt \cup {Timer}}
      BY <1>6 DEF ShiftBit, Count
    <3> QED BY <1>6, <3>1, RequestsAreInterrupts DEF ShiftBit, Count, SerialTurn, TimerTurn, TypeOK
  <2>2. /\ UNCHANGED <<clockTicks, newFrame, gbCgbMode, IFF, register_IF, register_IE,
          gbInterruptWait, gbSpeed, lcdVars, statVars, gbTimerOn, gbTimerClockTicks,
          register_TMA, internalClock, hdmaVars, drawn>>
    BY <1>6 DEF ShiftBit, Count, timerVars, serialVars
  <2>3. gbSerialOn' \in BOOLEAN /\ gbSerialTicks' \in Int /\ gbSerialBits' \in Nat
    <3>1. CASE ShiftBit
      <4>1. SERIAL * gbSpeed \in Int /\ gbSerialTicks + SERIAL * gbSpeed \in Int
        BY <1>0 DEF TypeOK
      <4>2. gbSerialBits' \in Nat
        BY <3>1 DEF ShiftBit, TypeOK
      <4>4. gbSerialOn' \in BOOLEAN
        BY <3>1, Zenon DEF ShiftBit, TypeOK
      <4>3. gbSerialTicks' \in {SERIAL * gbSpeed, gbSerialTicks + SERIAL * gbSpeed}
        BY <3>1 DEF ShiftBit
      <4> QED BY <4>1, <4>2, <4>3, <4>4
    <3>2. CASE Count
      BY <3>2 DEF Count, serialVars, TypeOK
    <3> QED BY <1>6, <3>1, <3>2
  <2>4. gbTimerTicks' \in Int /\ register_TIMA' \in 0 .. TimaModulus - 1
    BY <1>6 DEF ShiftBit, Count, timerVars, TypeOK
  <2> QED BY <2>1, <2>2, <2>3, <2>4 DEF TypeOK, lcdVars, statVars, hdmaVars
<1>7. CASE Interrupt
  <2>1. gbInterrupt' \subseteq Interrupts /\ register_IF' \subseteq Interrupts
    BY <1>7 DEF Interrupt, Take, TypeOK
  <2>2. IFF' \subseteq {"IME", "EI", "HALT"}
    BY <1>7 DEF Interrupt, Take, TypeOK
  <2>3. gbInterruptWait' \in Nat /\ pc' = "cpu" /\ clockTicks' \in Int
    BY <1>7 DEF Interrupt, Take, TypeOK
  <2>4. UNCHANGED <<newFrame, gbCgbMode, register_IE, gbSpeed, lcdVars, statVars, timerVars,
          serialVars, hdmaVars, drawn>>
    BY <1>7 DEF Interrupt
  <2> QED BY <2>1, <2>2, <2>3, <2>4 DEF TypeOK, lcdVars, statVars, timerVars, serialVars, hdmaVars
<1> QED BY <1>1, <1>2, <1>3, <1>4, <1>5, <1>6, <1>7 DEF Devices

\* Every state of the clockwork is well-typed.
THEOREM TypesAreKept == Spec => []TypeOK
<1>1. Init => TypeOK
  <2>1. /\ MODE_2 \in Int /\ Lines \in 0 .. LyModulus - 1 /\ 0 \in 0 .. LyModulus - 1
        /\ 0 \in 0 .. TimaModulus - 1
    BY TicksAssumption
  <2>2. Init => /\ gbLcdMode \in 0 .. 3 /\ register_LY \in 0 .. LyModulus - 1
                /\ gbCgbMode \in BOOLEAN
    BY <2>1, ValuesAssumption DEF Init
  <2>3. Init => gbInterrupt \subseteq Interrupts /\ register_IF \subseteq Interrupts
    BY RequestsAreInterrupts DEF Init
  <2>4. Init => gbLcdTicks \in Int /\ register_LYC \in 0 .. LyModulus - 1
                /\ register_TIMA \in 0 .. TimaModulus - 1 /\ register_TMA \in 0 .. TimaModulus - 1
    BY <2>1 DEF Init
  <2>5. Init => /\ pc = "cpu" /\ clockTicks = 0 /\ newFrame = TRUE
                /\ IFF = {} /\ register_IE = {} /\ gbInterruptWait = 0 /\ gbSpeed = 1
                /\ lcdOn = TRUE /\ gbLcdLYIncrementTicks = 0 /\ register_STAT = {}
                /\ gbTimerOn = FALSE /\ gbTimerTicks = 0 /\ gbTimerClockTicks = 0
                /\ gbSerialOn = FALSE /\ internalClock = FALSE
                /\ gbSerialTicks = 0 /\ gbSerialBits = 0
                /\ gbHdmaOn = FALSE /\ gbHdmaBytes = 0 /\ register_HDMA5 \in {-1, 0} /\ drawn = -1
    BY DEF Init
  <2>6. Init => /\ pc \in {"cpu", "tick", "ly", "lcd"} /\ IFF \subseteq {"IME", "EI", "HALT"}
                /\ register_IE \subseteq Interrupts /\ register_STAT \subseteq Sources
                /\ drawn \in Nat \cup {-1} /\ gbSpeed \in {1, 2}
    BY <2>5
  <2>7. Init => /\ clockTicks \in Int /\ gbInterruptWait \in Nat /\ gbLcdLYIncrementTicks \in Int
                /\ gbTimerTicks \in Int /\ gbTimerClockTicks \in Nat /\ gbSerialTicks \in Int
                /\ gbSerialBits \in Nat /\ gbHdmaBytes \in Int /\ register_HDMA5 \in Int
    BY <2>5
  <2>8. Init => /\ newFrame \in BOOLEAN /\ lcdOn \in BOOLEAN /\ gbTimerOn \in BOOLEAN
                /\ gbSerialOn \in BOOLEAN /\ internalClock \in BOOLEAN /\ gbHdmaOn \in BOOLEAN
    BY <2>5
  <2> QED BY <2>2, <2>3, <2>4, <2>6, <2>7, <2>8, Zenon DEF TypeOK
<1>2. TypeOK /\ [Next]_vars => TypeOK'
  <2>1. TypeOK /\ UNCHANGED vars => TypeOK'
    BY DEF TypeOK, vars, callVars, cpuVars, lcdVars, statVars, timerVars, serialVars, hdmaVars
  <2> QED BY <2>1, FrameKeepsTypes, ProgramKeepsTypes, DevicesKeepTypes DEF Next, gbEmulate
<1> QED BY <1>1, <1>2, PTL DEF Spec

-----------------------------------------------------------------------------
\* HALT, the DMA's counts, and the requests.

\* A halted CPU has interrupts on, so that one can end the wait.
THEOREM HaltedCpuCanGoOn == Spec => []HaltCanEnd
<1>1. Init => HaltCanEnd
  BY DEF Init, HaltCanEnd
<1>2. HaltCanEnd /\ [Next]_vars => HaltCanEnd'
  <2> SUFFICES ASSUME HaltCanEnd, [Next]_vars PROVE HaltCanEnd'
    OBVIOUS
  <2>1. CASE HALT
    BY <2>1 DEF HALT, HaltCanEnd
  <2>2. CASE SwitchInterrupts
    BY <2>2 DEF SwitchInterrupts, Execute, HaltCanEnd
  <2>3. CASE Interrupt
    BY <2>3 DEF Interrupt, Take, HaltCanEnd
  <2>4. CASE Reset
    BY <2>4 DEF Reset, Start, HaltCanEnd
  <2>5. CASE STOP \/ WriteIE \/ WriteIF \/ WriteLCDC \/ WriteSTAT \/ WriteLYC \/ WriteTAC
             \/ WriteTimer \/ WriteSC \/ WriteHDMA5 \/ Frame \/ Halted
    <3>1. IFF' = IFF
      BY <2>5 DEF STOP, WriteIE, WriteIF, WriteLCDC, WriteSTAT, WriteLYC, WriteTAC,
         WriteTimer, WriteSC, WriteHDMA5, Frame, Halted, cpuVars
    <3> QED BY <3>1 DEF HaltCanEnd
  <2>6. CASE Tick \/ VBlankLine \/ HBlankEnds \/ VBlankEnds \/ OamEnds \/ DrawingEnds
             \/ ShiftBit \/ Count \/ UNCHANGED vars
    <3>1. IFF' = IFF
      BY <2>6 DEF Tick, VBlankLine, HBlankEnds, VBlankEnds, OamEnds, DrawingEnds, ShiftBit,
         Count, vars, cpuVars
    <3> QED BY <3>1 DEF HaltCanEnd
  <2> QED BY <2>1, <2>2, <2>3, <2>4, <2>5, <2>6 DEF Next, gbEmulate, Program, Devices
<1> QED BY <1>1, <1>2, PTL DEF Spec

\* The two counts of an H-blank DMA agree, whenever the game stops or restarts it.
THEOREM HdmaCountsStayTogether == Spec => []HdmaCountsAgree
<1>0. [Next]_vars => gbCgbMode' = gbCgbMode
  BY DEF Next, gbEmulate, Program, Devices, Frame, Halted, HALT, SwitchInterrupts, STOP,
     WriteIE, WriteIF, WriteLCDC, WriteSTAT, WriteLYC, WriteTAC, WriteTimer, WriteSC,
     WriteHDMA5, Execute, Tick, VBlankLine, HBlankEnds, VBlankEnds, OamEnds, DrawingEnds,
     ShiftBit, Count, Interrupt, Reset, vars, callVars
<1>1. Init => HdmaCountsAgree
  BY DEF Init, HdmaCountsAgree
<1>2. TypeOK /\ HdmaCountsAgree /\ [Next]_vars => HdmaCountsAgree'
  <2> SUFFICES ASSUME TypeOK, HdmaCountsAgree, [Next]_vars, gbCgbMode, gbCgbMode'
               PROVE  HdmaCountsAgree'
    BY <1>0 DEF HdmaCountsAgree
  <2>1. CASE WriteHDMA5
    <3>1. PICK n \in Blocks, inHBlank \in BOOLEAN :
       /\ gbHdmaBytes' =
            IF ~gbHdmaOn /\ inHBlank /\ gbLcdMode = 0 THEN n - 1 ELSE n
       /\ register_HDMA5' = CASE inHBlank -> gbHdmaBytes' - 1
                             [] ~inHBlank -> IF gbHdmaOn THEN -1 ELSE register_HDMA5
       /\ gbHdmaOn' = (inHBlank /\ StillOn)
      BY <2>1 DEF WriteHDMA5
    <3>2. n \in Nat /\ n > 0
      BY ValuesAssumption
    <3>3. gbHdmaBytes' \in Int /\ gbHdmaBytes' >= 0
      BY <3>1, <3>2
    <3>4. CASE inHBlank
      <4>1. gbHdmaOn' = (gbHdmaBytes' > 0)
        BY <3>1, <3>4 DEF StillOn
      <4>5. register_HDMA5' = gbHdmaBytes' - 1
        BY <3>1, <3>4
      <4>2. gbHdmaOn' => gbHdmaBytes' > 0
        BY <4>1, Zenon
      <4>3. ~gbHdmaOn' => ~(gbHdmaBytes' > 0)
        BY <4>1, Zenon
      <4>4. /\ gbHdmaBytes' = register_HDMA5' + 1
            /\ gbHdmaBytes' <= 0 => register_HDMA5' = -1
        <5>1. \A b \in Nat : b = (b - 1) + 1 /\ (b <= 0 => b - 1 = -1)
          OBVIOUS
        <5>2. gbHdmaBytes' \in Nat
          BY <3>3
        <5>3. /\ gbHdmaBytes' = (gbHdmaBytes' - 1) + 1
              /\ gbHdmaBytes' <= 0 => gbHdmaBytes' - 1 = -1
          BY <5>1, <5>2, Zenon
        <5> QED BY <4>5, <5>3, Zenon
      <4>6. ~(gbHdmaBytes' > 0) => gbHdmaBytes' <= 0
        BY <3>3
      <4> QED BY <4>2, <4>3, <4>4, <4>6, Zenon DEF HdmaCountsAgree
    <3>5. CASE ~inHBlank
      <4>1. register_HDMA5' = -1 /\ gbHdmaOn' = FALSE
        BY <3>1, <3>5 DEF HdmaCountsAgree
      <4> QED BY <4>1 DEF HdmaCountsAgree
    <3> QED BY <3>4, <3>5
  <2>2. CASE DrawingEnds
    <3>1. CASE gbHdmaOn
      <4>1. /\ gbHdmaBytes' = gbHdmaBytes - 1 /\ register_HDMA5' = register_HDMA5 - 1
            /\ gbHdmaOn' = (register_HDMA5' # -1)
        BY <2>2, <3>1 DEF DrawingEnds
      <4>2. /\ gbHdmaBytes \in Int /\ register_HDMA5 \in Int
            /\ gbHdmaBytes = register_HDMA5 + 1 /\ gbHdmaBytes > 0
        BY <3>1 DEF TypeOK, HdmaCountsAgree
      <4>3. gbHdmaOn' => register_HDMA5' # -1
        BY <4>1, Zenon
      <4>5. /\ gbHdmaBytes' = register_HDMA5' + 1
            /\ register_HDMA5' # -1 => gbHdmaBytes' > 0
        BY <4>1, <4>2
      <4>4. ~gbHdmaOn' => register_HDMA5' = -1
        BY <4>1, Zenon
      <4> QED BY <4>3, <4>4, <4>5, Zenon DEF HdmaCountsAgree
    <3>2. CASE ~gbHdmaOn
      BY <2>2, <3>2 DEF DrawingEnds, hdmaVars, HdmaCountsAgree
    <3> QED BY <3>1, <3>2
  <2>3. CASE Reset
    BY <2>3 DEF Reset, Start, HdmaCountsAgree
  <2>4. CASE Frame \/ Halted \/ HALT \/ SwitchInterrupts \/ STOP \/ WriteIE \/ WriteIF
             \/ WriteLCDC \/ WriteSTAT \/ WriteLYC \/ WriteTAC \/ WriteTimer \/ WriteSC
    <3>1. UNCHANGED hdmaVars
      BY <2>4 DEF Frame, Halted, HALT, SwitchInterrupts, STOP, WriteIE, WriteIF, WriteLCDC,
         WriteSTAT, WriteLYC, WriteTAC, WriteTimer, WriteSC
    <3> QED BY <3>1 DEF hdmaVars, HdmaCountsAgree
  <2>5. CASE Tick \/ VBlankLine \/ HBlankEnds \/ VBlankEnds \/ OamEnds
             \/ ShiftBit \/ Count \/ Interrupt \/ UNCHANGED vars
    <3>1. UNCHANGED hdmaVars
      BY <2>5 DEF Tick, VBlankLine, HBlankEnds, VBlankEnds, OamEnds, ShiftBit, Count,
         Interrupt, vars
    <3> QED BY <3>1 DEF hdmaVars, HdmaCountsAgree
  <2> QED BY <2>1, <2>2, <2>3, <2>4, <2>5 DEF Next, gbEmulate, Program, Devices
<1> QED BY <1>1, <1>2, TypesAreKept, PTL DEF Spec

\* At the start of a frame nothing has been asked for since the last call ended.
IfIsExact == BetweenCalls /\ newFrame => register_IF = gbInterrupt

\* Between calls IF shows the requests, but for the buttons of the new frame.
THEOREM IfShowsWhatIsAsked == Spec => []IfShowsRequests
<1> DEFINE IInv == IfIsExact /\ IfShowsRequests
<1>1. Init => IInv
  BY DEF Init, IfIsExact, IfShowsRequests
<1>2. IInv /\ [Next]_vars => IInv'
  <2> SUFFICES ASSUME IInv, [Next]_vars PROVE IInv'
    OBVIOUS
  <2>1. CASE Frame
    <3>1. /\ gbInterrupt' \in {gbInterrupt, gbInterrupt \cup {Joypad}}
          /\ register_IF' = register_IF /\ register_IF = gbInterrupt /\ newFrame' = FALSE
      BY <2>1 DEF Frame, IfIsExact, BetweenCalls
    <3> QED BY <3>1 DEF IfIsExact, IfShowsRequests
  <2>2. CASE Interrupt
    <3>1. register_IF' = gbInterrupt'
      BY <2>2 DEF Interrupt, Take
    <3> QED BY <3>1 DEF IfIsExact, IfShowsRequests
  <2>3. CASE Reset
    BY <2>3 DEF Reset, Start, IfIsExact, IfShowsRequests
  <2>4. CASE Halted \/ Program
    <3>1. pc' = "tick"
      BY <2>4 DEF Halted, Program, HALT, SwitchInterrupts, STOP, WriteIE, WriteIF, WriteLCDC,
         WriteSTAT, WriteLYC, WriteTAC, WriteTimer, WriteSC, WriteHDMA5, Execute
    <3> QED BY <3>1 DEF IfIsExact, IfShowsRequests, BetweenCalls
  <2>5. CASE Tick \/ VBlankLine \/ HBlankEnds \/ VBlankEnds \/ OamEnds \/ DrawingEnds
             \/ ShiftBit \/ Count
    <3>1. pc' # "cpu"
      BY <2>5 DEF Tick, VBlankLine, HBlankEnds, VBlankEnds, OamEnds, DrawingEnds, ShiftBit,
         Count, LcdTurn, SerialTurn, TimerTurn, callVars
    <3> QED BY <3>1 DEF IfIsExact, IfShowsRequests, BetweenCalls
  <2>6. CASE UNCHANGED vars
    BY <2>6 DEF vars, callVars, cpuVars, IfIsExact, IfShowsRequests, BetweenCalls
  <2> QED BY <2>1, <2>2, <2>3, <2>4, <2>5, <2>6 DEF Next, gbEmulate, Devices
<1>3. IInv => IfShowsRequests
  OBVIOUS
<1> HIDE DEF IInv
<1> QED BY <1>1, <1>2, <1>3, PTL DEF Spec

\* The machine withdraws a request only by taking it.
THEOREM RequestsAreTakenOrKept == Spec => RequestsAreKept
<1> DEFINE Kept == pc = "cpu" \/ gbInterrupt \subseteq gbInterrupt'
                   \/ /\ gbInterrupt \ gbInterrupt' = {Lesser(Pending)}
                      /\ "IME" \in IFF /\ IFF' \cap {"IME", "HALT"} = {}
<1>1. TypeOK /\ [Next]_vars => [Kept]_vars
  <2> SUFFICES ASSUME TypeOK, Next, pc # "cpu" PROVE Kept
    OBVIOUS
  <2>1. ~(Frame \/ Halted \/ Program \/ Reset)
    BY DEF Frame, Halted, Reset, Program, HALT, SwitchInterrupts, STOP, WriteIE, WriteIF,
       WriteLCDC, WriteSTAT, WriteLYC, WriteTAC, WriteTimer, WriteSC, WriteHDMA5, Execute
  <2>2. CASE Tick \/ VBlankLine \/ HBlankEnds \/ VBlankEnds \/ OamEnds \/ DrawingEnds
             \/ ShiftBit \/ Count
    <3>1. gbInterrupt \subseteq gbInterrupt'
      BY <2>2 DEF Tick, VBlankLine, HBlankEnds, VBlankEnds, OamEnds, DrawingEnds, ShiftBit,
         Count, cpuVars
    <3> QED BY <3>1
  <2>3. CASE Interrupt
    <3>1. CASE UNCHANGED gbInterrupt
      BY <3>1
    <3>2. CASE "IME" \in IFF /\ Pending # {} /\ Take
      <4>1. Lesser(Pending) \in gbInterrupt
        BY <3>2, PendingHaveLesser DEF Pending
      <4>2. gbInterrupt \ gbInterrupt' = {Lesser(Pending)}
        BY <3>2, <4>1 DEF Take
      <4>3. IFF' \cap {"IME", "HALT"} = {}
        BY <3>2 DEF Take
      <4> QED BY <3>2, <4>2, <4>3
    <3> QED BY <2>3, <3>1, <3>2 DEF Interrupt
  <2> QED BY <2>1, <2>2, <2>3 DEF Next, gbEmulate, Devices
<1>2. Spec => [][Kept]_vars
  <2> HIDE DEF Kept
  <2> QED BY <1>1, TypesAreKept, PTL DEF Spec
<1> QED BY <1>2 DEF RequestsAreKept

-----------------------------------------------------------------------------
\* The wait of a halted CPU.  Between calls every counter that it may wait for is
\* ahead; during a call the LCD's is never further behind than one line, because
\* an instruction takes no longer and a wait ends with the first counter.
LcdIsAhead == lcdOn /\ pc = "cpu" => gbLcdTicks > 0
VBlankIsOn == gbLcdMode = 1 => lcdOn
SerialIsAhead == gbSerialOn => /\ internalClock /\ pc = "cpu" => gbSerialTicks > 0
                               /\ ~internalClock => gbSerialTicks = SERIAL * gbSpeed
TimerIsAhead == gbTimerOn => /\ gbTimerClockTicks > 0
                             /\ pc = "cpu" => gbTimerTicks > 0
LineIsAhead == "HALT" \in IFF /\ gbLcdMode = 1 /\ pc \in {"cpu", "lcd"} =>
                 gbLcdLYIncrementTicks > 0
LcdIsNear == "HALT" \in IFF /\ lcdOn =>
               /\ pc = "tick" => gbLcdTicks - clockTicks > -LY_INCREMENT
               /\ pc \in {"ly", "lcd"} => gbLcdTicks > -LY_INCREMENT
Ahead == /\ LcdIsAhead /\ VBlankIsOn /\ SerialIsAhead /\ TimerIsAhead /\ LineIsAhead
         /\ LcdIsNear

\* With every counter ahead, so is the first of them.
LEMMA WaitFollows ==
  ASSUME TypeOK, Ahead
  PROVE  WaitIsPositive
<1> SUFFICES ASSUME pc = "cpu", "HALT" \in IFF PROVE \A n \in Deadlines : n > 0
  BY DeadlinesHaveLesser DEF WaitIsPositive, BetweenCalls
<1>1. (IF lcdOn THEN gbLcdTicks ELSE OffTicks) > 0
  BY TicksAssumption DEF Ahead, LcdIsAhead
<1>2. gbLcdMode = 1 => gbLcdLYIncrementTicks > 0
  BY DEF Ahead, LineIsAhead
<1>3. gbSerialOn => gbSerialTicks > 0
  <2>1. SERIAL * gbSpeed > 0
    BY TicksAssumption DEF TypeOK
  <2> QED BY <2>1 DEF Ahead, SerialIsAhead, TypeOK
<1>4. gbTimerOn => gbTimerTicks > 0
  BY DEF Ahead, TimerIsAhead
<1> QED BY <1>1, <1>2, <1>3, <1>4 DEF Deadlines

\* At the start no counter is behind.
LEMMA AheadAtStart == Init => Ahead
BY TicksAssumption DEF Init, Ahead, LcdIsAhead, VBlankIsOn, SerialIsAhead, TimerIsAhead,
   LineIsAhead, LcdIsNear

\* The start of a call: an instruction, or the wait for the first counter.
LEMMA CallKeepsAhead ==
  ASSUME TypeOK, Ahead, Frame \/ Halted \/ Program \/ Reset
  PROVE  Ahead'
<1> USE TicksAssumption DEF Ahead
<1>1. CASE Frame
  BY <1>1 DEF Frame, LcdIsAhead, VBlankIsOn, SerialIsAhead, TimerIsAhead, LineIsAhead,
     LcdIsNear, lcdVars, timerVars, serialVars
<1>2. CASE Halted
  <2>1. lcdOn => clockTicks' <= gbLcdTicks
    <3>1. WaitIsPositive
      BY WaitFollows
    <3>2. Lesser(Deadlines) > 0 /\ Lesser(Deadlines) \in Int
      BY <1>2, <3>1, DeadlinesHaveLesser DEF Halted, WaitIsPositive, BetweenCalls
    <3>3. clockTicks' <= Lesser(Deadlines)
      BY <1>2, <3>2 DEF Halted
    <3>4. lcdOn => Lesser(Deadlines) <= gbLcdTicks
      BY DeadlinesHaveLesser DEF Deadlines
    <3>5. clockTicks' \in Int
      BY <1>2, <3>2 DEF Halted
    <3> QED BY <3>2, <3>3, <3>4, <3>5 DEF TypeOK
  <2>2. pc' = "tick" /\ UNCHANGED <<IFF, gbSpeed, lcdVars, timerVars, serialVars>>
    BY <1>2 DEF Halted, cpuVars
  <2>3. clockTicks' \in Int /\ gbLcdTicks \in Int
    BY <1>2, FrameKeepsTypes DEF TypeOK
  <2>4. LcdIsNear'
    BY <2>1, <2>2, <2>3 DEF LcdIsNear, lcdVars
  <2> QED BY <2>2, <2>4 DEF LcdIsAhead, VBlankIsOn, SerialIsAhead, TimerIsAhead, LineIsAhead,
        lcdVars, timerVars, serialVars
<1>3. CASE Program
  <2>1. pc = "cpu" /\ pc' = "tick" /\ "HALT" \notin IFF
    BY <1>3 DEF Program, HALT, SwitchInterrupts, STOP, WriteIE, WriteIF, WriteLCDC,
       WriteSTAT, WriteLYC, WriteTAC, WriteTimer, WriteSC, WriteHDMA5, Execute
  <2>2. LcdIsAhead' /\ LineIsAhead'
    BY <2>1 DEF LcdIsAhead, LineIsAhead
  <2>3. VBlankIsOn'
    <3>1. CASE WriteLCDC
      BY <3>1 DEF WriteLCDC, VBlankIsOn
    <3>2. CASE ~WriteLCDC
      <4>1. UNCHANGED <<lcdOn, gbLcdMode>>
        BY <1>3, <3>2 DEF Program, HALT, SwitchInterrupts, STOP, WriteIE, WriteIF, WriteSTAT,
           WriteLYC, WriteTAC, WriteTimer, WriteSC, WriteHDMA5, lcdVars
      <4> QED BY <4>1 DEF VBlankIsOn
    <3> QED BY <3>1, <3>2
  <2>4. SerialIsAhead'
    <3>1. CASE WriteSC
      BY <2>1, <3>1 DEF WriteSC, SerialIsAhead
    <3>2. CASE STOP
      <4>1. gbSpeed \in {1, 2} /\ gbSpeed' \in {1, 2} /\ SERIAL \in Int
        BY <3>2 DEF STOP, TypeOK
      <4>2. ((SERIAL * gbSpeed) * gbSpeed') \div gbSpeed = SERIAL * gbSpeed'
        <5>1. CASE gbSpeed = 1  BY <4>1, <5>1
        <5>2. CASE gbSpeed = 2  BY <4>1, <5>2
        <5> QED BY <4>1, <5>1, <5>2
      <4> QED BY <2>1, <3>2, <4>2 DEF STOP, SerialIsAhead
    <3>3. CASE ~WriteSC /\ ~STOP
      <4>1. UNCHANGED serialVars /\ UNCHANGED gbSpeed
        BY <1>3, <3>3 DEF Program, HALT, SwitchInterrupts, WriteIE, WriteIF, WriteSTAT,
           WriteLCDC, WriteLYC, WriteTAC, WriteTimer, WriteHDMA5
      <4> QED BY <2>1, <4>1 DEF SerialIsAhead, serialVars
    <3> QED BY <3>1, <3>2, <3>3
  <2>5. TimerIsAhead'
    <3>1. CASE WriteTAC
      BY <2>1, <3>1 DEF WriteTAC, TimerIsAhead
    <3>2. CASE ~WriteTAC
      <4>1. UNCHANGED <<gbTimerOn, gbTimerClockTicks>>
        BY <1>3, <3>2 DEF Program, HALT, SwitchInterrupts, STOP, WriteIE, WriteIF, WriteSTAT,
           WriteLCDC, WriteLYC, WriteTimer, WriteSC, WriteHDMA5, timerVars
      <4> QED BY <2>1, <4>1 DEF TimerIsAhead
    <3> QED BY <3>1, <3>2
  <2>6. LcdIsNear'
    <3>1. CASE HALT
      <4>1. /\ clockTicks' \in 1 .. LY_INCREMENT /\ UNCHANGED lcdVars
            /\ gbLcdTicks \in Int /\ LY_INCREMENT \in Int
        BY <3>1 DEF HALT, InTime, TypeOK
      <4>2. lcdOn => gbLcdTicks > 0
        BY <2>1 DEF LcdIsAhead
      <4>3. lcdOn' = lcdOn /\ gbLcdTicks' = gbLcdTicks
        BY <3>1 DEF HALT, lcdVars
      <4>4. lcdOn => gbLcdTicks - clockTicks' > -LY_INCREMENT
        <5>1. \A a, b, c \in Int : a > 0 /\ b <= c => a - b > -c
          OBVIOUS
        <5>2. clockTicks' \in Int /\ clockTicks' <= LY_INCREMENT
          BY <4>1
        <5> QED BY <4>1, <4>2, <5>1, <5>2
      <4> QED BY <2>1, <4>3, <4>4 DEF LcdIsNear
    <3>2. CASE ~HALT
      <4>1. "HALT" \notin IFF'
        BY <1>3, <2>1, <3>2 DEF Program, SwitchInterrupts, STOP, WriteIE, WriteIF, WriteLCDC,
           WriteSTAT, WriteLYC, WriteTAC, WriteTimer, WriteSC, WriteHDMA5, cpuVars
      <4> QED BY <4>1 DEF LcdIsNear
    <3> QED BY <3>1, <3>2
  <2> QED BY <2>2, <2>3, <2>4, <2>5, <2>6
<1>4. CASE Reset
  BY <1>4 DEF Reset, Start, LcdIsAhead, VBlankIsOn, SerialIsAhead, TimerIsAhead,
     LineIsAhead, LcdIsNear
<1> QED BY <1>1, <1>2, <1>3, <1>4

\* The devices: a counter that is not ahead has its turn before the call ends.
LEMMA DevicesKeepAhead ==
  ASSUME TypeOK, Ahead, Devices
  PROVE  Ahead'
<1> USE TicksAssumption DEF Ahead
<1>0. /\ LY_INCREMENT \in Nat /\ LY_INCREMENT * gbSpeed >= LY_INCREMENT
      /\ gbLcdTicks \in Int /\ gbLcdLYIncrementTicks \in Int
      /\ \A n \in {MODE_0, MODE_1, MODE_2, MODE_3} : n * gbSpeed \in Nat
  BY DEF TypeOK
<1>1. CASE Tick
  BY <1>1 DEF Tick, TypeOK, cpuVars, LcdIsAhead, VBlankIsOn, SerialIsAhead, TimerIsAhead,
     LineIsAhead, LcdIsNear
<1>2. CASE VBlankLine
  BY <1>2 DEF VBlankLine, callVars, timerVars, serialVars, LcdIsAhead, VBlankIsOn,
     SerialIsAhead, TimerIsAhead, LineIsAhead, LcdIsNear
<1>3. CASE HBlankEnds \/ VBlankEnds \/ OamEnds \/ DrawingEnds
  <2>1. /\ pc' = "lcd" /\ lcdOn /\ pc \in {"lcd", "ly"}
        /\ UNCHANGED <<IFF, gbSpeed, lcdOn, clockTicks, timerVars, serialVars>>
    BY <1>3 DEF HBlankEnds, VBlankEnds, OamEnds, DrawingEnds, LcdTurn, Rest, ModeIsDue, cpuVars
  <2>2. gbLcdTicks' \in Int /\ gbLcdTicks' >= gbLcdTicks
    BY <1>0, <1>3 DEF HBlankEnds, VBlankEnds, OamEnds, DrawingEnds
  <2>3. LcdIsNear'
    BY <1>0, <2>1, <2>2 DEF LcdIsNear
  <2>4. LineIsAhead'
    <3>1. CASE HBlankEnds /\ gbLcdMode' = 1
      <4>1. gbLcdLYIncrementTicks' = gbLcdTicks + LY_INCREMENT * gbSpeed
        BY <3>1 DEF HBlankEnds, LineTicks
      <4>2. LY_INCREMENT * gbSpeed \in Int
        BY <1>0 DEF TypeOK
      <4> QED BY <1>0, <2>1, <4>1, <4>2 DEF LineIsAhead, LcdIsNear
    <3>2. CASE ~(HBlankEnds /\ gbLcdMode' = 1)
      <4>1. gbLcdMode' # 1
        BY <1>3, <3>2 DEF VBlankEnds, OamEnds, DrawingEnds
      <4> QED BY <4>1 DEF LineIsAhead
    <3> QED BY <3>1, <3>2
  <2> QED BY <2>1, <2>3, <2>4 DEF LcdIsAhead, VBlankIsOn, SerialIsAhead, TimerIsAhead,
        timerVars, serialVars
<1>4. CASE ShiftBit \/ Count
  <2>1. /\ pc' = "lcd" /\ pc \in {"ly", "lcd"} /\ UNCHANGED <<IFF, clockTicks, gbSpeed, lcdVars>>
        /\ pc = "ly" => ~LineIsDue
    BY <1>4 DEF ShiftBit, Count, SerialTurn, TimerTurn, Rest
  <2>2. LcdIsAhead' /\ VBlankIsOn' /\ LcdIsNear'
    BY <2>1 DEF LcdIsAhead, VBlankIsOn, LcdIsNear, lcdVars
  <2>3. LineIsAhead'
    BY <1>0, <2>1 DEF LineIsAhead, LineIsDue, VBlankIsOn, lcdVars
  <2>4. SerialIsAhead'
    <3>1. CASE ShiftBit
      <4>1. internalClock /\ UNCHANGED internalClock
        BY <3>1 DEF ShiftBit, SerialTurn, BitIsDue
      <4> QED BY <2>1, <4>1 DEF SerialIsAhead
    <3>2. CASE Count
      BY <2>1, <3>2 DEF Count, serialVars, SerialIsAhead
    <3> QED BY <1>4, <3>1, <3>2
  <2>5. TimerIsAhead'
    BY <1>4, <2>1 DEF ShiftBit, Count, timerVars, TimerIsAhead
  <2> QED BY <2>2, <2>3, <2>4, <2>5
<1>5. CASE Interrupt
  <2>1. /\ pc' = "cpu" /\ IFF' \subseteq (IFF \cup {"IME"}) /\ pc \in {"ly", "lcd"}
        /\ (pc = "ly" => ~LineIsDue) /\ ~ModeIsDue /\ ~BitIsDue /\ ~CountIsDue
        /\ UNCHANGED <<gbSpeed, lcdVars, timerVars, serialVars>>
    BY <1>5 DEF Interrupt, Take, AllDone, Rest
  <2>2. LcdIsAhead' /\ VBlankIsOn' /\ LcdIsNear'
    BY <1>0, <2>1 DEF LcdIsAhead, VBlankIsOn, LcdIsNear, ModeIsDue, lcdVars
  <2>3. LineIsAhead'
    BY <1>0, <2>1 DEF LineIsAhead, LineIsDue, VBlankIsOn, lcdVars
  <2>4. SerialIsAhead' /\ TimerIsAhead'
    BY <2>1 DEF SerialIsAhead, TimerIsAhead, BitIsDue, CountIsDue, serialVars, timerVars, TypeOK
  <2> QED BY <2>2, <2>3, <2>4
<1> QED BY <1>1, <1>2, <1>3, <1>4, <1>5 DEF Devices

\* A halted CPU waits for a time that is not over yet.
THEOREM HaltedCpuWaits == Spec => []WaitIsPositive
<1>1. TypeOK /\ Ahead /\ [Next]_vars => Ahead'
  <2>1. Ahead /\ UNCHANGED vars => Ahead'
    BY DEF Ahead, LcdIsAhead, VBlankIsOn, SerialIsAhead, TimerIsAhead, LineIsAhead,
       LcdIsNear, vars, callVars, cpuVars, lcdVars, timerVars, serialVars
  <2> QED BY <2>1, CallKeepsAhead, DevicesKeepAhead DEF Next, gbEmulate
<1>2. TypeOK /\ Ahead => WaitIsPositive
  BY WaitFollows
<1> QED BY <1>1, <1>2, AheadAtStart, TypesAreKept, PTL DEF Spec
-----------------------------------------------------------------------------
\* The lines of a frame.  In the V-blank two counters run: gbLcdTicks to its end and
\* gbLcdLYIncrementTicks to the next line.  Their distance tells how many lines are
\* still to come, and LY must be back at 0 when the first of them is over.
LinesToCome ==
  IF register_LY = 0 THEN gbLcdLYIncrementTicks - gbLcdTicks >= LineAfterVBlank * gbSpeed
  ELSE IF register_LY = LastLine
    THEN gbLcdTicks - gbLcdLYIncrementTicks \in 0 .. LastLineOfVBlank * gbSpeed
  ELSE /\ register_LY \in Lines .. LastLine - 1
       /\ gbLcdTicks - gbLcdLYIncrementTicks =
            (MODE_1 - LY_INCREMENT * (register_LY - Lines + 1)) * gbSpeed

ScreenIsOn == lcdOn /\ pc \in {"cpu", "tick"} => gbLcdTicks >= 0

\* Before the last line there is time left for it; within a call, for it to be shown.
\* After it, and once the lines that were due are counted, the next one is ahead.
LineIsNear ==
  /\ register_LY \in Lines .. LastLine - 1 =>
       gbLcdTicks >= IF pc = "ly" THEN LastLineTicks ELSE LastLineOfVBlank * gbSpeed
  /\ pc = "lcd" /\ register_LY = LastLine => gbLcdLYIncrementTicks > 0
  /\ pc \in {"ly", "lcd"} /\ register_LY = 0 => gbLcdLYIncrementTicks > 0

LinesInv ==
  /\ ScreenIsOn
  /\ drawn >= 0 =>
       /\ lcdOn
       /\ IF gbLcdMode = 1 THEN drawn = 0 /\ LinesToCome /\ LineIsNear
            ELSE /\ register_LY < Lines
                 /\ drawn = IF gbLcdMode = 0 THEN register_LY + 1 ELSE register_LY

\* Another speed scales both counters, and so their distance.
LEMMA ScaledIsNat ==
  ASSUME NEW t \in Nat, NEW s \in {1, 2}, NEW r \in {1, 2}
  PROVE  (t * r) \div s \in Nat
<1>1. CASE s = 1  BY <1>1
<1>2. CASE s = 2  BY <1>2
<1> QED BY <1>1, <1>2

LEMMA ScaledDistance ==
  ASSUME NEW t \in Int, NEW i \in Int, NEW d \in Int, NEW s \in {1, 2}, NEW r \in {1, 2}
  PROVE  /\ t - i = d * s  => (t * r) \div s - (i * r) \div s = d * r
         /\ t - i <= d * s => (t * r) \div s - (i * r) \div s <= d * r
         /\ t - i >= d * s => (t * r) \div s - (i * r) \div s >= d * r
<1>1. CASE s = 1 /\ r = 1  BY <1>1
<1>2. CASE s = 1 /\ r = 2  BY <1>2
<1>3. CASE s = 2 /\ r = 1  BY <1>3
<1>4. CASE s = 2 /\ r = 2  BY <1>4
<1> QED BY <1>1, <1>2, <1>3, <1>4

\* The numbers of one speed.
LEMMA LineNumbers ==
  ASSUME TypeOK
  PROVE  /\ LastLineOfVBlank \in Int /\ LineAfterVBlank \in Int
         /\ LY_INCREMENT * gbSpeed \in Int /\ LastLineTicks \in Nat \ {0}
         /\ LastLineOfVBlank * gbSpeed \in Int /\ LineAfterVBlank * gbSpeed \in Int
         /\ LastLineTicks <= LastLineOfVBlank * gbSpeed
         /\ LineAfterVBlank * gbSpeed > 0 /\ LY_INCREMENT * gbSpeed > 0
         /\ LY_INCREMENT * gbSpeed * 2 - LastLineOfVBlank * gbSpeed = LineAfterVBlank * gbSpeed
         /\ LastLineOfVBlank * gbSpeed <= LineAfterVBlank * gbSpeed
         /\ \A k \in Int : (MODE_1 - LY_INCREMENT * k) * gbSpeed \in Int
<1>1. /\ LY_INCREMENT \in Nat \ {0} /\ MODE_1 \in Nat /\ LastLine - Lines \in Nat
      /\ LastLineTicks \in Nat \ {0} /\ gbSpeed \in {1, 2}
  BY TicksAssumption DEF TypeOK
<1>2. \A k \in Int : LY_INCREMENT * k \in Int
  BY <1>1
<1>3. LastLineOfVBlank \in Int
  BY <1>1, <1>2 DEF LastLineOfVBlank
<1>4. LineAfterVBlank = LY_INCREMENT * 2 - LastLineOfVBlank /\ LineAfterVBlank \in Int
  BY <1>1, <1>3 DEF LineAfterVBlank
<1>5. /\ LastLineTicks <= LastLineOfVBlank /\ LastLineOfVBlank <= LY_INCREMENT
      /\ LineAfterVBlank > 0 /\ LastLineOfVBlank <= LineAfterVBlank
  BY <1>1, <1>3, <1>4, LastLineAssumption
<1>6. \A k \in Int : (MODE_1 - LY_INCREMENT * k) * gbSpeed \in Int
  <2> SUFFICES ASSUME NEW k \in Int PROVE (MODE_1 - LY_INCREMENT * k) * gbSpeed \in Int
    OBVIOUS
  <2>1. MODE_1 - LY_INCREMENT * k \in Int
    BY <1>1, <1>2
  <2> QED BY <1>1, <2>1
<1>7. CASE gbSpeed = 1  BY <1>1, <1>3, <1>4, <1>5, <1>6, <1>7
<1>8. CASE gbSpeed = 2  BY <1>1, <1>3, <1>4, <1>5, <1>6, <1>8
<1> QED BY <1>1, <1>7, <1>8

\* At the start no frame is counted yet.
LEMMA LinesAtStart == Init => LinesInv
BY TicksAssumption DEF Init, LinesInv, ScreenIsOn

\* What comes before the ticks are subtracted moves no counter, but STOP scales both,
\* and a switch of the LCD starts a frame that is not counted.
LEMMA CallKeepsLines ==
  ASSUME TypeOK, LinesInv, Frame \/ Halted \/ Program
  PROVE  LinesInv'
<1>1. pc = "cpu" /\ pc' \in {"cpu", "tick"}
  BY DEF Frame, Halted, Program, HALT, SwitchInterrupts, STOP, WriteIE, WriteIF, WriteLCDC,
     WriteSTAT, WriteLYC, WriteTAC, WriteTimer, WriteSC, WriteHDMA5, Execute
<1>2. CASE STOP
  <2>1. /\ gbSpeed \in {1, 2} /\ gbSpeed' \in {1, 2}
        /\ gbLcdTicks' = (gbLcdTicks * gbSpeed') \div gbSpeed
        /\ gbLcdLYIncrementTicks' = (gbLcdLYIncrementTicks * gbSpeed') \div gbSpeed
        /\ UNCHANGED <<lcdOn, gbLcdMode, register_LY, drawn>>
    BY <1>2, TicksAssumption DEF STOP, TypeOK
  <2>2. lcdOn => gbLcdTicks \in Nat /\ gbLcdTicks' \in Nat
    <3>1. lcdOn => gbLcdTicks \in Nat
      BY <1>1 DEF LinesInv, ScreenIsOn, TypeOK
    <3>2. gbLcdTicks \in Nat => (gbLcdTicks * gbSpeed') \div gbSpeed \in Nat
      BY <2>1, ScaledIsNat
    <3> QED BY <2>1, <3>1, <3>2
  <2>3. ScreenIsOn'
    BY <1>1, <2>1, <2>2 DEF ScreenIsOn
  <2>4. CASE ~(drawn >= 0 /\ gbLcdMode = 1)
    BY <2>1, <2>3, <2>4 DEF LinesInv
  <2>5. CASE drawn >= 0 /\ gbLcdMode = 1
    <3> DEFINE k == MODE_1 - LY_INCREMENT * (register_LY - Lines + 1)
    <3>1. /\ k \in Int /\ LastLineOfVBlank \in Int /\ LineAfterVBlank \in Int
          /\ register_LY \in Int /\ -LineAfterVBlank \in Int /\ 0 \in Int
      <4>1. MODE_1 \in Int /\ LY_INCREMENT \in Int /\ Lines \in Int /\ register_LY \in Int
        BY TicksAssumption DEF TypeOK
      <4>2. LY_INCREMENT * (register_LY - Lines + 1) \in Int
        BY <4>1
      <4> QED BY <4>1, <4>2, LineNumbers
    <3> HIDE DEF k
    <3>2. gbLcdLYIncrementTicks \in Int /\ gbLcdLYIncrementTicks' \in Int
      BY <2>1, ScaledIsInt DEF TypeOK
    <3>3. ASSUME NEW d \in Int
          PROVE  /\ gbLcdTicks - gbLcdLYIncrementTicks = d * gbSpeed
                      => gbLcdTicks' - gbLcdLYIncrementTicks' = d * gbSpeed'
                 /\ gbLcdTicks - gbLcdLYIncrementTicks <= d * gbSpeed
                      => gbLcdTicks' - gbLcdLYIncrementTicks' <= d * gbSpeed'
                 /\ gbLcdTicks - gbLcdLYIncrementTicks >= d * gbSpeed
                      => gbLcdTicks' - gbLcdLYIncrementTicks' >= d * gbSpeed'
      <4>1. gbLcdTicks \in Int
        BY DEF TypeOK
      <4>2. ASSUME NEW t \in Int, NEW i \in Int, NEW s \in {1, 2}, NEW r \in {1, 2}
            PROVE  /\ t - i = d * s  => (t * r) \div s - (i * r) \div s = d * r
                   /\ t - i <= d * s => (t * r) \div s - (i * r) \div s <= d * r
                   /\ t - i >= d * s => (t * r) \div s - (i * r) \div s >= d * r
        BY ScaledDistance
      <4>3. /\ gbLcdTicks - gbLcdLYIncrementTicks = d * gbSpeed
                 => (gbLcdTicks * gbSpeed') \div gbSpeed
                      - (gbLcdLYIncrementTicks * gbSpeed') \div gbSpeed = d * gbSpeed'
            /\ gbLcdTicks - gbLcdLYIncrementTicks <= d * gbSpeed
                 => (gbLcdTicks * gbSpeed') \div gbSpeed
                      - (gbLcdLYIncrementTicks * gbSpeed') \div gbSpeed <= d * gbSpeed'
            /\ gbLcdTicks - gbLcdLYIncrementTicks >= d * gbSpeed
                 => (gbLcdTicks * gbSpeed') \div gbSpeed
                      - (gbLcdLYIncrementTicks * gbSpeed') \div gbSpeed >= d * gbSpeed'
        BY <2>1, <3>2, <4>1, <4>2
      <4> QED BY <2>1, <4>3, Zenon
    <3>4. LinesToCome /\ LineIsNear /\ drawn = 0 /\ lcdOn
      BY <2>5 DEF LinesInv
    <3>5. LinesToCome'
      <4>1. CASE register_LY = 0
        <5>1. gbLcdTicks - gbLcdLYIncrementTicks <= (-LineAfterVBlank) * gbSpeed
          BY <2>1, <2>2, <3>1, <3>2, <3>4, <4>1 DEF LinesToCome
        <5>2. gbLcdTicks' - gbLcdLYIncrementTicks' <= (-LineAfterVBlank) * gbSpeed'
          BY <3>1, <3>3, <5>1
        <5>3. gbLcdLYIncrementTicks' - gbLcdTicks' >= LineAfterVBlank * gbSpeed'
          BY <2>1, <2>2, <3>1, <3>2, <3>4, <5>2
        <5> QED BY <2>1, <4>1, <5>3 DEF LinesToCome
      <4>2. CASE register_LY # 0 /\ register_LY = LastLine
        <5>1. /\ gbLcdTicks - gbLcdLYIncrementTicks >= 0 * gbSpeed
              /\ gbLcdTicks - gbLcdLYIncrementTicks <= LastLineOfVBlank * gbSpeed
          BY <2>1, <2>2, <3>1, <3>2, <3>4, <4>2 DEF LinesToCome
        <5>2. /\ gbLcdTicks' - gbLcdLYIncrementTicks' >= 0 * gbSpeed'
              /\ gbLcdTicks' - gbLcdLYIncrementTicks' <= LastLineOfVBlank * gbSpeed'
          BY <3>1, <3>3, <5>1
        <5>3. gbLcdTicks' - gbLcdLYIncrementTicks' \in 0 .. LastLineOfVBlank * gbSpeed'
          BY <2>1, <2>2, <3>1, <3>2, <3>4, <5>2
        <5> QED BY <2>1, <4>2, <5>3 DEF LinesToCome
      <4>3. CASE register_LY # 0 /\ register_LY # LastLine
        <5>1. register_LY \in Lines .. LastLine - 1 /\ gbLcdTicks - gbLcdLYIncrementTicks = k * gbSpeed
          BY <3>4, <4>3 DEF LinesToCome, k
        <5>2. gbLcdTicks' - gbLcdLYIncrementTicks' = k * gbSpeed'
          BY <3>1, <3>3, <5>1
        <5> QED BY <2>1, <4>3, <5>1, <5>2 DEF LinesToCome, k
      <4> QED BY <4>1, <4>2, <4>3
    <3>6. LineIsNear'
      <4>1. gbLcdTicks >= LastLineOfVBlank * gbSpeed
              => gbLcdTicks' >= LastLineOfVBlank * gbSpeed'
        <5>1. gbLcdTicks - 0 >= LastLineOfVBlank * gbSpeed
                => (gbLcdTicks * gbSpeed') \div gbSpeed - (0 * gbSpeed') \div gbSpeed
                     >= LastLineOfVBlank * gbSpeed'
          BY <2>1, <2>2, <3>1, <3>4, ScaledDistance
        <5>2. (0 * gbSpeed') \div gbSpeed = 0
          <6>1. \A s \in {1, 2}, r \in {1, 2} : (0 * r) \div s = 0
            OBVIOUS
          <6> QED BY <2>1, <6>1
        <5> QED BY <2>1, <2>2, <3>4, <5>1, <5>2
      <4> QED BY <1>1, <2>1, <3>4, <4>1 DEF LineIsNear
    <3> QED BY <2>1, <2>3, <2>5, <3>4, <3>5, <3>6 DEF LinesInv
  <2> QED BY <2>4, <2>5
<1>3. CASE WriteLCDC /\ lcdOn' # lcdOn
  <2>1. gbLcdTicks' \in {0, MODE_1 * gbSpeed} /\ MODE_1 * gbSpeed \in Nat
    BY <1>3, TicksAssumption DEF WriteLCDC, TypeOK
  <2>2. ScreenIsOn'
    BY <2>1 DEF ScreenIsOn
  <2> QED BY <1>3, <2>2 DEF WriteLCDC, LinesInv
<1>4. CASE ~STOP /\ ~(WriteLCDC /\ lcdOn' # lcdOn)
  <2>1. UNCHANGED <<lcdOn, gbLcdMode, gbLcdTicks, register_LY, gbLcdLYIncrementTicks, gbSpeed, drawn>>
    BY <1>4 DEF Frame, Halted, Program, HALT, SwitchInterrupts, WriteIE, WriteIF, WriteLCDC,
     WriteSTAT, WriteLYC, WriteTAC, WriteTimer, WriteSC, WriteHDMA5, lcdVars
  <2> QED BY <1>1, <2>1 DEF LinesInv, ScreenIsOn, LineIsNear, LinesToCome
<1> QED BY <1>2, <1>3, <1>4

\* The ticks of a call, however many, bring the V-blank to an end while LY shows its
\* last line or line 0, or they are a case that RunsOverVBlank excepts.
LEMMA TickKeepsLines ==
  ASSUME TypeOK, LinesInv, Tick
  PROVE  LinesInv'
<1> DEFINE C == LastLineOfVBlank * gbSpeed
           D == LineAfterVBlank * gbSpeed
<1>1. C \in Int /\ D \in Int /\ LastLineTicks \in Nat \ {0} /\ LastLineTicks <= C /\ C <= D
  BY LineNumbers
<1>2. /\ pc = "tick" /\ pc' = "ly"
      /\ UNCHANGED <<clockTicks, gbSpeed, lcdOn, gbLcdMode, register_LY>>
      /\ drawn' = IF RunsOverVBlank THEN -1 ELSE drawn
      /\ gbLcdTicks' = IF lcdOn THEN gbLcdTicks - clockTicks ELSE gbLcdTicks
      /\ gbLcdLYIncrementTicks' = IF lcdOn /\ gbLcdMode = 1
           THEN gbLcdLYIncrementTicks - clockTicks ELSE gbLcdLYIncrementTicks
  BY DEF Tick
<1>3. /\ clockTicks \in Int /\ gbLcdTicks \in Int /\ gbLcdLYIncrementTicks \in Int
      /\ register_LY \in Int /\ Lines \in Nat \ {0} /\ LastLine \in Nat /\ Lines < LastLine
  BY TicksAssumption DEF TypeOK
<1>4. ScreenIsOn'
  BY <1>2 DEF ScreenIsOn
<1>5. CASE ~(drawn' >= 0 /\ gbLcdMode = 1)
  BY <1>2, <1>4, <1>5 DEF LinesInv
<1>6. CASE drawn' >= 0 /\ gbLcdMode = 1
  <2>1. ~RunsOverVBlank /\ drawn' = drawn
    BY <1>2, <1>6
  <2>2. lcdOn /\ drawn = 0 /\ LinesToCome /\ LineIsNear /\ gbLcdTicks >= 0
    BY <1>2, <1>6, <2>1 DEF LinesInv, ScreenIsOn
  <2>3. /\ gbLcdLYIncrementTicks' = gbLcdLYIncrementTicks - clockTicks
        /\ gbLcdTicks' = gbLcdTicks - clockTicks
    BY <1>2, <1>6, <2>2
  <2>4. gbLcdTicks' - gbLcdLYIncrementTicks' = gbLcdTicks - gbLcdLYIncrementTicks
        /\ gbLcdLYIncrementTicks' - gbLcdTicks' = gbLcdLYIncrementTicks - gbLcdTicks
    BY <1>3, <2>3
  <2>5. LinesToCome'
    BY <1>2, <2>2, <2>4 DEF LinesToCome
  <2>6. \/ clockTicks + LastLineTicks <= C
        \/ IF register_LY = 0 THEN clockTicks < gbLcdTicks + D
           ELSE register_LY < LastLine => gbLcdTicks - clockTicks >= LastLineTicks
    <3>1. \/ ~(clockTicks + LastLineTicks > C)
          \/ ~(IF register_LY = 0 THEN clockTicks >= gbLcdTicks + D
               ELSE register_LY < LastLine /\ gbLcdTicks - clockTicks < LastLineTicks)
      BY <1>6, <2>1, <2>2 DEF RunsOverVBlank
    <3> HIDE DEF C, D
    <3> QED BY <1>1, <1>3, <3>1
  <2>7. ASSUME register_LY = 0 PROVE gbLcdLYIncrementTicks' > 0
    <3>1. gbLcdLYIncrementTicks - gbLcdTicks >= D
      BY <2>2, <2>7 DEF LinesToCome
    <3> HIDE DEF C, D
    <3> QED BY <1>1, <1>3, <2>2, <2>3, <2>6, <2>7, <3>1
  <2>8. ASSUME register_LY \in Lines .. LastLine - 1 PROVE gbLcdTicks' >= LastLineTicks
    <3>1. gbLcdTicks >= C
      BY <1>2, <2>2, <2>8 DEF LineIsNear
    <3>2. register_LY # 0 /\ register_LY < LastLine
      BY <1>3, <2>8
    <3> HIDE DEF C, D
    <3> QED BY <1>1, <1>3, <2>3, <2>6, <3>1, <3>2
  <2>9. LineIsNear'
    BY <1>2, <2>7, <2>8 DEF LineIsNear
  <2> QED BY <1>2, <1>4, <1>6, <2>1, <2>2, <2>5, <2>9 DEF LinesInv
<1> QED BY <1>5, <1>6

\* A line of the V-blank: after the last one comes line 0, which lasts until its end.
LEMMA VBlankLineKeepsLines ==
  ASSUME TypeOK, LinesInv, VBlankLine
  PROVE  LinesInv'
<1> DEFINE L == LY_INCREMENT * gbSpeed
           C == LastLineOfVBlank * gbSpeed
           D == LineAfterVBlank * gbSpeed
           Left(line) == (MODE_1 - LY_INCREMENT * (line - Lines + 1)) * gbSpeed
<1>1. /\ L \in Int /\ C \in Int /\ D \in Int /\ LastLineTicks \in Nat \ {0}
      /\ LastLineTicks <= C /\ D > 0 /\ L > 0 /\ L * 2 - C = D
  BY LineNumbers
<1>2. /\ pc = "ly" /\ pc' = pc /\ lcdOn /\ gbLcdMode = 1 /\ gbLcdLYIncrementTicks <= 0
      /\ UNCHANGED <<gbSpeed, lcdOn, gbLcdMode, gbLcdTicks, drawn>>
  BY DEF VBlankLine, LineIsDue, callVars
<1>3. /\ gbLcdTicks \in Int /\ gbLcdLYIncrementTicks \in Int /\ register_LY \in Int
      /\ Lines \in Nat \ {0} /\ LastLine \in Nat /\ Lines < LastLine
  BY TicksAssumption DEF TypeOK
<1>4. ScreenIsOn'
  BY <1>2 DEF ScreenIsOn
<1>5. CASE drawn < 0
  BY <1>2, <1>4, <1>5 DEF LinesInv, TypeOK
<1>6. CASE drawn >= 0
  <2>1. /\ drawn = 0 /\ LinesToCome /\ register_LY # 0
        /\ register_LY \in Lines .. LastLine - 1 => gbLcdTicks >= LastLineTicks
    BY <1>2, <1>3, <1>6 DEF LinesInv, LineIsNear
  <2> SUFFICES LinesToCome' /\ LineIsNear'
    BY <1>2, <1>4, <1>6, <2>1 DEF LinesInv
  <2>2. CASE register_LY = LastLine
    <3>1. register_LY' = 0 /\ gbLcdLYIncrementTicks' = L * 2
      BY <1>3, <2>2 DEF VBlankLine, LineTicks
    <3>2. gbLcdTicks - gbLcdLYIncrementTicks <= C
      BY <2>1, <2>2 DEF LinesToCome
    <3> HIDE DEF L, C, D
    <3>3. gbLcdLYIncrementTicks' - gbLcdTicks >= D /\ gbLcdLYIncrementTicks' > 0
      BY <1>1, <1>2, <1>3, <3>1, <3>2
    <3> QED BY <1>2, <1>3, <3>1, <3>3 DEF LinesToCome, LineIsNear, C, D
  <2>3. CASE register_LY # LastLine
    <3>1. /\ register_LY \in Lines .. LastLine - 1
          /\ gbLcdTicks - gbLcdLYIncrementTicks = Left(register_LY)
      BY <2>1, <2>3 DEF LinesToCome
    <3>2. register_LY' = register_LY + 1 /\ register_LY < LastLine
      BY <1>3, <3>1 DEF VBlankLine
    <3>3. CASE register_LY' = LastLine
      <4>1. gbLcdLYIncrementTicks' = LastLineTicks
        BY <1>3, <3>2, <3>3 DEF VBlankLine
      <4>2. register_LY - Lines + 1 = LastLine - Lines
        BY <1>3, <3>2, <3>3
      <4>3. Left(register_LY) = C
        BY <4>2 DEF LastLineOfVBlank
      <4>4. gbLcdTicks - LastLineTicks \in 0 .. C
        <5>1. gbLcdTicks = gbLcdLYIncrementTicks + C
          <6> HIDE DEF L, C, D, Left
          <6> QED BY <1>1, <1>3, <3>1, <4>3
        <5> HIDE DEF L, C, D, Left
        <5> QED BY <1>1, <1>2, <1>3, <2>1, <3>1, <5>1
      <4> QED BY <1>1, <1>2, <1>3, <3>3, <4>1, <4>4 DEF LinesToCome, LineIsNear
    <3>4. CASE register_LY' # LastLine
      <4>1. gbLcdLYIncrementTicks' = gbLcdLYIncrementTicks + L
        BY <1>3, <3>2, <3>4 DEF VBlankLine, LineTicks
      <4>2. Left(register_LY') = Left(register_LY) - L /\ Left(register_LY) \in Int
        <5>1. LY_INCREMENT \in Int /\ MODE_1 \in Int /\ gbSpeed \in {1, 2}
          BY TicksAssumption DEF TypeOK
        <5>2. LY_INCREMENT * (register_LY' - Lines + 1) = LY_INCREMENT * (register_LY - Lines + 1) + LY_INCREMENT
          BY <1>3, <3>2, <5>1
        <5>3. LY_INCREMENT * (register_LY - Lines + 1) \in Int
          BY <1>3, <5>1
        <5> DEFINE a == LY_INCREMENT * (register_LY - Lines + 1)
        <5>4. /\ (MODE_1 - (a + LY_INCREMENT)) * gbSpeed = (MODE_1 - a) * gbSpeed - LY_INCREMENT * gbSpeed
              /\ (MODE_1 - a) * gbSpeed \in Int
          <6> HIDE DEF a
          <6>1. a \in Int
            BY <5>3 DEF a
          <6>2. CASE gbSpeed = 1  BY <5>1, <6>1, <6>2
          <6>3. CASE gbSpeed = 2  BY <5>1, <6>1, <6>3
          <6> QED BY <5>1, <6>2, <6>3
        <5> QED BY <5>2, <5>4
      <4>3. gbLcdTicks - gbLcdLYIncrementTicks' = Left(register_LY')
        <5> HIDE DEF L, C, D, Left
        <5> QED BY <1>1, <1>3, <2>1, <3>1, <4>1, <4>2
      <4>4. register_LY' \in Lines .. LastLine - 1 /\ register_LY' # 0
        BY <1>3, <3>1, <3>2, <3>4
      <4> QED BY <1>2, <2>1, <3>1, <3>4, <4>3, <4>4 DEF LinesToCome, LineIsNear
    <3> QED BY <3>3, <3>4
  <2> QED BY <2>2, <2>3
<1> QED BY <1>5, <1>6 DEF TypeOK

\* While LY is not yet at the last line, its time lies behind the next line.
LEMMA LinesLeft ==
  ASSUME TypeOK, LinesToCome, register_LY \in Lines .. LastLine - 1
  PROVE  gbLcdTicks - gbLcdLYIncrementTicks >= LastLineOfVBlank * gbSpeed
<1> DEFINE k == LY_INCREMENT * (register_LY - Lines + 1)
           m == LY_INCREMENT * (LastLine - Lines)
<1>1. /\ Lines \in Nat \ {0} /\ LastLine \in Nat /\ register_LY \in Int
      /\ LY_INCREMENT \in Nat /\ MODE_1 \in Int /\ gbSpeed \in {1, 2}
  BY TicksAssumption DEF TypeOK
<1>2. gbLcdTicks - gbLcdLYIncrementTicks = (MODE_1 - k) * gbSpeed
  BY <1>1 DEF LinesToCome
<1>3. k \in Int /\ m \in Int /\ k <= m
  <2>1. /\ register_LY - Lines + 1 \in Nat /\ LastLine - Lines \in Nat
        /\ register_LY - Lines + 1 <= LastLine - Lines
    BY <1>1
  <2> QED BY <1>1, <2>1
<1>4. LastLineOfVBlank = MODE_1 - m
  BY DEF LastLineOfVBlank
<1> HIDE DEF k, m
<1>5. CASE gbSpeed = 1  BY <1>1, <1>2, <1>3, <1>4, <1>5
<1>6. CASE gbSpeed = 2  BY <1>1, <1>2, <1>3, <1>4, <1>6
<1> QED BY <1>1, <1>5, <1>6

\* The screen's turns: the two counters hand over to each other at the V-blank's ends.
LEMMA ScreenKeepsLines ==
  ASSUME TypeOK, LinesInv, HBlankEnds \/ VBlankEnds \/ OamEnds \/ DrawingEnds
  PROVE  LinesInv'
<1> DEFINE L == LY_INCREMENT * gbSpeed
<1>1. /\ L \in Int /\ L > 0 /\ MODE_1 * gbSpeed \in Nat /\ MODE_2 * gbSpeed \in Nat
      /\ MODE_3 * gbSpeed \in Nat /\ MODE_0 * gbSpeed \in Nat
      /\ (MODE_1 - LY_INCREMENT) * gbSpeed = MODE_1 * gbSpeed - L
  <2>1. gbSpeed \in {1, 2} /\ LY_INCREMENT \in Nat
        /\ {MODE_0, MODE_1, MODE_2, MODE_3} \subseteq Nat
    BY TicksAssumption DEF TypeOK
  <2>2. L \in Int /\ L > 0
    BY LineNumbers
  <2>3. CASE gbSpeed = 1  BY <2>1, <2>2, <2>3
  <2>4. CASE gbSpeed = 2  BY <2>1, <2>2, <2>4
  <2> QED BY <2>1, <2>3, <2>4
<1>2. /\ pc \in {"ly", "lcd"} /\ pc' = "lcd" /\ lcdOn /\ gbLcdTicks <= 0
      /\ pc = "ly" => ~LineIsDue
      /\ UNCHANGED <<gbSpeed, lcdOn>>
  BY DEF HBlankEnds, VBlankEnds, OamEnds, DrawingEnds, LcdTurn, Rest, ModeIsDue
<1>3. /\ gbLcdTicks \in Int /\ gbLcdLYIncrementTicks \in Int /\ register_LY \in 0 .. LyModulus - 1
      /\ Lines \in Nat \ {0} /\ LastLine \in Nat /\ Lines < LastLine /\ LastLine < LyModulus
      /\ LyModulus \in Nat /\ drawn \in Int
  BY TicksAssumption DEF TypeOK
<1>4. ScreenIsOn'
  BY <1>2 DEF ScreenIsOn
<1>7. CASE HBlankEnds
  <2>1. gbLcdMode = 0 /\ register_LY' = NextLine
    BY <1>7 DEF HBlankEnds
  <2>2. ASSUME drawn >= 0 PROVE drawn = register_LY + 1 /\ register_LY < Lines
    BY <2>1, <2>2 DEF LinesInv
  <2>3. CASE register_LY' = Lines
    <3>1. /\ gbLcdLYIncrementTicks' = gbLcdTicks + L /\ gbLcdTicks' = gbLcdTicks + MODE_1 * gbSpeed
          /\ gbLcdMode' = 1
          /\ drawn' = IF gbLcdTicks' < LastLineOfVBlank * gbSpeed THEN -1 ELSE 0
      BY <1>7, <2>3 DEF HBlankEnds, LineTicks
    <3>2. gbLcdTicks' - gbLcdLYIncrementTicks' = (MODE_1 - LY_INCREMENT) * gbSpeed
      <4> HIDE DEF L
      <4> QED BY <1>1, <1>3, <3>1
    <3>3. LY_INCREMENT * (register_LY' - Lines + 1) = LY_INCREMENT
      BY <1>3, <2>3, TicksAssumption
    <3>4. register_LY' # 0 /\ register_LY' # LastLine /\ register_LY' \in Lines .. LastLine - 1
      BY <1>3, <2>3
    <3>5. LinesToCome'
      BY <1>2, <3>2, <3>3, <3>4 DEF LinesToCome
    <3>6. gbLcdTicks' \in Int /\ LastLineOfVBlank * gbSpeed \in Int
      BY <1>1, <1>3, <3>1, LineNumbers
    <3>7. drawn' >= 0 => LineIsNear' /\ drawn' = 0
      BY <1>2, <3>1, <3>4, <3>6 DEF LineIsNear
    <3> QED BY <1>2, <1>4, <3>1, <3>5, <3>7 DEF LinesInv
  <2>4. CASE register_LY' # Lines
    <3>1. gbLcdMode' = 2 /\ drawn' = drawn
      BY <1>7, <2>4 DEF HBlankEnds
    <3>2. ASSUME drawn >= 0 PROVE register_LY' = register_LY + 1 /\ register_LY' < Lines
      BY <1>3, <2>1, <2>2, <2>4, <3>2 DEF NextLine
    <3> QED BY <1>2, <1>4, <2>2, <3>1, <3>2 DEF LinesInv
  <2> QED BY <2>3, <2>4
<1>8. CASE VBlankEnds
  <2>1. gbLcdMode = 1 /\ gbLcdMode' = 2 /\ drawn' = drawn /\ register_LY' = register_LY
    BY <1>8 DEF VBlankEnds
  <2>2. ASSUME drawn >= 0 PROVE register_LY = 0 /\ drawn = 0
    <3>1. LinesToCome /\ LineIsNear /\ drawn = 0
      BY <2>1, <2>2 DEF LinesInv
    <3>2. register_LY # LastLine
      <4>1. register_LY = LastLine => gbLcdLYIncrementTicks > 0
        BY <1>2, <1>3, <2>1, <3>1 DEF LineIsNear, LineIsDue
      <4> QED BY <1>2, <1>3, <3>1, <4>1 DEF LinesToCome
    <3>3. ~(register_LY \in Lines .. LastLine - 1)
      <4>1. LastLineOfVBlank * gbSpeed \in Int /\ LastLineTicks \in Nat \ {0}
            /\ LastLineTicks <= LastLineOfVBlank * gbSpeed
        BY LineNumbers
      <4> QED BY <1>2, <1>3, <3>1, <4>1 DEF LineIsNear
    <3> QED BY <3>1, <3>2, <3>3 DEF LinesToCome
  <2> QED BY <1>2, <1>3, <1>4, <2>1, <2>2 DEF LinesInv
<1>9. CASE OamEnds
  <2>1. gbLcdMode = 2 /\ gbLcdMode' = 3 /\ UNCHANGED <<register_LY, drawn>>
    BY <1>9 DEF OamEnds
  <2> QED BY <1>2, <1>4, <2>1 DEF LinesInv
<1>10. CASE DrawingEnds
  <2>1. gbLcdMode = 3 /\ gbLcdMode' = 0 /\ register_LY' = register_LY
        /\ drawn' = IF register_LY < Lines /\ drawn >= 0 THEN drawn + 1 ELSE drawn
    BY <1>10 DEF DrawingEnds
  <2>2. ASSUME drawn >= 0 PROVE register_LY < Lines /\ drawn = register_LY
    BY <2>1, <2>2 DEF LinesInv
  <2>3. drawn' >= 0 => drawn >= 0 /\ drawn' = register_LY + 1
    BY <1>3, <2>1, <2>2
  <2> QED BY <1>2, <1>4, <2>1, <2>2, <2>3 DEF LinesInv
<1> QED BY <1>7, <1>8, <1>9, <1>10

\* The other devices and the end of the call leave the screen alone; they come after
\* the lines that were due.
LEMMA OthersKeepLines ==
  ASSUME TypeOK, LinesInv, ShiftBit \/ Count \/ Interrupt
  PROVE  LinesInv'
<1>1. /\ pc \in {"ly", "lcd"}
      /\ pc = "ly" => ~LineIsDue
      /\ UNCHANGED <<lcdVars, gbSpeed, drawn>>
      /\ pc' = "lcd" \/ (pc' = "cpu" /\ ~ModeIsDue)
  BY DEF ShiftBit, Count, Interrupt, SerialTurn, TimerTurn, AllDone, Rest
<1>2. gbLcdTicks \in Int /\ gbLcdLYIncrementTicks \in Int
  BY DEF TypeOK
<1>3. ScreenIsOn'
  BY <1>1, <1>2 DEF ScreenIsOn, ModeIsDue, lcdVars
<1>4. ASSUME drawn >= 0, gbLcdMode = 1 PROVE LineIsNear' /\ LinesToCome'
  <2>1. lcdOn /\ LinesToCome /\ LineIsNear
    BY <1>4 DEF LinesInv
  <2>2. pc = "ly" => gbLcdLYIncrementTicks > 0
    BY <1>1, <1>2, <1>4, <2>1 DEF LineIsDue
  <2>3. ASSUME register_LY \in Lines .. LastLine - 1
        PROVE  gbLcdTicks >= LastLineOfVBlank * gbSpeed
    <3>1. CASE pc = "ly"
      <4>1. gbLcdTicks - gbLcdLYIncrementTicks >= LastLineOfVBlank * gbSpeed
        BY <2>1, <2>3, LinesLeft
      <4>2. LastLineOfVBlank * gbSpeed \in Int
        BY LineNumbers
      <4> QED BY <1>2, <2>2, <3>1, <4>1, <4>2
    <3>2. CASE pc = "lcd"
      BY <2>1, <2>3, <3>2 DEF LineIsNear
    <3> QED BY <1>1, <3>1, <3>2
  <2> QED BY <1>1, <2>1, <2>2, <2>3 DEF LineIsNear, LinesToCome, lcdVars
<1> QED BY <1>1, <1>3, <1>4 DEF LinesInv, lcdVars

\* A reset starts a frame that is not counted.
LEMMA ResetKeepsLines ==
  ASSUME Reset
  PROVE  LinesInv'
BY TicksAssumption DEF Reset, Start, callVars, LinesInv, ScreenIsOn

\* LinesInOrder for all timings and all lengths of a call, a general DMA of any number
\* of blocks included: but for the frames RunsOverVBlank excepts, line follows line.
THEOREM LinesAreInOrder == Spec => []LinesInOrder
<1>1. TypeOK /\ LinesInv /\ [Next]_vars => LinesInv'
  <2> SUFFICES ASSUME TypeOK, LinesInv, [Next]_vars PROVE LinesInv'
    OBVIOUS
  <2>1. CASE UNCHANGED vars
    BY <2>1 DEF vars, callVars, lcdVars, LinesInv, ScreenIsOn, LineIsNear, LinesToCome
  <2> QED BY <2>1, CallKeepsLines, TickKeepsLines, VBlankLineKeepsLines,
        ScreenKeepsLines, OthersKeepLines, ResetKeepsLines DEF Next, gbEmulate, Devices
<1>2. LinesInv => LinesInOrder
  BY DEF LinesInv, LinesInOrder
<1> QED BY <1>1, <1>2, LinesAtStart, TypesAreKept, PTL DEF Spec
====
