---------------------------- MODULE GbaIoProofs ----------------------------
\* Proofs about the clockwork of the Game Boy Advance, for all timings, all numbers of
\* lines and everything a game may write.
EXTENDS GbaIo, TLAPS

\* The parts of TypeOK.
SliceOK ==
  /\ pc \in {"call", "cpu", "lcd", "timers", "end"}
  /\ clockTicks \in Int /\ cpuLoopTicks \in Int /\ cpuSavedTicks \in Int
  /\ cpuDmaTicksToUpdate \in Int
CpuOK ==
  /\ game \in Games /\ newFrame \in BOOLEAN
  /\ {holdState, stopState, intState, armIrqEnable, IME} \subseteq BOOLEAN
  /\ IE \subseteq Irqs /\ register_IF \subseteq Irqs
LcdOK ==
  /\ lcdTicks \in Int /\ inLine \in Int
  /\ VCOUNT \in 0 .. AllLines - 1 /\ lyc \in 0 .. AllLines
  /\ DISPSTAT \subseteq {"VBLANK", "HBLANK", "VCOUNT"} \cup LcdIrqs
TimerRecords ==
  [on : BOOLEAN, cascade : BOOLEAN, irq : BOOLEAN,
   d : 0 .. TimerModulus - 1, reload : 0 .. TimerModulus - 1,
   clockReload : TIMER_TICKS \cup {0}, ticks : Int]
DmaRecords == [on : BOOLEAN, timing : 0 .. 2, repeat : BOOLEAN, irq : BOOLEAN]

LEMMA TypeParts ==
  TypeOK <=> /\ SliceOK /\ CpuOK /\ LcdOK
             /\ timer \in [Timers -> TimerRecords] /\ dma \in [Channels -> DmaRecords]
BY DEF TypeOK, SliceOK, CpuOK, LcdOK, TimerRecords, DmaRecords

\* What the constants are.
LEMMA Constants ==
  /\ DRAW \in Nat /\ HBLANK \in Nat /\ Lines \in Nat /\ 0 < Lines
  /\ AllLines \in Nat /\ Lines < AllLines
  /\ IrqTicks \in Nat /\ TimerModulus \in Nat /\ 0 < TimerModulus
  /\ TIMER_TICKS \subseteq Nat /\ InstructionTicks \subseteq Nat
  /\ LastTimer \in 0 .. 3 /\ Channels \subseteq 0 .. 3 /\ DmaTicks \subseteq Nat
  /\ Reloads \subseteq 0 .. TimerModulus - 1 /\ LycValues \subseteq 0 .. AllLines
BY TicksAssumption

\* The clockwork keeps its types, the screen's three registers agree, and two timers in
\* cascade count as one: the inductive invariant.
Cascade ==
  /\ counted \in Int
  /\ counted # -1 => Cascaded /\ counted = timer[0].d + TimerModulus * timer[1].d
IInv == TypeOK /\ VBlankIsShown /\ LinesKeepTime /\ Cascade

-----------------------------------------------------------------------------
\* The slice.

LEMMA FirstOfInt ==
  ASSUME NEW S \in SUBSET Int, lcdTicks \in Int
  PROVE  FirstOf(S) \subseteq Int
<1>1. 1 .. lcdTicks \subseteq Int
  OBVIOUS
<1>2. FirstOf(S) \subseteq S \cup 1 .. lcdTicks
  BY DEF FirstOf
<1> QED BY <1>1, <1>2

LEMMA NextEventsInt ==
  ASSUME TypeOK
  PROVE  /\ NextEvents \subseteq Int
         /\ FirstOf({lcdTicks} \cup {timer[t].ticks : t \in {t \in Timers : timer[t].on}})
              \subseteq Int
<1>1. lcdTicks \in Int /\ \A t \in Timers : timer[t].ticks \in Int
  BY DEF TypeOK
<1> QED BY <1>1, FirstOfInt DEF NextEvents

LEMMA SpendSlice ==
  ASSUME TypeOK, NEW c \in Int, NEW b \in Int, NEW breaks, Spend(c, b, breaks)
  PROVE  SliceOK'
<1>1. /\ clockTicks \in Int /\ cpuLoopTicks \in Int /\ cpuSavedTicks \in Int
      /\ cpuDmaTicksToUpdate \in Int
  BY DEF TypeOK
<1> DEFINE saved == IF breaks THEN cpuSavedTicks - cpuLoopTicks ELSE cpuSavedTicks
           left  == (IF breaks THEN b ELSE cpuLoopTicks) - c
<1>2. saved \in Int /\ left \in Int
  BY <1>1
<1>3. CASE left > 0
  BY <1>1, <1>2, <1>3 DEF Spend, SliceOK
<1>4. CASE ~(left > 0)
  BY <1>1, <1>2, <1>4 DEF Spend, SliceOK, SliceOver
<1> QED BY <1>3, <1>4

LEMMA ExecuteSlice ==
  ASSUME TypeOK, NEW breaks, Execute(breaks)
  PROVE  SliceOK' /\ UNCHANGED <<game, newFrame, intState>>
<1>1. PICK c \in InstructionTicks : \E b \in 1 .. c : Spend(c, b, breaks)
  BY DEF Execute
<1>2. PICK b \in 1 .. c : Spend(c, b, breaks)
  BY <1>1
<1>3. c \in Int /\ b \in Int
  BY Constants
<1> QED BY <1>2, <1>3, SpendSlice DEF Execute

LEMMA NewSliceInt ==
  ASSUME NEW slice \in SUBSET Int, NewSlice(slice)
  PROVE  clockTicks' \in Int /\ cpuLoopTicks' \in Int /\ cpuSavedTicks' \in Int
BY DEF NewSlice

\* Whatever the game does is an instruction.
LEMMA ProgramExecutes ==
  ASSUME Program
  PROVE  /\ \E breaks : Execute(breaks)
         /\ WriteDISPCNT \/ WriteDISPSTAT \/ UNCHANGED lcdVars
<1>1. CASE SetIrqEnable
  BY <1>1 DEF SetIrqEnable
<1>2. CASE WriteIE \/ WriteIF \/ WriteIME \/ Halt
  BY <1>2 DEF WriteIE, WriteIF, WriteIME, Halt
<1>3. CASE WriteDISPCNT \/ WriteDISPSTAT
  BY <1>3 DEF WriteDISPCNT, WriteDISPSTAT
<1>4. CASE \E t \in Timers : WriteTimer(t) \/ WriteReload(t)
  BY <1>4 DEF WriteTimer, WriteReload
<1>5. CASE \E c \in Channels : WriteDMA(c)
  <2>1. PICK c \in Channels : WriteDMA(c)
    BY <1>5
  <2>2. UNCHANGED lcdVars
    BY <2>1 DEF WriteDMA
  <2>3. \E breaks : Execute(breaks)
    BY <2>1 DEF WriteDMA
  <2> QED BY <2>2, <2>3
<1> QED BY <1>1, <1>2, <1>3, <1>4, <1>5 DEF Program

\* The ticks of the slice keep their types.
LEMMA SliceKept ==
  ASSUME TypeOK, [Next]_vars
  PROVE  SliceOK'
<1>1. SliceOK
  BY TypeParts
<1>2. IrqTicks \in Int /\ {IrqTicks} \subseteq Int /\ NextEvents \subseteq Int
  BY NextEventsInt, Constants
<1>3. (IF intState THEN {IrqTicks} ELSE NextEvents) \subseteq Int
  BY <1>2
<1>4. ASSUME EnterLoop PROVE SliceOK'
  BY <1>1, <1>3, <1>4, NewSliceInt DEF EnterLoop, SliceOK
<1>5. ASSUME NEW slice \in SUBSET Int, SliceEnds, Leave(slice) PROVE SliceOK'
  <2>1. UNCHANGED cpuDmaTicksToUpdate
    BY <1>5 DEF SliceEnds
  <2>2. CASE newFrame
    BY <1>1, <1>5, <2>1, <2>2 DEF Leave, SliceOver, SliceOK
  <2>3. CASE ~newFrame
    BY <1>1, <1>5, <2>1, <2>3, NewSliceInt DEF Leave, SliceOK
  <2> QED BY <2>2, <2>3
<1>6. ASSUME NEW cs \in SUBSET Channels, CPUCheckDMA(cs) PROVE cpuDmaTicksToUpdate' \in Int
  <2>1. PICK ticks \in [cs -> DmaTicks] :
          cpuDmaTicksToUpdate' = cpuDmaTicksToUpdate
            + (IF 0 \in cs THEN ticks[0] ELSE 0) + (IF 1 \in cs THEN ticks[1] ELSE 0)
            + (IF 2 \in cs THEN ticks[2] ELSE 0) + (IF 3 \in cs THEN ticks[3] ELSE 0)
    BY <1>6 DEF CPUCheckDMA
  <2>2. \A c \in cs : ticks[c] \in Int
    <3>1. \A c \in cs : ticks[c] \in DmaTicks
      OBVIOUS
    <3>2. \A n \in DmaTicks : n \in Nat
      BY Constants, Zenon
    <3>3. \A n \in Nat : n \in Int
      OBVIOUS
    <3> QED BY <3>1, <3>2, <3>3, Zenon
  <2>3. /\ (IF 0 \in cs THEN ticks[0] ELSE 0) \in Int /\ (IF 1 \in cs THEN ticks[1] ELSE 0) \in Int
        /\ (IF 2 \in cs THEN ticks[2] ELSE 0) \in Int /\ (IF 3 \in cs THEN ticks[3] ELSE 0) \in Int
    BY <2>2
  <2>4. cpuDmaTicksToUpdate \in Int
    BY <1>1 DEF SliceOK
  <2> QED BY <2>1, <2>3, <2>4
<1>7. ASSUME NEW r PROVE Started(r) \in SUBSET Channels /\ {} \in SUBSET Channels
  BY DEF Started
<1>10. CASE ReadJoypads
  BY <1>4, <1>10 DEF ReadJoypads
<1>11. CASE VBAMovieResetIfRequested
  BY <1>4, <1>11 DEF VBAMovieResetIfRequested
<1>12. CASE Program
  BY <1>12, ProgramExecutes, ExecuteSlice
<1>13. CASE Halted
  BY <1>13, NextEventsInt, SpendSlice DEF Halted
<1>14. CASE NothingDue
  BY <1>1, <1>14 DEF NothingDue, LcdTurn, SliceOK, sliceVars
<1>15. CASE HBlankBegins
  <2>1. PICK cs \in SUBSET Channels : CPUCheckDMA(cs)
    BY <1>7, <1>15 DEF HBlankBegins
  <2> QED BY <1>1, <1>6, <1>15, <2>1 DEF HBlankBegins, LcdTurn, SliceOK
<1>16. CASE NextLine \/ FirstLine
  BY <1>1, <1>16 DEF NextLine, FirstLine, LineEnds, LcdTurn, SliceOK
<1>17. CASE VBlankBegins
  <2>1. PICK cs \in SUBSET Channels : CPUCheckDMA(cs)
    BY <1>7, <1>17 DEF VBlankBegins
  <2> QED BY <1>1, <1>6, <1>17, <2>1 DEF VBlankBegins, LineEnds, LcdTurn, SliceOK
<1>18. CASE TimersCount
  BY <1>1, <1>18 DEF TimersCount, SliceOK, sliceVars
<1>19. CASE GoBack
  <2>1. PICK n \in NextEvents :
          clockTicks' = IF n > cpuDmaTicksToUpdate THEN cpuDmaTicksToUpdate ELSE n
    BY <1>19 DEF GoBack
  <2>2. clockTicks' \in Int
    BY <1>1, <1>2, <2>1 DEF SliceOK
  <2> QED BY <1>1, <1>19, <2>2 DEF GoBack, SliceOver, SliceOK
<1>20. CASE NoInterrupt \/ CPUInterrupt
  BY <1>2, <1>5, <1>20 DEF NoInterrupt, CPUInterrupt
<1>21. CASE InterruptComes
  BY <1>2, <1>5, <1>21 DEF InterruptComes
<1>22. CASE CPUReset
  BY <1>1, <1>22 DEF CPUReset, SliceOK, sliceVars
<1>23. CASE UNCHANGED vars
  BY <1>1, <1>23 DEF vars, SliceOK, sliceVars
<1> QED
  BY <1>10, <1>11, <1>12, <1>13, <1>14, <1>15, <1>16, <1>17, <1>18, <1>19, <1>20, <1>21,
     <1>22, <1>23 DEF Next, CPULoop2, updateLoop

-----------------------------------------------------------------------------
\* The screen.

ScreenOK == LcdOK /\ VBlankIsShown /\ LinesKeepTime

LEMMA LcdUnchanged ==
  ASSUME ScreenOK, UNCHANGED lcdVars
  PROVE  ScreenOK'
BY DEF ScreenOK, LcdOK, VBlankIsShown, LinesKeepTime, lcdVars

LEMMA ClearedScreen ==
  ASSUME Cleared
  PROVE  ScreenOK'
BY Constants DEF Cleared, ScreenOK, LcdOK, VBlankIsShown, LinesKeepTime

\* The comparison with the line changes no other flag.
LEMMA ComparedFlags ==
  ASSUME NEW line, NEW flags
  PROVE  /\ Compared(line, flags) \subseteq flags \cup {"VCOUNT"}
         /\ "VBLANK" \in Compared(line, flags) <=> "VBLANK" \in flags
         /\ "HBLANK" \in Compared(line, flags) <=> "HBLANK" \in flags
BY DEF Compared

\* At the end of a line the next one begins, with the ticks that are already over.
LEMMA LineEndsInTime ==
  ASSUME SliceOK, LcdOK, LinesKeepTime, LineEnds
  PROVE  lcdTicks' \in Int /\ inLine' \in Int /\ inLine' + lcdTicks' = DRAW
<1>1. /\ lcdTicks \in Int /\ inLine \in Int /\ clockTicks \in Int
      /\ DRAW \in Int /\ HBLANK \in Int
  BY Constants DEF SliceOK, LcdOK
<1>2. inLine + lcdTicks = DRAW + HBLANK
  BY DEF LineEnds, LinesKeepTime
<1>3. /\ lcdTicks' = lcdTicks - clockTicks + DRAW
      /\ inLine' = inLine + clockTicks - (DRAW + HBLANK)
  BY DEF LineEnds, Left
<1> QED BY <1>1, <1>2, <1>3

LEMMA ScreenKept ==
  ASSUME SliceOK, ScreenOK, [Next]_vars
  PROVE  ScreenOK'
<1>1. /\ lcdTicks \in Int /\ inLine \in Int /\ clockTicks \in Int /\ VCOUNT \in Int
      /\ DRAW \in Int /\ HBLANK \in Int /\ Lines \in Int /\ AllLines \in Int
      /\ 0 < Lines /\ Lines < AllLines
  BY Constants DEF SliceOK, ScreenOK, LcdOK
<1>2. LcdOK /\ VBlankIsShown /\ LinesKeepTime
  BY DEF ScreenOK
<1>3. CASE ReadJoypads \/ Halted \/ TimersCount \/ GoBack \/ NoInterrupt \/ InterruptComes
           \/ CPUInterrupt \/ UNCHANGED vars
  <2>1. UNCHANGED lcdVars
    BY <1>3 DEF ReadJoypads, Halted, TimersCount, GoBack, NoInterrupt, InterruptComes,
       CPUInterrupt, SliceEnds, vars
  <2> QED BY <2>1, LcdUnchanged
<1>4. CASE VBAMovieResetIfRequested \/ CPUReset
  BY <1>4, ClearedScreen DEF VBAMovieResetIfRequested, CPUReset
<1>5. CASE Program
  <2>1. CASE WriteDISPCNT
    <3>1. /\ lcdTicks' = DRAW /\ inLine' = 0 /\ UNCHANGED <<VCOUNT, lyc>>
          /\ "VBLANK" \notin DISPSTAT
          /\ DISPSTAT' = Compared(VCOUNT, DISPSTAT \ {"VBLANK", "HBLANK"})
      BY <2>1 DEF WriteDISPCNT
    <3>2. /\ DISPSTAT' \subseteq DISPSTAT \cup {"VCOUNT"}
          /\ "VBLANK" \notin DISPSTAT' /\ "HBLANK" \notin DISPSTAT'
      BY <3>1, ComparedFlags
    <3>3. LcdOK'
      <4>1. DISPSTAT' \subseteq {"VBLANK", "HBLANK", "VCOUNT"} \cup LcdIrqs
        BY <1>2, <3>2 DEF LcdOK
      <4>2. lcdTicks' \in Int /\ inLine' \in Int
        BY <1>1, <3>1
      <4>3. VCOUNT' = VCOUNT /\ lyc' = lyc
        BY <3>1
      <4> QED BY <1>2, <4>1, <4>2, <4>3 DEF LcdOK
    <3>4. VBlankIsShown'
      <4>1. VCOUNT' = VCOUNT /\ ~(VCOUNT >= Lines)
        BY <1>2, <3>1 DEF VBlankIsShown
      <4>2. ~(VCOUNT' >= Lines)
        BY <4>1
      <4> QED BY <3>2, <4>2 DEF VBlankIsShown
    <3>5. LinesKeepTime'
      BY <1>1, <3>1, <3>2 DEF LinesKeepTime
    <3> QED BY <3>3, <3>4, <3>5 DEF ScreenOK
  <2>2. CASE WriteDISPSTAT
    <3>1. PICK enabled \in SUBSET LcdIrqs : DISPSTAT' = (DISPSTAT \ LcdIrqs) \cup enabled
      BY <2>2 DEF WriteDISPSTAT, LcdIrqs
    <3>2. UNCHANGED <<lcdTicks, VCOUNT, inLine>>
      BY <2>2 DEF WriteDISPSTAT
    <3>3. lyc' \in 0 .. AllLines
      BY <1>2, <2>2, Constants DEF WriteDISPSTAT, LcdOK, If
    <3>4. /\ DISPSTAT' \subseteq DISPSTAT \cup LcdIrqs
          /\ "VBLANK" \in DISPSTAT' <=> "VBLANK" \in DISPSTAT
          /\ "HBLANK" \in DISPSTAT' <=> "HBLANK" \in DISPSTAT
      BY <3>1 DEF LcdIrqs
    <3>5. LcdOK'
      BY <1>2, <3>2, <3>3, <3>4 DEF LcdOK
    <3>6. VBlankIsShown' /\ LinesKeepTime'
      BY <1>2, <3>2, <3>4 DEF VBlankIsShown, LinesKeepTime
    <3> QED BY <3>5, <3>6 DEF ScreenOK
  <2>3. CASE ~WriteDISPCNT /\ ~WriteDISPSTAT
    <3>1. UNCHANGED lcdVars
      BY <1>5, <2>3, ProgramExecutes
    <3> QED BY <3>1, LcdUnchanged
  <2> QED BY <2>1, <2>2, <2>3
<1>6. CASE NothingDue
  <2>1. /\ lcdTicks' = lcdTicks - clockTicks /\ inLine' = inLine + clockTicks
        /\ UNCHANGED <<VCOUNT, DISPSTAT, lyc>>
    BY <1>6 DEF NothingDue, Left
  <2>2. lcdTicks' \in Int /\ inLine' \in Int /\ inLine' + lcdTicks' = inLine + lcdTicks
    BY <1>1, <2>1
  <2> QED BY <1>2, <2>1, <2>2 DEF ScreenOK, LcdOK, VBlankIsShown, LinesKeepTime
<1>7. CASE HBlankBegins
  <2>1. /\ lcdTicks' = lcdTicks - clockTicks + HBLANK /\ inLine' = inLine + clockTicks
        /\ DISPSTAT' = DISPSTAT \cup {"HBLANK"} /\ "HBLANK" \notin DISPSTAT
        /\ UNCHANGED <<VCOUNT, lyc>>
    BY <1>7 DEF HBlankBegins, Left
  <2>2. inLine + lcdTicks = DRAW
    BY <1>2, <2>1 DEF LinesKeepTime
  <2>3. lcdTicks' \in Int /\ inLine' \in Int /\ inLine' + lcdTicks' = DRAW + HBLANK
    BY <1>1, <2>1, <2>2
  <2> QED BY <1>2, <2>1, <2>3 DEF ScreenOK, LcdOK, VBlankIsShown, LinesKeepTime
<1>8. ASSUME LineEnds,
             NEW flags, flags \subseteq DISPSTAT \cup {"VBLANK"}, "HBLANK" \notin flags,
             DISPSTAT' = Compared(VCOUNT', flags),
             VCOUNT' \in 0 .. AllLines - 1,
             "VBLANK" \in flags <=> VCOUNT' >= Lines
      PROVE  ScreenOK'
  <2>1. /\ DISPSTAT' \subseteq DISPSTAT \cup {"VBLANK", "VCOUNT"}
        /\ "VBLANK" \in DISPSTAT' <=> VCOUNT' >= Lines
        /\ "HBLANK" \notin DISPSTAT'
    BY <1>8, ComparedFlags
  <2>2. lcdTicks' \in Int /\ inLine' \in Int /\ inLine' + lcdTicks' = DRAW
    BY <1>2, <1>8, LineEndsInTime
  <2>3. UNCHANGED lyc
    BY <1>8 DEF LineEnds
  <2>4. LcdOK'
    BY <1>2, <1>8, <2>1, <2>2, <2>3 DEF LcdOK
  <2>5. VBlankIsShown' /\ LinesKeepTime'
    BY <2>1, <2>2 DEF VBlankIsShown, LinesKeepTime
  <2> QED BY <2>4, <2>5 DEF ScreenOK
<1>9. VCOUNT \in 0 .. AllLines - 1 /\ ("VBLANK" \in DISPSTAT <=> VCOUNT >= Lines)
  BY <1>2 DEF LcdOK, VBlankIsShown
<1>10. CASE NextLine
  <2>1. /\ LineEnds /\ VCOUNT' = VCOUNT + 1
        /\ DISPSTAT' = Compared(VCOUNT', DISPSTAT \ {"HBLANK"})
        /\ "VBLANK" \in DISPSTAT => VCOUNT' < AllLines
        /\ "VBLANK" \notin DISPSTAT => VCOUNT' # Lines
    BY <1>10 DEF NextLine
  <2>2. VCOUNT' \in 0 .. AllLines - 1 /\ ("VBLANK" \in DISPSTAT <=> VCOUNT' >= Lines)
    <3>1. CASE "VBLANK" \in DISPSTAT
      BY <1>1, <1>9, <2>1, <3>1
    <3>2. CASE "VBLANK" \notin DISPSTAT
      BY <1>1, <1>9, <2>1, <3>2
    <3> QED BY <3>1, <3>2
  <2> QED BY <1>8, <2>1, <2>2
<1>11. CASE VBlankBegins
  <2>1. /\ LineEnds /\ VCOUNT' = Lines
        /\ DISPSTAT' = Compared(VCOUNT', (DISPSTAT \ {"HBLANK"}) \cup {"VBLANK"})
    BY <1>11 DEF VBlankBegins
  <2>2. VCOUNT' \in 0 .. AllLines - 1 /\ VCOUNT' >= Lines
    BY <1>1, <2>1
  <2> QED BY <1>8, <2>1, <2>2
<1>12. CASE FirstLine
  <2>1. /\ LineEnds /\ VCOUNT' = 0
        /\ DISPSTAT' = Compared(VCOUNT', DISPSTAT \ {"VBLANK", "HBLANK"})
    BY <1>12 DEF FirstLine
  <2>2. VCOUNT' \in 0 .. AllLines - 1 /\ ~(VCOUNT' >= Lines)
    BY <1>1, <2>1
  <2> QED BY <1>8, <2>1, <2>2
<1> QED BY <1>3, <1>4, <1>5, <1>6, <1>7, <1>10, <1>11, <1>12 DEF Next, CPULoop2, updateLoop

-----------------------------------------------------------------------------
\* The timers.

Registers(r) == <<r.on, r.cascade, r.irq, r.reload, r.clockReload>>

LEMMA RegisterInts ==
  ASSUME NEW r \in TimerRecords
  PROVE  /\ r.ticks \in Int /\ r.clockReload \in Int
         /\ r.d \in 0 .. TimerModulus - 1 /\ r.reload \in 0 .. TimerModulus - 1
<1>1. /\ r.ticks \in Int /\ r.clockReload \in TIMER_TICKS \cup {0}
      /\ r.d \in 0 .. TimerModulus - 1 /\ r.reload \in 0 .. TimerModulus - 1
  BY DEF TimerRecords
<1>2. TIMER_TICKS \cup {0} \subseteq Int
  BY Constants
<1> QED BY <1>1, <1>2

\* One more, or from the reload value again.
LEMMA UpCounts ==
  ASSUME NEW r \in TimerRecords
  PROVE  /\ Up(r).timer \in TimerRecords
         /\ Registers(Up(r).timer) = Registers(r)
         /\ Up(r).overflow <=> r.d + 1 = TimerModulus
         /\ Up(r).timer.d = IF r.d + 1 = TimerModulus THEN r.reload ELSE r.d + 1
<1>1. r.d \in 0 .. TimerModulus - 1 /\ r.reload \in 0 .. TimerModulus - 1 /\ TimerModulus \in Int
  BY Constants DEF TimerRecords
<1>2. CASE r.d + 1 = TimerModulus
  BY <1>1, <1>2 DEF Up, TimerRecords, Registers
<1>3. CASE r.d + 1 # TimerModulus
  <2>1. r.d + 1 \in 0 .. TimerModulus - 1
    BY <1>1, <1>3
  <2> QED BY <2>1, <1>3 DEF Up, TimerRecords, Registers
<1> QED BY <1>2, <1>3

LEMMA AddTicksCounts ==
  ASSUME NEW r \in TimerRecords, clockTicks \in Int
  PROVE  /\ AddTicks(r).timer \in TimerRecords
         /\ Registers(AddTicks(r).timer) = Registers(r)
<1> DEFINE total == r.d + clockTicks
           over  == total \notin 0 .. TimerModulus - 1
           d     == (IF over THEN total + r.reload ELSE total) % TimerModulus
<1>1. /\ r.d \in Int /\ r.reload \in Int /\ TimerModulus \in Int /\ TimerModulus > 0
  BY Constants DEF TimerRecords
<1>2. (IF over THEN total + r.reload ELSE total) \in Int
  BY <1>1
<1>3. \A n, m \in Int : m > 0 => n % m \in 0 .. m - 1
  OBVIOUS
<1> HIDE DEF total, over
<1>4. d \in 0 .. TimerModulus - 1
  BY <1>1, <1>2, <1>3
<1>5. AddTicks(r).timer = [r EXCEPT !.d = d, !.ticks = TimerModulus - d]
  BY DEF AddTicks, total, over
<1> HIDE DEF d
<1>6. TimerModulus - d \in Int
  BY <1>1, <1>4
<1> QED BY <1>4, <1>5, <1>6 DEF TimerRecords, Registers

LEMMA TickedKeeps ==
  ASSUME NEW r \in TimerRecords, clockTicks \in Int
  PROVE  /\ Ticked(r).timer \in TimerRecords
         /\ Registers(Ticked(r).timer) = Registers(r)
<1>1. CASE ~r.on
  BY <1>1 DEF Ticked, Same
<1>2. CASE r.on /\ r.clockReload = 1
  BY <1>2, AddTicksCounts DEF Ticked
<1>3. CASE r.on /\ r.clockReload # 1
  <2> DEFINE left == r.ticks - clockTicks
             late == [r EXCEPT !.ticks = left + r.clockReload]
             soon == [r EXCEPT !.ticks = left]
  <2>1. r.ticks \in Int /\ r.clockReload \in Int
    BY RegisterInts
  <2>2. left \in Int /\ left + r.clockReload \in Int
    BY <2>1
  <2> HIDE DEF left
  <2>3. /\ late \in TimerRecords /\ Registers(late) = Registers(r)
        /\ soon \in TimerRecords /\ Registers(soon) = Registers(r)
    BY <2>2 DEF TimerRecords, Registers
  <2>4. CASE left > 0
    BY <1>3, <2>3, <2>4 DEF Ticked, Same, left
  <2>5. CASE ~(left > 0)
    BY <1>3, <2>3, <2>5, UpCounts DEF Ticked, left
  <2> QED BY <2>4, <2>5
<1> QED BY <1>1, <1>2, <1>3

LEMMA SteppedKeeps ==
  ASSUME NEW r \in TimerRecords, NEW carry, clockTicks \in Int
  PROVE  /\ Stepped(r, carry).timer \in TimerRecords
         /\ Registers(Stepped(r, carry).timer) = Registers(r)
<1>1. CASE r.on /\ r.cascade
  BY <1>1, UpCounts DEF Stepped, Same
<1>2. CASE ~(r.on /\ r.cascade)
  BY <1>2, TickedKeeps DEF Stepped
<1> QED BY <1>1, <1>2

\* A number with two digits, and the number after it.
LEMMA TwoDigits ==
  ASSUME NEW m \in Nat, 0 < m, NEW a \in 0 .. m - 1, NEW b \in 0 .. m - 1
  PROVE  /\ a + m * b \in Nat
         /\ a + 1 # m => (a + m * b + 1) % (m * m) = a + 1 + m * b
         /\ a + 1 = m /\ b + 1 # m => (a + m * b + 1) % (m * m) = m * (b + 1)
         /\ a + 1 = m /\ b + 1 = m => (a + m * b + 1) % (m * m) = 0
<1>1. \A n, k \in Int : 0 <= n /\ n < k => n % k = n
  OBVIOUS
<1>2. \A k \in Int : 0 < k => k % k = 0
  OBVIOUS
<1> DEFINE p == m * b
           q == m * m
<1>3. p \in Int /\ q \in Int /\ 0 <= p
  OBVIOUS
<1>4. m * (b + 1) = p + m /\ m * (m - 1) = q - m
  OBVIOUS
<1>5. p + m <= q
  <2>1. \A x, y, z \in Nat : x <= y => z * x <= z * y
    OBVIOUS
  <2>2. m * (b + 1) <= m * m
    BY <2>1
  <2> QED BY <1>4, <2>2
<1>6. 0 < q
  BY <1>3, <1>5
<1> HIDE DEF p, q
<1>7. a + p \in Nat
  BY <1>3
<1>8. a + 1 # m => (a + p + 1) % q = a + 1 + p
  <2> SUFFICES ASSUME a + 1 # m PROVE (a + p + 1) % q = a + 1 + p
    OBVIOUS
  <2>1. a + p + 1 \in Int /\ 0 <= a + p + 1 /\ a + p + 1 < q /\ a + p + 1 = a + 1 + p
    BY <1>3, <1>5
  <2> QED BY <1>1, <1>3, <2>1
<1>9. a + 1 = m /\ b + 1 # m => (a + p + 1) % q = p + m
  <2> SUFFICES ASSUME a + 1 = m, b + 1 # m PROVE (a + p + 1) % q = p + m
    OBVIOUS
  <2>1. p + m + m <= q
    <3>1. \A x, y, z \in Nat : x <= y => z * x <= z * y
      OBVIOUS
    <3>2. b + 2 \in Nat /\ b + 2 <= m
      OBVIOUS
    <3>3. m * (b + 2) <= m * m
      BY <3>1, <3>2
    <3>4. m * (b + 2) = m * b + m + m
      OBVIOUS
    <3> QED BY <3>3, <3>4 DEF p, q
  <2>2. a + p + 1 \in Int /\ 0 <= a + p + 1 /\ a + p + 1 < q /\ a + p + 1 = p + m
    BY <1>3, <2>1
  <2> QED BY <1>1, <1>3, <2>2
<1>10. a + 1 = m /\ b + 1 = m => (a + p + 1) % q = 0
  <2> SUFFICES ASSUME a + 1 = m, b + 1 = m PROVE (a + p + 1) % q = 0
    OBVIOUS
  <2>1. p = q - m
    BY <1>4 DEF p, q
  <2>2. a + p + 1 = q
    BY <1>3, <2>1
  <2> QED BY <1>2, <1>3, <1>6, <2>2
<1> QED BY <1>4, <1>7, <1>8, <1>9, <1>10 DEF p, q

TimersOK == timer \in [Timers -> TimerRecords] /\ Cascade

LEMMA TimersUnchanged ==
  ASSUME TimersOK, UNCHANGED <<timer, counted>>
  PROVE  TimersOK'
BY DEF TimersOK, Cascade, Cascaded

LEMMA FirstTimer == 0 \in Timers
BY Constants DEF Timers

LEMMA ClearedTimers ==
  ASSUME Cleared
  PROVE  TimersOK'
<1>1. NoTimer \in TimerRecords
  <2>1. 0 \in 0 .. TimerModulus - 1 /\ 0 \in TIMER_TICKS \cup {0} /\ 0 \in Int
    BY Constants
  <2> QED BY <2>1 DEF NoTimer, TimerRecords
<1>2. timer' = [t \in Timers |-> NoTimer] /\ counted' = -1
  BY DEF Cleared
<1>3. timer' \in [Timers -> TimerRecords]
  BY <1>1, <1>2
<1>4. counted' \in Int /\ ~(counted' # -1)
  BY <1>2
<1> QED BY <1>3, <1>4 DEF TimersOK, Cascade

\* A write that leaves the counters of running timers alone keeps the count.
LEMMA RecountAgrees ==
  ASSUME TimersOK, Recount, timer' \in [Timers -> TimerRecords],
         Cascaded /\ Cascaded' => timer'[0].d = timer[0].d /\ timer'[1].d = timer[1].d
  PROVE  TimersOK'
<1>1. CASE ~Cascaded'
  BY <1>1 DEF Recount, TimersOK, Cascade
<1>2. CASE Cascaded' /\ Cascaded
  BY <1>2 DEF Recount, TimersOK, Cascade
<1>3. CASE Cascaded' /\ ~Cascaded
  <2>1. counted' = timer'[0].d + TimerModulus * timer'[1].d
    BY <1>3 DEF Recount
  <2>2. 0 \in Timers /\ 1 \in Timers
    BY <1>3 DEF Cascaded
  <2>3. timer'[0].d \in Int /\ timer'[1].d \in Int /\ TimerModulus \in Int
    BY <2>2, Constants DEF TimerRecords
  <2>4. counted' \in Int
    BY <2>1, <2>3
  <2> QED BY <1>3, <2>1, <2>4 DEF TimersOK, Cascade
<1> QED BY <1>1, <1>2, <1>3

LEMMA WriteTimerKeeps ==
  ASSUME TimersOK, NEW t \in Timers, WriteTimer(t)
  PROVE  TimersOK'
<1>1. timer \in [Timers -> TimerRecords] /\ timer[t] \in TimerRecords
  BY DEF TimersOK
<1> DEFINE d == IF timer[t].on THEN timer[t].d ELSE timer[t].reload
<1>2. PICK on \in BOOLEAN, cascade \in BOOLEAN, irq \in {FALSE, game = "alarm"},
           prescaler \in TIMER_TICKS :
        /\ t = 0 /\ cascade => prescaler \in CascadePrescalers
        /\ timer' = [timer EXCEPT ![t] =
             IF ~on THEN [NoTimer EXCEPT !.reload = timer[t].reload]
             ELSE [on |-> TRUE, irq |-> irq, cascade |-> cascade, d |-> d,
                   reload |-> timer[t].reload, clockReload |-> prescaler,
                   ticks |-> IF ~timer[t].on /\ prescaler = 1 THEN TimerModulus - d
                             ELSE prescaler]]
  BY DEF WriteTimer
<1>3. d \in 0 .. TimerModulus - 1 /\ timer[t].reload \in 0 .. TimerModulus - 1
  BY <1>1 DEF TimerRecords
<1> DEFINE off   == [NoTimer EXCEPT !.reload = timer[t].reload]
           ticks == IF ~timer[t].on /\ prescaler = 1 THEN TimerModulus - d ELSE prescaler
           new   == [on |-> TRUE, irq |-> irq, cascade |-> cascade, d |-> d,
                     reload |-> timer[t].reload, clockReload |-> prescaler, ticks |-> ticks]
<1>4. ticks \in Int /\ irq \in BOOLEAN /\ prescaler \in TIMER_TICKS \cup {0}
  <2>1. prescaler \in Int /\ prescaler \in TIMER_TICKS \cup {0}
    BY Constants
  <2>2. ticks \in Int
    BY <1>3, <2>1, Constants
  <2>3. irq = FALSE \/ irq = (game = "alarm")
    OBVIOUS
  <2>4. irq \in BOOLEAN
    BY <2>3
  <2> QED BY <2>1, <2>2, <2>4
<1>5. off \in TimerRecords /\ ~off.on
  <2>1. 0 \in 0 .. TimerModulus - 1 /\ 0 \in TIMER_TICKS \cup {0} /\ 0 \in Int
    BY Constants
  <2> QED BY <1>3, <2>1 DEF NoTimer, TimerRecords
<1>6. timer' = [timer EXCEPT ![t] = IF ~on THEN off ELSE new]
  BY <1>2
<1>7. timer[t].on => d = timer[t].d
  OBVIOUS
<1> HIDE DEF d, ticks, off
<1>8. new \in TimerRecords /\ new.d = d
  BY <1>3, <1>4 DEF TimerRecords
<1> HIDE DEF new
<1>9. timer' \in [Timers -> TimerRecords]
  BY <1>1, <1>5, <1>6, <1>8
<1>10. Cascaded /\ Cascaded' => timer'[0].d = timer[0].d /\ timer'[1].d = timer[1].d
  BY <1>1, <1>5, <1>6, <1>7, <1>8 DEF Cascaded
<1> QED BY <1>9, <1>10, RecountAgrees DEF WriteTimer

LEMMA WriteReloadKeeps ==
  ASSUME TimersOK, NEW t \in Timers, WriteReload(t)
  PROVE  TimersOK'
<1>1. timer \in [Timers -> TimerRecords] /\ timer[t] \in TimerRecords
  BY DEF TimersOK
<1>2. PICK n \in Reloads : timer' = [timer EXCEPT ![t].reload = n]
  BY DEF WriteReload
<1>3. n \in 0 .. TimerModulus - 1
  BY Constants
<1>4. [timer[t] EXCEPT !.reload = n] \in TimerRecords
  BY <1>1, <1>3 DEF TimerRecords
<1>5. timer' \in [Timers -> TimerRecords]
  BY <1>1, <1>2, <1>4
<1>6. \A k \in Timers : timer'[k].d = timer[k].d
  BY <1>1, <1>2 DEF TimerRecords
<1>7. Cascaded => 1 \in Timers
  BY DEF Cascaded
<1> QED BY <1>1, <1>5, <1>6, <1>7, FirstTimer, RecountAgrees DEF WriteReload

LEMMA TimersCountKeeps ==
  ASSUME SliceOK, TimersOK, TimersCount
  PROVE  TimersOK'
<1>1. CASE stopState
  BY <1>1, TimersUnchanged DEF TimersCount
<1>2. CASE ~stopState
  <2>1. timer \in [Timers -> TimerRecords] /\ clockTicks \in Int
    BY DEF SliceOK, TimersOK
  <2> DEFINE f0 == Ticked(timer[0])
             f1 == Stepped(timer[1], f0.overflow)
             f2 == Stepped(timer[2], f1.overflow)
             f3 == Stepped(timer[3], f2.overflow)
  <2>2. timer' = [t \in Timers |-> timerOverflow[t].timer]
    BY <1>2 DEF TimersCount
  <2>3. /\ 0 \in Timers => timer'[0] = f0.timer
        /\ 1 \in Timers => timer'[1] = f1.timer
        /\ 2 \in Timers => timer'[2] = f2.timer
        /\ 3 \in Timers => timer'[3] = f3.timer
    <3>1. timerOverflow = [t \in Timers |-> CASE t = 0 -> f0 [] t = 1 -> f1
                                             [] t = 2 -> f2 [] t = 3 -> f3]
      BY DEF timerOverflow
    <3> HIDE DEF f0, f1, f2, f3
    <3>2. /\ 0 \in Timers => timerOverflow[0] = f0
          /\ 1 \in Timers => timerOverflow[1] = f1
          /\ 2 \in Timers => timerOverflow[2] = f2
          /\ 3 \in Timers => timerOverflow[3] = f3
      BY <3>1
    <3> QED BY <2>2, <3>2
  <2>4. \A t \in Timers : t \in {0, 1, 2, 3}
    BY Constants DEF Timers
  <2>5. \A t \in Timers : \/ timer'[t] = Ticked(timer[t]).timer
                          \/ \E carry : timer'[t] = Stepped(timer[t], carry).timer
    BY <2>3, <2>4
  <2>6. \A t \in Timers : timer'[t] \in TimerRecords /\ Registers(timer'[t]) = Registers(timer[t])
    BY <2>1, <2>5, TickedKeeps, SteppedKeeps
  <2>7. timer' \in [Timers -> TimerRecords]
    BY <2>2, <2>6
  <2>8. CASE counted = -1
    <3>1. counted' = -1
      BY <1>2, <2>8 DEF TimersCount
    <3> QED BY <2>7, <3>1 DEF TimersOK, Cascade
  <2>9. CASE counted # -1
    <3>1. /\ Cascaded /\ counted = timer[0].d + TimerModulus * timer[1].d
          /\ 0 \in Timers /\ 1 \in Timers
      BY <2>9 DEF TimersOK, Cascade, Cascaded
    <3>2. /\ timer[0].on /\ timer[0].clockReload # 1
          /\ timer[1].on /\ timer[1].cascade /\ timer[0].reload = 0 /\ timer[1].reload = 0
      BY <3>1 DEF Cascaded, TimersOK, Cascade
    <3>3. Cascaded'
      BY <2>6, <3>1, <3>2 DEF Cascaded, Registers
    <3>4. timer[0] \in TimerRecords /\ timer[1] \in TimerRecords
      BY <2>1, <3>1
    <3>5. /\ timer[0].ticks \in Int /\ timer[0].clockReload \in Int
      BY <3>4, RegisterInts
    <3> DEFINE m == TimerModulus
               a == timer[0].d
               b == timer[1].d
    <3>6. /\ m \in Nat /\ 0 < m /\ a \in 0 .. m - 1 /\ b \in 0 .. m - 1
      BY <3>4, Constants DEF TimerRecords
    <3>7. /\ a + m * b \in Nat
          /\ a + 1 # m => (a + m * b + 1) % (m * m) = a + 1 + m * b
          /\ a + 1 = m /\ b + 1 # m => (a + m * b + 1) % (m * m) = m * (b + 1)
          /\ a + 1 = m /\ b + 1 = m => (a + m * b + 1) % (m * m) = 0
      BY <3>6, TwoDigits
    <3>8. CASE timer[0].ticks > clockTicks
      <4> DEFINE r0 == [timer[0] EXCEPT !.ticks = timer[0].ticks - clockTicks]
      <4>1. f0 = Same(r0)
        BY <2>1, <3>2, <3>5, <3>8 DEF Ticked
      <4>2. r0.d = a
        BY <3>4 DEF TimerRecords
      <4>3. f1 = IF f0.overflow THEN Up(timer[1]) ELSE Same(timer[1])
        BY <3>2 DEF Stepped
      <4>4. timer'[0] = f0.timer /\ timer'[1] = f1.timer
        BY <2>3, <3>1
      <4> HIDE DEF r0, f0, f1
      <4>5. timer'[0] = r0 /\ timer'[1] = timer[1]
        BY <4>1, <4>3, <4>4 DEF Same
      <4>6. counted' = counted
        BY <1>2, <2>1, <3>5, <3>8 DEF TimersCount
      <4> QED BY <2>7, <3>1, <3>3, <4>2, <4>5, <4>6 DEF TimersOK, Cascade
    <3>9. CASE timer[0].ticks <= clockTicks
      <4> DEFINE r0 == [timer[0] EXCEPT !.ticks = timer[0].ticks - clockTicks + timer[0].clockReload]
      <4>1. f0 = Up(r0)
        BY <2>1, <3>2, <3>5, <3>9 DEF Ticked
      <4>2. r0 \in TimerRecords /\ r0.d = a /\ r0.reload = 0
        BY <2>1, <3>2, <3>4, <3>5 DEF TimerRecords
      <4>3. f1 = IF f0.overflow THEN Up(timer[1]) ELSE Same(timer[1])
        BY <3>2 DEF Stepped
      <4>4. timer'[0] = f0.timer /\ timer'[1] = f1.timer
        BY <2>3, <3>1
      <4> HIDE DEF r0, f0, f1
      <4>5. /\ f0.overflow <=> a + 1 = m
            /\ timer'[0].d = IF a + 1 = m THEN 0 ELSE a + 1
        BY <4>1, <4>2, <4>4, UpCounts
      <4>6. /\ Up(timer[1]).timer.d = IF b + 1 = m THEN 0 ELSE b + 1
            /\ Same(timer[1]).timer = timer[1]
        BY <3>2, <3>4, UpCounts DEF Same
      <4>7. timer'[1].d = IF a + 1 # m THEN b ELSE IF b + 1 = m THEN 0 ELSE b + 1
        BY <4>3, <4>4, <4>5, <4>6
      <4>8. counted' = (counted + 1) % (m * m)
        BY <1>2, <2>9, <3>9 DEF TimersCount
      <4>9. counted' = timer'[0].d + m * timer'[1].d /\ counted' \in Int
        <5> HIDE DEF m, a, b
        <5>1. counted = a + m * b
          BY <3>1 DEF m, a, b
        <5>2. CASE a + 1 # m
          BY <3>6, <3>7, <4>5, <4>7, <4>8, <5>1, <5>2
        <5>3. CASE a + 1 = m /\ b + 1 # m
          BY <3>6, <3>7, <4>5, <4>7, <4>8, <5>1, <5>3
        <5>4. CASE a + 1 = m /\ b + 1 = m
          BY <3>6, <3>7, <4>5, <4>7, <4>8, <5>1, <5>4
        <5> QED BY <5>2, <5>3, <5>4
      <4> QED BY <2>7, <3>3, <4>9 DEF TimersOK, Cascade
    <3> QED BY <2>1, <3>5, <3>8, <3>9
  <2> QED BY <2>8, <2>9
<1> QED BY <1>1, <1>2

LEMMA TimersKept ==
  ASSUME SliceOK, TimersOK, [Next]_vars
  PROVE  TimersOK'
<1>1. CASE VBAMovieResetIfRequested \/ CPUReset
  BY <1>1, ClearedTimers DEF VBAMovieResetIfRequested, CPUReset
<1>2. CASE TimersCount
  BY <1>2, TimersCountKeeps
<1>3. CASE \E t \in Timers : WriteTimer(t) \/ WriteReload(t)
  BY <1>3, WriteTimerKeeps, WriteReloadKeeps
<1>4. CASE ReadJoypads \/ Halted \/ GoBack \/ NoInterrupt \/ InterruptComes \/ CPUInterrupt
           \/ UNCHANGED vars
  <2>1. UNCHANGED <<timer, counted>>
    BY <1>4 DEF ReadJoypads, Halted, GoBack, NoInterrupt, InterruptComes, CPUInterrupt,
       SliceEnds, vars
  <2> QED BY <2>1, TimersUnchanged
<1>5. CASE NothingDue \/ HBlankBegins \/ NextLine \/ VBlankBegins \/ FirstLine
  <2>1. UNCHANGED <<timer, counted>>
    BY <1>5 DEF NothingDue, HBlankBegins, NextLine, VBlankBegins, FirstLine, LineEnds
  <2> QED BY <2>1, TimersUnchanged
<1>6. CASE SetIrqEnable \/ WriteIE \/ WriteIF \/ WriteIME \/ Halt \/ WriteDISPCNT
           \/ WriteDISPSTAT
  <2>1. UNCHANGED <<timer, counted>>
    BY <1>6 DEF SetIrqEnable, WriteIE, WriteIF, WriteIME, Halt, WriteDISPCNT, WriteDISPSTAT
  <2> QED BY <2>1, TimersUnchanged
<1>7. CASE \E c \in Channels : WriteDMA(c)
  <2>1. UNCHANGED <<timer, counted>>
    BY <1>7 DEF WriteDMA
  <2> QED BY <2>1, TimersUnchanged
<1> QED
  BY <1>1, <1>2, <1>3, <1>4, <1>5, <1>6, <1>7 DEF Next, CPULoop2, Program, updateLoop

-----------------------------------------------------------------------------
\* The channels, the CPU and the interrupts.

DmaOK == dma \in [Channels -> DmaRecords]

LEMMA NoDMAIsOff == NoDMA \in DmaRecords
BY DEF NoDMA, DmaRecords

LEMMA ClearedDma ==
  ASSUME Cleared
  PROVE  DmaOK'
BY NoDMAIsOff DEF Cleared, DmaOK

LEMMA CheckedDma ==
  ASSUME DmaOK, NEW cs, CPUCheckDMA(cs)
  PROVE  DmaOK'
BY NoDMAIsOff DEF CPUCheckDMA, DmaOK

LEMMA DmaKept ==
  ASSUME DmaOK, [Next]_vars
  PROVE  DmaOK'
<1>1. CASE VBAMovieResetIfRequested \/ CPUReset
  BY <1>1, ClearedDma DEF VBAMovieResetIfRequested, CPUReset
<1>2. CASE HBlankBegins \/ VBlankBegins
  BY <1>2, CheckedDma DEF HBlankBegins, VBlankBegins
<1>3. CASE \E c \in Channels : WriteDMA(c)
  <2>1. PICK c \in Channels : WriteDMA(c)
    BY <1>3
  <2>2. PICK on \in BOOLEAN, repeat \in BOOLEAN, irq \in BOOLEAN, timing \in 0 .. 2 :
          dma' = [dma EXCEPT ![c] =
            IF ~on \/ (~dma[c].on /\ on /\ timing = 0) THEN NoDMA
            ELSE [on |-> TRUE, timing |-> timing, repeat |-> repeat, irq |-> irq]]
    BY <2>1 DEF WriteDMA
  <2>3. [on |-> TRUE, timing |-> timing, repeat |-> repeat, irq |-> irq] \in DmaRecords
    BY DEF DmaRecords
  <2> QED BY <2>2, <2>3, NoDMAIsOff DEF DmaOK
<1>4. CASE ReadJoypads \/ Halted \/ GoBack \/ NoInterrupt \/ InterruptComes \/ CPUInterrupt
           \/ TimersCount \/ UNCHANGED vars
  <2>1. UNCHANGED dma
    BY <1>4 DEF ReadJoypads, Halted, GoBack, NoInterrupt, InterruptComes, CPUInterrupt,
       TimersCount, SliceEnds, vars
  <2> QED BY <2>1 DEF DmaOK
<1>5. CASE NothingDue \/ NextLine \/ FirstLine
  BY <1>5 DEF NothingDue, NextLine, FirstLine, DmaOK
<1>6. CASE SetIrqEnable \/ WriteIE \/ WriteIF \/ WriteIME \/ Halt \/ WriteDISPCNT
           \/ WriteDISPSTAT
  <2>1. UNCHANGED dma
    BY <1>6 DEF SetIrqEnable, WriteIE, WriteIF, WriteIME, Halt, WriteDISPCNT, WriteDISPSTAT
  <2> QED BY <2>1 DEF DmaOK
<1>7. CASE \E t \in Timers : WriteTimer(t) \/ WriteReload(t)
  BY <1>7 DEF WriteTimer, WriteReload, DmaOK
<1> QED
  BY <1>1, <1>2, <1>3, <1>4, <1>5, <1>6, <1>7 DEF Next, CPULoop2, Program, updateLoop

\* Every interrupt has a bit of its own.
LEMMA IrqNumbers ==
  /\ VBlankIrq \in Irqs /\ HBlankIrq \in Irqs /\ VCountIrq \in Irqs /\ KeypadIrq \in Irqs
  /\ \A t \in Timers : TimerIrq(t) \in Irqs
  /\ \A c \in Channels : DmaIrq(c) \in Irqs
<1>1. 0 \in Timers /\ \A t \in Timers : t \in 0 .. 3
  BY Constants DEF Timers
<1>2. \A c \in Channels : c \in 0 .. 3
  BY Constants
<1> QED BY <1>1, <1>2 DEF VBlankIrq, HBlankIrq, VCountIrq, KeypadIrq, TimerIrq, DmaIrq, Irqs

LEMMA AskedIrqs ==
  /\ UsedIrqs \subseteq Irqs
  /\ \A line : AskedByLine(line) \subseteq Irqs
  /\ \A cs \in SUBSET Channels : AskedByDMA(cs) \subseteq Irqs
  /\ \A reason : Started(reason) \subseteq Channels
<1>1. UsedIrqs \subseteq Irqs
  <2>1. /\ If(game = "lcd", {VCountIrq}) \subseteq Irqs
        /\ If(game = "stop", {VBlankIrq, KeypadIrq}) \subseteq Irqs
        /\ If(game = "sleep", {KeypadIrq}) \subseteq Irqs
    BY IrqNumbers DEF If
  <2>2. If(game = "alarm", {TimerIrq(0)}) \subseteq Irqs
    BY IrqNumbers, FirstTimer DEF If
  <2>3. If(game = "dma", {DmaIrq(c) : c \in Channels}) \subseteq Irqs
    BY IrqNumbers DEF If
  <2> QED BY <2>1, <2>2, <2>3 DEF UsedIrqs
<1>2. \A line : AskedByLine(line) \subseteq Irqs
  BY IrqNumbers DEF AskedByLine, If
<1>3. \A cs \in SUBSET Channels : AskedByDMA(cs) \subseteq Irqs
  BY IrqNumbers DEF AskedByDMA
<1>4. \A reason : Started(reason) \subseteq Channels
  BY DEF Started
<1> QED BY <1>1, <1>2, <1>3, <1>4

\* The registers of the interrupts.
IrqOK == IE \subseteq Irqs /\ register_IF \subseteq Irqs

LEMMA IrqKept ==
  ASSUME IrqOK, [Next]_vars
  PROVE  IrqOK'
<1>1. IE \subseteq Irqs /\ register_IF \subseteq Irqs
  BY DEF IrqOK
<1>2. CASE VBAMovieResetIfRequested \/ CPUReset
  BY <1>2 DEF VBAMovieResetIfRequested, CPUReset, Cleared, IrqOK
<1>3. CASE ReadJoypads
  BY <1>1, <1>3, IrqNumbers DEF ReadJoypads, If, IrqOK, cpuVars
<1>4. CASE WriteIE
  BY <1>1, <1>4, AskedIrqs DEF WriteIE, IrqOK
<1>5. CASE SetIrqEnable \/ WriteIF \/ WriteIME \/ Halt \/ WriteDISPSTAT
  <2>1. UNCHANGED IE /\ register_IF' \subseteq register_IF
    BY <1>5 DEF SetIrqEnable, WriteIF, WriteIME, Halt, WriteDISPSTAT
  <2> QED BY <1>1, <2>1 DEF IrqOK
<1>6. CASE WriteDISPCNT
  BY <1>1, <1>6, AskedIrqs DEF WriteDISPCNT, IrqOK
<1>7. CASE \E t \in Timers : WriteTimer(t) \/ WriteReload(t)
  BY <1>1, <1>7 DEF WriteTimer, WriteReload, IrqOK
<1>8. CASE \E c \in Channels : WriteDMA(c)
  <2>1. PICK c \in Channels : WriteDMA(c)
    BY <1>8
  <2>2. UNCHANGED IE /\ register_IF' \subseteq register_IF \cup {DmaIrq(c)}
    BY <2>1 DEF WriteDMA, If
  <2> QED BY <1>1, <2>2, IrqNumbers DEF IrqOK
<1>9. CASE Halted \/ GoBack \/ NoInterrupt \/ InterruptComes \/ CPUInterrupt \/ NothingDue
           \/ UNCHANGED vars
  <2>1. UNCHANGED <<IE, register_IF>>
    BY <1>9 DEF Halted, GoBack, NoInterrupt, InterruptComes, CPUInterrupt, NothingDue,
       SliceEnds, vars, cpuVars
  <2> QED BY <1>1, <2>1 DEF IrqOK
<1>10. CASE HBlankBegins
  <2>1. PICK cs \in SUBSET Channels :
          register_IF' = register_IF \cup AskedByDMA(cs)
                         \cup If("HBLANK_IRQ" \in DISPSTAT, {HBlankIrq})
    BY <1>10, AskedIrqs DEF HBlankBegins
  <2>2. UNCHANGED IE
    BY <1>10 DEF HBlankBegins, cpuVars
  <2> QED BY <1>1, <2>1, <2>2, AskedIrqs, IrqNumbers DEF IrqOK, If
<1>11. CASE NextLine \/ FirstLine
  <2>1. UNCHANGED IE
    BY <1>11 DEF NextLine, FirstLine, LineEnds, cpuVars
  <2>2. register_IF' \subseteq Irqs
    BY <1>1, <1>11, AskedIrqs DEF NextLine, FirstLine
  <2> QED BY <1>1, <2>1, <2>2 DEF IrqOK
<1>12. CASE VBlankBegins
  <2>1. register_IF' = register_IF \cup AskedByDMA(Started(1)) \cup AskedByLine(VCOUNT')
                       \cup If("VBLANK_IRQ" \in DISPSTAT, {VBlankIrq})
    BY <1>12 DEF VBlankBegins
  <2>2. UNCHANGED IE
    BY <1>12 DEF VBlankBegins, LineEnds, cpuVars
  <2>3. If("VBLANK_IRQ" \in DISPSTAT, {VBlankIrq}) \subseteq Irqs
    BY IrqNumbers DEF If
  <2> QED BY <1>1, <2>1, <2>2, <2>3, AskedIrqs DEF IrqOK
<1>13. CASE TimersCount
  <2>1. UNCHANGED IE
    BY <1>13 DEF TimersCount, cpuVars
  <2>2. register_IF' \subseteq register_IF \cup {TimerIrq(t) : t \in Timers}
    BY <1>13 DEF TimersCount
  <2> QED BY <1>1, <2>1, <2>2, IrqNumbers DEF IrqOK
<1> QED
  BY <1>2, <1>3, <1>4, <1>5, <1>6, <1>7, <1>8, <1>9, <1>10, <1>11, <1>12, <1>13
  DEF Next, CPULoop2, Program, updateLoop

\* The switches of the CPU.
SwitchesOK ==
  /\ game \in Games /\ newFrame \in BOOLEAN
  /\ holdState \in BOOLEAN /\ stopState \in BOOLEAN /\ intState \in BOOLEAN
  /\ armIrqEnable \in BOOLEAN /\ IME \in BOOLEAN

LEMMA ExecuteSwitches ==
  ASSUME NEW breaks, Execute(breaks)
  PROVE  UNCHANGED <<game, newFrame, intState>>
BY DEF Execute

LEMMA SwitchesKept ==
  ASSUME SwitchesOK, [Next]_vars
  PROVE  SwitchesOK'
<1>1. CASE VBAMovieResetIfRequested \/ CPUReset
  <2>1. Cleared /\ newFrame' \in BOOLEAN /\ UNCHANGED game
    BY <1>1 DEF VBAMovieResetIfRequested, CPUReset, EnterLoop, SwitchesOK
  <2> QED BY <2>1 DEF Cleared, If, SwitchesOK
<1>2. CASE ReadJoypads
  BY <1>2 DEF ReadJoypads, EnterLoop, SwitchesOK, cpuVars
<1>3. CASE Program
  <2>1. UNCHANGED <<game, newFrame, intState>>
    BY <1>3, ProgramExecutes, ExecuteSwitches
  <2>2. CASE SetIrqEnable
    <3>1. UNCHANGED <<holdState, stopState, IME>>
      BY <2>2 DEF SetIrqEnable
    <3>2. armIrqEnable' \in BOOLEAN
      BY <2>2 DEF SetIrqEnable, If, SwitchesOK
    <3> QED BY <2>1, <3>1, <3>2 DEF SwitchesOK
  <2>3. CASE WriteIME
    <3>1. UNCHANGED <<holdState, stopState, armIrqEnable>>
      BY <2>3 DEF WriteIME
    <3>2. IME' \in BOOLEAN
      BY <2>3 DEF WriteIME, If
    <3> QED BY <2>1, <3>1, <3>2 DEF SwitchesOK
  <2>4. CASE Halt
    <3>1. UNCHANGED <<armIrqEnable, IME>> /\ holdState' = TRUE
      BY <2>4 DEF Halt
    <3>2. stopState' \in BOOLEAN
      BY <2>4 DEF Halt, If, SwitchesOK
    <3> QED BY <2>1, <3>1, <3>2 DEF SwitchesOK
  <2>5. CASE WriteIE \/ WriteIF \/ WriteDISPCNT \/ WriteDISPSTAT
    <3>1. UNCHANGED <<holdState, stopState, armIrqEnable, IME>>
      BY <2>5 DEF WriteIE, WriteIF, WriteDISPCNT, WriteDISPSTAT
    <3> QED BY <2>1, <3>1 DEF SwitchesOK
  <2>6. CASE \E t \in Timers : WriteTimer(t) \/ WriteReload(t)
    <3>1. UNCHANGED <<holdState, stopState, armIrqEnable, IME>>
      BY <2>6 DEF WriteTimer, WriteReload
    <3> QED BY <2>1, <3>1 DEF SwitchesOK
  <2>7. CASE \E c \in Channels : WriteDMA(c)
    <3>1. UNCHANGED <<holdState, stopState, armIrqEnable, IME>>
      BY <2>7 DEF WriteDMA
    <3> QED BY <2>1, <3>1 DEF SwitchesOK
  <2> QED BY <1>3, <2>2, <2>3, <2>4, <2>5, <2>6, <2>7 DEF Program
<1>4. CASE Halted \/ GoBack \/ NothingDue \/ HBlankBegins \/ TimersCount \/ UNCHANGED vars
  <2>1. UNCHANGED <<game, newFrame, cpuVars>>
    BY <1>4 DEF Halted, GoBack, NothingDue, HBlankBegins, TimersCount, vars
  <2> QED BY <2>1 DEF SwitchesOK, cpuVars
<1>5. CASE NextLine \/ VBlankBegins \/ FirstLine
  <2>1. UNCHANGED <<game, cpuVars>>
    BY <1>5 DEF NextLine, VBlankBegins, FirstLine, LineEnds
  <2>2. newFrame' \in BOOLEAN
    BY <1>5 DEF NextLine, VBlankBegins, FirstLine, SwitchesOK
  <2> QED BY <2>1, <2>2 DEF SwitchesOK, cpuVars
<1>6. CASE NoInterrupt \/ InterruptComes
  <2>1. UNCHANGED <<game, newFrame, IME, holdState, stopState, armIrqEnable>>
    BY <1>6 DEF NoInterrupt, InterruptComes, SliceEnds
  <2>2. intState' \in BOOLEAN
    BY <1>6 DEF NoInterrupt, InterruptComes, SwitchesOK
  <2> QED BY <2>1, <2>2 DEF SwitchesOK
<1>7. CASE CPUInterrupt
  <2>1. UNCHANGED <<game, newFrame, IME>>
    BY <1>7 DEF CPUInterrupt, SliceEnds
  <2>2. /\ holdState' = FALSE /\ intState' = FALSE /\ armIrqEnable' = FALSE
        /\ stopState' = FALSE \/ stopState' = stopState
    BY <1>7 DEF CPUInterrupt
  <2> QED BY <2>1, <2>2 DEF SwitchesOK
<1> QED BY <1>1, <1>2, <1>3, <1>4, <1>5, <1>6, <1>7 DEF Next, CPULoop2, updateLoop

-----------------------------------------------------------------------------
\* The invariant.

LEMMA InvariantParts ==
  IInv <=> SliceOK /\ SwitchesOK /\ IrqOK /\ ScreenOK /\ TimersOK /\ DmaOK
<1>1. CpuOK <=> SwitchesOK /\ IrqOK
  BY DEF CpuOK, SwitchesOK, IrqOK
<1> QED BY <1>1, TypeParts DEF IInv, ScreenOK, TimersOK, DmaOK

LEMMA InitiallyIInv ==
  ASSUME Init
  PROVE  IInv
<1>1. SliceOK /\ SwitchesOK /\ IrqOK
  <2>1. SliceOK
    BY DEF Init, SliceOK
  <2>2. SwitchesOK
    BY DEF Init, SwitchesOK
  <2>3. IrqOK
    BY DEF Init, IrqOK
  <2> QED BY <2>1, <2>2, <2>3
<1>2. ScreenOK
  BY Constants DEF Init, ScreenOK, LcdOK, VBlankIsShown, LinesKeepTime
<1>3. TimersOK
  <2>1. 0 \in 0 .. TimerModulus - 1 /\ 0 \in TIMER_TICKS \cup {0} /\ 0 \in Int
    BY Constants
  <2>2. NoTimer \in TimerRecords
    BY <2>1 DEF NoTimer, TimerRecords
  <2>3. timer \in [Timers -> TimerRecords]
    BY <2>2 DEF Init
  <2> QED BY <2>3 DEF Init, TimersOK, Cascade
<1>4. DmaOK
  BY NoDMAIsOff DEF Init, DmaOK
<1> QED BY <1>1, <1>2, <1>3, <1>4, InvariantParts

LEMMA IInvKept ==
  ASSUME IInv, [Next]_vars
  PROVE  IInv'
<1>1. SliceOK /\ SwitchesOK /\ IrqOK /\ ScreenOK /\ TimersOK /\ DmaOK /\ TypeOK
  BY InvariantParts DEF IInv
<1>2. (SliceOK /\ SwitchesOK /\ IrqOK /\ ScreenOK /\ TimersOK /\ DmaOK)'
  BY <1>1, SliceKept, SwitchesKept, IrqKept, ScreenKept, TimersKept, DmaKept
<1>3. (SliceOK /\ SwitchesOK /\ IrqOK /\ ScreenOK /\ TimersOK /\ DmaOK)' => IInv'
  BY InvariantParts, PTL
<1> QED BY <1>2, <1>3

\* The clockwork never leaves the invariant.
THEOREM Invariant == Spec => []IInv
<1>1. Init => IInv
  BY InitiallyIInv
<1>2. IInv /\ [Next]_vars => IInv'
  BY IInvKept
<1> QED BY <1>1, <1>2, PTL DEF Spec

\* Every register keeps its type, VCOUNT in the range of the lines and the counters of
\* the timers in theirs (CPULoop2 and all that it calls).
THEOREM TypesAreKept == Spec => []TypeOK
<1>1. IInv => TypeOK
  BY DEF IInv
<1> QED BY <1>1, Invariant, PTL

\* The V-blank flag is set in the lines of the V-blank and in no other, for any number
\* of lines (CPULoop2's update of DISPSTAT and VCOUNT).
THEOREM VBlankFlagIsRight == Spec => []VBlankIsShown
<1>1. IInv => VBlankIsShown
  BY DEF IInv
<1> QED BY <1>1, Invariant, PTL

\* A line takes its time, for any timing, wherever the slices are cut and however late
\* an event is found (CPULoop2's lcdTicks).
THEOREM LinesTakeTheirTime == Spec => []LinesKeepTime
<1>1. IInv => LinesKeepTime
  BY DEF IInv
<1> QED BY <1>1, Invariant, PTL

\* Two timers in cascade are one counter, for any modulus and prescaler (timerOverflow).
THEOREM TimersInCascade == Spec => []CascadeIsOneCounter
<1>1. IInv => CascadeIsOneCounter
  BY DEF IInv, Cascade, CascadeIsOneCounter
<1> QED BY <1>1, Invariant, PTL
=============================================================================
