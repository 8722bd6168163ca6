------------------------------- MODULE GbaIo -------------------------------
\* The clockwork of the Game Boy Advance core, gba/GBA.cpp: screen timing, timers,
\* DMA and interrupts around CPULoop2.  The CPU runs a slice of cpuLoopTicks, the
\* time until the next event, and then the devices are given the ticks of the slice
\* at once (updateLoop).  pc names the part of CPULoop2 that runs next; between two
\* calls, which end with the frame, pc = "call".
\*
\* Instructions are told apart by what they do to the clockwork.  What the game uses
\* is fixed at the start, which keeps the devices' states from being multiplied.
\* A write to a device ends the slice only where the code has a CPU_BREAK_LOOP.
EXTENDS Integers

CONSTANTS
  DRAW, HBLANK,      \* ticks of the two parts of a line: 960, 272
  Lines, AllLines,   \* lines of the screen, and with the V-blank: 160, 228
  IrqTicks,          \* what the CPU still runs before an interrupt: 5
  TIMER_TICKS,       \* the prescalers
  CascadePrescalers, \* ... with which the game sets the cascade bit of timer 0
  TimerModulus,      \* a timer has 16 bits
  LastTimer,         \* the timers are 0 .. LastTimer: 3
  Channels,          \* the DMA channels
  DmaTicks,          \* what a transfer may take
  InstructionTicks,  \* what an instruction takes
  Reloads,           \* what the game writes to a timer's reload value
  LycValues,         \* ... and to the upper byte of DISPSTAT
  Games              \* what a game uses: "lcd", "cascade", "alarm", "dma", "stop", "sleep"

Timers == 0 .. LastTimer
\* The interrupts, as the numbers of their bits in IE and IF.
VBlankIrq == 0
HBlankIrq == 1
VCountIrq == 2
SerialIrq == 7
KeypadIrq == 12
GamePakIrq == 13
TimerIrq(t) == 3 + t
DmaIrq(c) == 8 + c
Irqs == 0 .. 13
StopIrqs == {SerialIrq, KeypadIrq, GamePakIrq}                   \* 0x3080

ASSUME TicksAssumption ==
  /\ {DRAW, HBLANK, Lines, IrqTicks, TimerModulus} \subseteq Nat \ {0}
  /\ AllLines \in Nat /\ Lines < AllLines
  /\ TIMER_TICKS \subseteq Nat \ {0} /\ InstructionTicks \subseteq Nat \ {0}
  /\ CascadePrescalers \subseteq TIMER_TICKS
  /\ LastTimer \in 0 .. 3 /\ Channels \subseteq 0 .. 3 /\ DmaTicks \subseteq Nat
  /\ Reloads \subseteq 0 .. TimerModulus - 1 /\ LycValues \subseteq 0 .. AllLines

VARIABLES
  pc, game, newFrame,
  clockTicks, cpuLoopTicks, cpuSavedTicks, cpuDmaTicksToUpdate,
  holdState, stopState, intState, armIrqEnable, IE, register_IF, IME,
  lcdTicks, VCOUNT, DISPSTAT,   \* the low six bits of DISPSTAT, a set
  lyc,                          \* ... and its upper byte
  timer, dma,
  inLine,     \* history: the ticks since the line began
  counted     \* history: what timer 0 counted since timer 1 counts its overflows

sliceVars == <<clockTicks, cpuLoopTicks, cpuSavedTicks, cpuDmaTicksToUpdate>>
cpuVars == <<holdState, stopState, intState, armIrqEnable, IE, IME>>
lcdVars == <<lcdTicks, VCOUNT, DISPSTAT, lyc, inLine>>
vars == <<pc, game, newFrame, sliceVars, cpuVars, register_IF, lcdVars, timer, counted, dma>>

If(b, S) == IF b THEN S ELSE {}

NoTimer == [on |-> FALSE, cascade |-> FALSE, irq |-> FALSE, d |-> 0, reload |-> 0,
            clockReload |-> 0, ticks |-> 0]
NoDMA == [on |-> FALSE, timing |-> 0, repeat |-> FALSE, irq |-> FALSE]

\* The interrupts a game may want to have.
UsedIrqs ==
  If(game = "lcd", {VCountIrq}) \cup If(game = "stop", {VBlankIrq, KeypadIrq})
  \cup If(game = "sleep", {KeypadIrq})
  \cup If(game = "alarm", {TimerIrq(0)})
  \cup If(game = "dma", {DmaIrq(c) : c \in Channels})

-----------------------------------------------------------------------------
\* The slice.

Due(t) == timer[t].on /\ ~timer[t].cascade

\* The ticks until the first of the screen's and the timers' events, or fewer: the
\* sound, whose ticks are always positive, may come first.
FirstOf(events) == {n \in events \cup 1 .. lcdTicks : \A k \in events : n <= k}

\* CPUUpdateTicks
NextEvents == FirstOf({lcdTicks} \cup {timer[t].ticks : t \in {t \in Timers : Due(t)}})

\* The two counters of the CPU are of a slice, and clockTicks is of what follows it.
NewSlice(slice) ==
  /\ clockTicks' = 0
  /\ \E n \in slice : cpuLoopTicks' = n /\ cpuSavedTicks' = n
SliceOver == cpuLoopTicks' = 0 /\ cpuSavedTicks' = 0

\* An instruction of c ticks.  If it breaks the loop at b ticks, the slice ends.
Spend(c, b, breaks) ==
  LET saved == IF breaks THEN cpuSavedTicks - cpuLoopTicks ELSE cpuSavedTicks
      left  == (IF breaks THEN b ELSE cpuLoopTicks) - c
  IN  IF left > 0
        THEN /\ pc' = "cpu"
             /\ cpuLoopTicks' = left /\ cpuSavedTicks' = saved
             /\ UNCHANGED <<clockTicks, cpuDmaTicksToUpdate>>
        ELSE /\ pc' = "lcd"
             /\ SliceOver
             /\ clockTicks' = IF saved # 0 THEN saved ELSE c
             /\ cpuDmaTicksToUpdate' = -left

Execute(breaks) ==
  /\ pc = "cpu" /\ ~holdState
  /\ \E c \in InstructionTicks : \E b \in 1 .. c : Spend(c, b, breaks)
  /\ UNCHANGED <<game, newFrame, intState>>

\* A halted CPU waits for any device, timers that count overflows included.
Halted ==
  /\ pc = "cpu" /\ holdState
  /\ \E c \in FirstOf({lcdTicks} \cup {timer[t].ticks : t \in {t \in Timers : timer[t].on}}) :
       Spend(c, c, FALSE)
  /\ UNCHANGED <<game, newFrame, cpuVars, register_IF, lcdVars, timer, counted, dma>>

\* CPUReset leaves stopState and intState alone; with a BIOS file the game starts
\* with its interrupts off.
Cleared ==
  /\ holdState' = FALSE /\ armIrqEnable' \in {TRUE} \cup If(UsedIrqs # {}, {FALSE})
  /\ IE' = {} /\ register_IF' = {} /\ IME' = FALSE
  /\ lcdTicks' = DRAW /\ VCOUNT' = 0 /\ DISPSTAT' = {} /\ lyc' = 0 /\ inLine' = 0
  /\ timer' = [t \in Timers |-> NoTimer] /\ counted' = -1
  /\ dma' = [c \in Channels |-> NoDMA]
  /\ UNCHANGED <<stopState, intState>>

\* The user's reset, between two calls.
CPUReset ==
  /\ pc = "call"
  /\ Cleared
  /\ UNCHANGED <<pc, game, newFrame, sliceVars>>

\* Mutant: the frame that ended is not forgotten.
EnterAnyFrame ==
  /\ pc = "call" /\ newFrame
  /\ pc' = "cpu" /\ UNCHANGED newFrame
  /\ NewSlice(IF intState THEN {IrqTicks} ELSE NextEvents)
  /\ UNCHANGED <<game, cpuDmaTicksToUpdate>>

\* The call begins: the first slice, the buttons of the frame ...
EnterLoop ==
  /\ pc = "call" /\ newFrame
  /\ pc' = "cpu" /\ newFrame' = FALSE
  /\ NewSlice(IF intState THEN {IrqTicks} ELSE NextEvents)
  /\ UNCHANGED <<game, cpuDmaTicksToUpdate>>
ReadJoypads ==
  /\ EnterLoop
  /\ \E asked \in SUBSET (UsedIrqs \cap {KeypadIrq}) : register_IF' = register_IF \cup asked
  /\ UNCHANGED <<cpuVars, lcdVars, timer, counted, dma>>

\* ... and the reset of a movie, with the slice that was computed before it.
VBAMovieResetIfRequested == EnterLoop /\ Cleared

-----------------------------------------------------------------------------
\* What the game does: CPUUpdateRegister, CPUUpdateFlags and the BIOS calls.

Pending(enabled) == register_IF \cap enabled # {}

\* MSR, a return from a handler, or an instruction that leaves all of this alone.
SetIrqEnable ==
  /\ \E written \in BOOLEAN : \E on \in IF written THEN If(UsedIrqs # {}, BOOLEAN)
                                        ELSE {armIrqEnable} :
       /\ armIrqEnable' = on
       /\ Execute(written /\ on /\ Pending(IE) /\ IME)
  /\ UNCHANGED <<holdState, stopState, IE, register_IF, IME, lcdVars, timer, counted, dma>>

WriteIE ==
  /\ \E enabled \in SUBSET UsedIrqs :
       /\ IE' = enabled
       /\ Execute(IME /\ Pending(enabled) /\ armIrqEnable)
  /\ UNCHANGED <<holdState, stopState, armIrqEnable, register_IF, IME, lcdVars, timer, counted,
                 dma>>

WriteIF ==
  /\ Execute(FALSE)
  /\ \E value \in SUBSET register_IF \ {{}} : register_IF' = register_IF \ value
  /\ UNCHANGED <<holdState, stopState, armIrqEnable, IE, IME, lcdVars, timer, counted, dma>>

WriteIME ==
  /\ \E on \in If(UsedIrqs # {}, BOOLEAN) :
       /\ IME' = on
       /\ Execute(on /\ Pending(IE) /\ armIrqEnable)
  /\ UNCHANGED <<holdState, stopState, armIrqEnable, IE, register_IF, lcdVars, timer, counted, dma>>

\* Halt (SWI 2, or 0 to HALTCNT) and Stop (SWI 3, 0x80).
Halt ==
  /\ Execute(FALSE)
  /\ holdState' = TRUE
  /\ stopState' \in {stopState} \cup If(game \in {"stop", "sleep"}, {TRUE})
  /\ UNCHANGED <<armIrqEnable, IE, register_IF, IME, lcdVars, timer, counted, dma>>

\* CPUCompareVCOUNT, of the line and the flags that are about to be.
Compared(line, flags) ==
  IF line = lyc THEN flags \cup {"VCOUNT"} ELSE flags \ {"VCOUNT"}
AskedByLine(line) == If(line = lyc /\ "VCOUNT_IRQ" \in DISPSTAT, {VCountIrq})

\* Mutant: the line begins anew, and its ticks do not.
WriteDISPCNTAlone ==
  /\ game = "lcd" /\ Execute(FALSE)
  /\ "VBLANK" \notin DISPSTAT
  /\ DISPSTAT' = Compared(VCOUNT, DISPSTAT \ {"VBLANK", "HBLANK"})
  /\ register_IF' = register_IF \cup AskedByLine(VCOUNT)
  /\ inLine' = 0
  /\ UNCHANGED <<holdState, stopState, armIrqEnable, IE, IME, lcdTicks, VCOUNT, lyc, timer,
                 counted, dma>>

\* DISPCNT: the forced blank ends, and with it the line, outside the V-blank.
WriteDISPCNT ==
  /\ game = "lcd" /\ Execute(FALSE)
  /\ "VBLANK" \notin DISPSTAT
  /\ lcdTicks' = DRAW
  /\ DISPSTAT' = Compared(VCOUNT, DISPSTAT \ {"VBLANK", "HBLANK"})
  /\ register_IF' = register_IF \cup AskedByLine(VCOUNT)
  /\ inLine' = 0
  /\ UNCHANGED <<holdState, stopState, armIrqEnable, IE, IME, VCOUNT, lyc, timer,
                 counted, dma>>

LcdIrqs == {"VBLANK_IRQ", "HBLANK_IRQ", "VCOUNT_IRQ"}

WriteDISPSTAT ==
  /\ game \in {"lcd", "stop"} /\ Execute(FALSE)
  /\ \E enabled \in SUBSET (IF game = "lcd" THEN {"HBLANK_IRQ", "VCOUNT_IRQ"}
                           ELSE {"VBLANK_IRQ"}) :
       DISPSTAT' = (DISPSTAT \ LcdIrqs) \cup enabled
  /\ lyc' \in {lyc} \cup If(game = "lcd", LycValues)
  /\ UNCHANGED <<holdState, stopState, armIrqEnable, IE, register_IF, IME, lcdTicks, VCOUNT,
                 inLine, timer, counted, dma>>

\* Timer 1 counts the overflows of timer 0, from 0 to the end.
Cascaded ==
  /\ {0, 1} \subseteq Timers
  /\ timer[0].on /\ timer[0].clockReload # 1 /\ timer[0].reload = 0
  /\ timer[1].on /\ timer[1].cascade /\ timer[1].reload = 0
Recount ==
  counted' = IF ~Cascaded' THEN -1
             ELSE IF Cascaded THEN counted
             ELSE timer'[0].d + TimerModulus * timer'[1].d

\* TMxCNT: the prescaler starts anew, the counter only when the timer is switched on.
\* Timer 0 has the cascade bit too, and keeps it.  Of a timer that is off only the
\* reload value is looked at again.
WriteTimer(t) ==
  /\ game = "cascade" \/ (game \in {"alarm", "sleep"} /\ t = 0)
  /\ Execute(FALSE)
  /\ \E on, cascade \in BOOLEAN, irq \in {FALSE, game = "alarm"}, prescaler \in TIMER_TICKS :
       LET d == IF timer[t].on THEN timer[t].d ELSE timer[t].reload
       IN  /\ t = 0 /\ cascade => prescaler \in CascadePrescalers
           /\ timer' = [timer EXCEPT ![t] =
                IF ~on THEN [NoTimer EXCEPT !.reload = timer[t].reload]
                ELSE [on |-> TRUE, irq |-> irq, cascade |-> cascade, d |-> d,
                      reload |-> timer[t].reload, clockReload |-> prescaler,
                      ticks |-> IF ~timer[t].on /\ prescaler = 1 THEN TimerModulus - d
                                ELSE prescaler]]
  /\ Recount
  /\ UNCHANGED <<holdState, stopState, armIrqEnable, IE, register_IF, IME, lcdVars, dma>>

WriteReload(t) ==
  /\ game = "cascade" \/ (game = "alarm" /\ t = 0)
  /\ Execute(FALSE)
  /\ \E n \in Reloads : timer' = [timer EXCEPT ![t].reload = n]
  /\ Recount
  /\ UNCHANGED <<holdState, stopState, armIrqEnable, IE, register_IF, IME, lcdVars, dma>>

\* DMxCNT_H: switching a channel on starts it, and at once if its timing is 0
\* (CPUCheckDMA).  The loop is broken by doDMA, and what it took is forgotten.  Of a
\* channel that is off nothing is looked at again.
WriteDMA(c) ==
  /\ game = "dma"
  /\ \E on, repeat, irq \in BOOLEAN, timing \in 0 .. 2 :
       LET atOnce == ~dma[c].on /\ on /\ timing = 0
       IN  /\ Execute(atOnce /\ cpuLoopTicks >= 0)
           /\ dma' = [dma EXCEPT ![c] =
                IF ~on \/ atOnce THEN NoDMA
                ELSE [on |-> TRUE, timing |-> timing, repeat |-> repeat, irq |-> irq]]
           /\ register_IF' = register_IF \cup If(atOnce /\ irq, {DmaIrq(c)})
  /\ UNCHANGED <<holdState, stopState, armIrqEnable, IE, IME, lcdVars, timer, counted>>

-----------------------------------------------------------------------------
\* updateLoop: the screen.

Left == lcdTicks - clockTicks
LcdTurn == pc = "lcd" /\ pc' = "timers"

\* CPUCheckDMA(reason, 0x0f)
Started(reason) == {c \in Channels : dma[c].on /\ dma[c].timing = reason}
AskedByDMA(cs) == {DmaIrq(c) : c \in {c \in cs : dma[c].irq}}
CPUCheckDMA(cs) ==
  /\ dma' = [c \in Channels |-> IF c \in cs /\ ~dma[c].repeat THEN NoDMA ELSE dma[c]]
  /\ \E ticks \in [cs -> DmaTicks] :
       LET Cost(c) == IF c \in cs THEN ticks[c] ELSE 0
       IN  cpuDmaTicksToUpdate' = cpuDmaTicksToUpdate + Cost(0) + Cost(1) + Cost(2) + Cost(3)

\* Mutant: a negative slice does not put the screen's event off.
NothingDueForward ==
  /\ LcdTurn /\ Left > 0
  /\ lcdTicks' = (IF clockTicks > 0 THEN Left ELSE lcdTicks) /\ inLine' = inLine + clockTicks
  /\ UNCHANGED <<game, newFrame, sliceVars, cpuVars, register_IF, VCOUNT, DISPSTAT, lyc, timer,
                 counted, dma>>

NothingDue ==
  /\ LcdTurn /\ Left > 0
  /\ lcdTicks' = Left /\ inLine' = inLine + clockTicks
  /\ UNCHANGED <<game, newFrame, sliceVars, cpuVars, register_IF, VCOUNT, DISPSTAT, lyc, timer,
                 counted, dma>>

\* The H-blank DMA is for the lines of the screen.
HBlankBegins ==
  /\ LcdTurn /\ Left <= 0 /\ "HBLANK" \notin DISPSTAT
  /\ lcdTicks' = Left + HBLANK /\ inLine' = inLine + clockTicks
  /\ DISPSTAT' = DISPSTAT \cup {"HBLANK"}
  /\ LET cs == IF "VBLANK" \in DISPSTAT THEN {} ELSE Started(2)
     IN  /\ CPUCheckDMA(cs)
         /\ register_IF' = register_IF \cup AskedByDMA(cs)
                     \cup If("HBLANK_IRQ" \in DISPSTAT, {HBlankIrq})
  /\ UNCHANGED <<game, newFrame, clockTicks, cpuLoopTicks, cpuSavedTicks, cpuVars,
                 VCOUNT, lyc, timer, counted>>

LineEnds ==
  /\ LcdTurn /\ Left <= 0 /\ "HBLANK" \in DISPSTAT
  /\ lcdTicks' = Left + DRAW
  /\ inLine' = inLine + clockTicks - (DRAW + HBLANK)
  /\ UNCHANGED <<game, clockTicks, cpuLoopTicks, cpuSavedTicks, cpuVars, lyc, timer, counted>>

\* The next line of the screen or of the V-blank.
NextLine ==
  /\ LineEnds
  /\ VCOUNT' = VCOUNT + 1
  /\ IF "VBLANK" \in DISPSTAT THEN VCOUNT' < AllLines ELSE VCOUNT' # Lines
  /\ DISPSTAT' = Compared(VCOUNT', DISPSTAT \ {"HBLANK"})
  /\ register_IF' = register_IF \cup AskedByLine(VCOUNT')
  /\ UNCHANGED <<newFrame, cpuDmaTicksToUpdate, dma>>

\* The V-blank begins, and the frame is over: this is what ends the call.
VBlankBegins ==
  /\ LineEnds
  /\ VCOUNT' = VCOUNT + 1
  /\ "VBLANK" \notin DISPSTAT /\ VCOUNT' = Lines
  /\ DISPSTAT' = Compared(VCOUNT', (DISPSTAT \ {"HBLANK"}) \cup {"VBLANK"})
  /\ LET cs == Started(1)
     IN  /\ CPUCheckDMA(cs)
         /\ register_IF' = register_IF \cup AskedByDMA(cs) \cup AskedByLine(VCOUNT')
                     \cup If("VBLANK_IRQ" \in DISPSTAT, {VBlankIrq})
  /\ newFrame' = TRUE

\* After the last line VCOUNT is compared twice: as AllLines and as 0.
FirstLine ==
  /\ LineEnds
  /\ "VBLANK" \in DISPSTAT /\ VCOUNT + 1 >= AllLines
  /\ VCOUNT' = 0
  /\ DISPSTAT' = Compared(0, DISPSTAT \ {"VBLANK", "HBLANK"})
  /\ register_IF' = register_IF \cup AskedByLine(VCOUNT + 1) \cup AskedByLine(0)
  /\ UNCHANGED <<newFrame, cpuDmaTicksToUpdate, dma>>

-----------------------------------------------------------------------------
\* updateLoop: the timers, unless the CPU is stopped.

Up(r) == IF r.d + 1 = TimerModulus
         THEN [timer |-> [r EXCEPT !.d = r.reload], overflow |-> TRUE]
         ELSE [timer |-> [r EXCEPT !.d = r.d + 1], overflow |-> FALSE]

\* With prescaler 1 the ticks are added at once, as unsigned numbers.
AddTicks(r) ==
  LET total == r.d + clockTicks
      over  == total \notin 0 .. TimerModulus - 1
      d     == (IF over THEN total + r.reload ELSE total) % TimerModulus
  IN  [timer |-> [r EXCEPT !.d = d, !.ticks = TimerModulus - d], overflow |-> over]

Same(r) == [timer |-> r, overflow |-> FALSE]

\* A timer that counts the ticks of the slice ...
Ticked(r) ==
  LET left == r.ticks - clockTicks
  IN  CASE ~r.on -> Same(r)
        [] r.on /\ r.clockReload = 1 -> AddTicks(r)
        [] r.on /\ r.clockReload # 1 ->
             IF left > 0 THEN Same([r EXCEPT !.ticks = left])
             ELSE Up([r EXCEPT !.ticks = left + r.clockReload])
\* ... or the overflows of the one before it.
Stepped(r, carry) ==
  IF r.on /\ r.cascade THEN IF carry THEN Up(r) ELSE Same(r) ELSE Ticked(r)

\* Mutant: the bit of the first timer is cleared before the second is counted.
timerOverflowLost ==
  [t \in Timers |-> IF t = 0 THEN Ticked(timer[0]) ELSE Stepped(timer[t], FALSE)]

\* timerOverflow: the timers are counted in their order, so that an overflow is
\* counted by the next one in the same turn.  The first one has none before it: its
\* cascade bit only keeps it from ending the slices (CPUUpdateTicks).
timerOverflow ==
  LET f0 == Ticked(timer[0])
      f1 == Stepped(timer[1], f0.overflow)
      f2 == Stepped(timer[2], f1.overflow)
      f3 == Stepped(timer[3], f2.overflow)
  IN  [t \in Timers |-> CASE t = 0 -> f0 [] t = 1 -> f1 [] t = 2 -> f2 [] t = 3 -> f3]

\* Mutant: an overflow is counted, and its interrupt is not asked for.
TimersCountUnasked ==
  /\ pc = "timers" /\ pc' = "end"
  /\ IF stopState THEN UNCHANGED <<timer, counted>>
     ELSE /\ timer' = [t \in Timers |-> timerOverflow[t].timer]
          /\ counted' = IF counted # -1 /\ timer[0].ticks <= clockTicks
                        THEN (counted + 1) % (TimerModulus * TimerModulus)
                        ELSE counted
  /\ UNCHANGED <<game, newFrame, sliceVars, cpuVars, register_IF, lcdVars, dma>>

TimersCount ==
  /\ pc = "timers" /\ pc' = "end"
  /\ IF stopState THEN UNCHANGED <<timer, register_IF, counted>>
     ELSE LET f == timerOverflow
          IN  /\ timer' = [t \in Timers |-> f[t].timer]
              /\ register_IF' = register_IF
                   \cup {TimerIrq(t) : t \in {t \in Timers : f[t].overflow /\ timer[t].irq}}
              /\ counted' = IF counted # -1 /\ timer[0].ticks <= clockTicks
                            THEN (counted + 1) % (TimerModulus * TimerModulus)
                            ELSE counted
  /\ UNCHANGED <<game, newFrame, sliceVars, cpuVars, lcdVars, dma>>

-----------------------------------------------------------------------------
\* The end of a slice.

\* Ticks of a DMA, or beyond the slice, are left: the devices get them too.
GoBack ==
  /\ pc = "end" /\ cpuDmaTicksToUpdate > 0
  /\ pc' = "lcd"
  /\ \E n \in NextEvents :
       clockTicks' = IF n > cpuDmaTicksToUpdate THEN cpuDmaTicksToUpdate ELSE n
  /\ SliceOver
  /\ cpuDmaTicksToUpdate' = cpuDmaTicksToUpdate - clockTicks'
  /\ UNCHANGED <<game, newFrame, cpuVars, register_IF, lcdVars, timer, counted, dma>>

\* The call ends if the frame does; its local variables are forgotten.
Leave(slice) ==
  IF newFrame
    THEN pc' = "call" /\ clockTicks' = 0 /\ SliceOver
    ELSE pc' = "cpu" /\ NewSlice(slice)

Asked == register_IF \cap IE \cap (IF stopState THEN StopIrqs ELSE Irqs) # {} /\ IME /\ armIrqEnable

SliceEnds ==
  /\ pc = "end" /\ cpuDmaTicksToUpdate <= 0
  /\ UNCHANGED <<game, newFrame, cpuDmaTicksToUpdate, IE, register_IF, IME, lcdVars, timer,
                 counted, dma>>

NoInterrupt ==
  /\ SliceEnds /\ ~Asked
  /\ Leave(NextEvents)
  /\ UNCHANGED <<holdState, stopState, intState, armIrqEnable>>

\* Mutant: it is not noted that an interrupt is coming.
InterruptComesUnnoted ==
  /\ SliceEnds /\ Asked /\ ~intState /\ ~holdState
  /\ Leave({IrqTicks})
  /\ UNCHANGED <<holdState, stopState, intState, armIrqEnable>>

\* A running CPU still gets IrqTicks ...
InterruptComes ==
  /\ SliceEnds /\ Asked /\ ~intState /\ ~holdState
  /\ Leave({IrqTicks})
  /\ intState' = TRUE
  /\ UNCHANGED <<holdState, stopState, armIrqEnable>>

\* Mutant: the handler runs, and the CPU is left halted.
CPUInterruptHalted ==
  /\ SliceEnds /\ Asked /\ (intState \/ holdState)
  /\ Leave(NextEvents)
  /\ armIrqEnable' = FALSE
  /\ intState' = FALSE
  /\ UNCHANGED <<holdState, stopState>>

\* ... before CPUInterrupt; a halted one is interrupted at once, and goes on.
CPUInterrupt ==
  /\ SliceEnds /\ Asked /\ (intState \/ holdState)
  /\ Leave(NextEvents)
  /\ armIrqEnable' = FALSE
  /\ intState' = FALSE
  /\ holdState' = FALSE
  /\ stopState' = IF holdState THEN FALSE ELSE stopState

-----------------------------------------------------------------------------
Init ==
  /\ pc = "call" /\ game \in Games /\ newFrame = TRUE
  /\ clockTicks = 0 /\ cpuLoopTicks = 0 /\ cpuSavedTicks = 0 /\ cpuDmaTicksToUpdate = 0
  /\ holdState = FALSE /\ stopState = FALSE /\ intState = FALSE /\ armIrqEnable = TRUE
  /\ IE = {} /\ register_IF = {} /\ IME = FALSE
  /\ lcdTicks = DRAW /\ VCOUNT = 0 /\ DISPSTAT = {} /\ lyc = 0 /\ inLine = 0
  /\ timer = [t \in Timers |-> NoTimer] /\ counted = -1
  /\ dma = [c \in Channels |-> NoDMA]

Program ==
  \/ SetIrqEnable \/ WriteIE \/ WriteIF \/ WriteIME \/ Halt
  \/ WriteDISPCNT \/ WriteDISPSTAT
  \/ \E t \in Timers : WriteTimer(t) \/ WriteReload(t)
  \/ \E c \in Channels : WriteDMA(c)

updateLoop ==
  \/ NothingDue \/ HBlankBegins \/ NextLine \/ VBlankBegins \/ FirstLine
  \/ TimersCount \/ GoBack

CPULoop2 ==
  \/ ReadJoypads \/ VBAMovieResetIfRequested \/ Program \/ Halted \/ updateLoop
  \/ NoInterrupt \/ InterruptComes \/ CPUInterrupt

Next == CPULoop2 \/ CPUReset

Spec == Init /\ [][Next]_vars

\* The front end calls CPULoop again and again.
FairSpec == Spec /\ WF_vars(CPULoop2)

-----------------------------------------------------------------------------
\* Properties

TypeOK ==
  /\ pc \in {"call", "cpu", "lcd", "timers", "end"} /\ game \in Games
  /\ newFrame \in BOOLEAN
  /\ clockTicks \in Int /\ cpuLoopTicks \in Int /\ cpuSavedTicks \in Int
  /\ cpuDmaTicksToUpdate \in Int
  /\ {holdState, stopState, intState, armIrqEnable, IME} \subseteq BOOLEAN
  /\ IE \subseteq Irqs /\ register_IF \subseteq Irqs
  /\ lcdTicks \in Int /\ VCOUNT \in 0 .. AllLines - 1 /\ lyc \in 0 .. AllLines
  /\ DISPSTAT \subseteq {"VBLANK", "HBLANK", "VCOUNT"} \cup LcdIrqs
  /\ inLine \in Int
  /\ timer \in [Timers -> [on : BOOLEAN, cascade : BOOLEAN, irq : BOOLEAN,
                           d : 0 .. TimerModulus - 1, reload : 0 .. TimerModulus - 1,
                           clockReload : TIMER_TICKS \cup {0}, ticks : Int]]
  /\ dma \in [Channels -> [on : BOOLEAN, timing : 0 .. 2, repeat : BOOLEAN, irq : BOOLEAN]]

\* The V-blank flag is set in the lines of the V-blank and in no other.
VBlankIsShown == ("VBLANK" \in DISPSTAT) = (VCOUNT >= Lines)

\* Every line takes DRAW + HBLANK ticks, and the H-blank flag shows which part it is
\* in, however the slices are cut, even when a timer that was started within a slice
\* makes the next one negative (GBA.cpp:2837, CPUUpdateTicks).
LinesKeepTime ==
  inLine + lcdTicks = IF "HBLANK" \in DISPSTAT THEN DRAW + HBLANK ELSE DRAW

\* Two timers in cascade are one counter: no overflow of the first is lost to or
\* counted twice by the second (timerOverflow).
CascadeIsOneCounter ==
  counted # -1 => counted = timer[0].d + TimerModulus * timer[1].d

\* updateLoop is run again for the ticks of a DMA, before the frame is looked at and
\* before any interrupt (GBA.cpp:4434).  It need not end: a transfer that is started
\* again in its own ticks, in every line or in every V-blank, leaves more of them than
\* it finds, ...
LongDMA ==
  /\ HBlankBegins \/ VBlankBegins
  /\ cpuDmaTicksToUpdate' - cpuDmaTicksToUpdate
       >= IF HBlankBegins THEN DRAW + HBLANK ELSE (AllLines - Lines) * (DRAW + HBLANK)
\* ... and the slices of a timer that is already due last no time, or less, for as long
\* as the CPU is stopped and no timer is counted (GBA.cpp:4168).
Overdue == stopState /\ \E t \in Timers : Due(t) /\ timer[t].ticks <= 0

LoopEnds == <>[][~LongDMA]_vars /\ <>[]~Overdue

\* Frames go on: without these two every call of CPULoop2 ends, also in a game that is
\* halted or stopped for good; a game that writes DISPCNT again and again can keep the
\* first line from ending, too (GBA.cpp:2455).
FramesGoOn == LoopEnds /\ <>[][~WriteDISPCNT]_vars => []<>newFrame /\ []<>~newFrame

\* An interrupt that is asked for is taken, unless the game decides otherwise: it is
\* looked for when updateLoop is over, and the CPU gets only IrqTicks before it.
InterruptsAreTaken == LoopEnds => (Asked ~> ~Asked)

WaitsFor(irq) == holdState /\ ~stopState /\ IME /\ armIrqEnable /\ irq \in IE

\* A halted CPU goes on at the V-blank if it asked for it ...
HaltEndsAtVBlank == (WaitsFor(VBlankIrq) /\ "VBLANK_IRQ" \in DISPSTAT) ~> ~holdState

\* ... or when a timer runs over.  Excepted is timer 0 with its own cascade bit and a
\* prescaler: what is left of it when no slice ends with it may be 0 or less, which a
\* halted CPU takes for the time to wait, again and again (GBA.cpp:3893).
HaltEndsAtTimer ==
  (WaitsFor(TimerIrq(0)) /\ timer[0].on /\ timer[0].irq
     /\ (timer[0].cascade => timer[0].clockReload = 1)) ~> ~holdState
=============================================================================
