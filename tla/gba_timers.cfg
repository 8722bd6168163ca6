SPECIFICATION FairSpec
CONSTANTS
  DRAW = 5
  HBLANK = 1
  Lines = 1
  AllLines = 3
  IrqTicks = 1
  TIMER_TICKS = {1, 2}
  CascadePrescalers = {1}
  TimerModulus = 3
  LastTimer = 1
  Channels = {}
  DmaTicks = {}
  InstructionTicks = {2}
  Reloads = {0, 2}
  LycValues = {0}
  Games = {"cascade", "alarm"}
INVARIANTS LinesKeepTime CascadeIsOneCounter
PROPERTIES HaltEndsAtTimer
