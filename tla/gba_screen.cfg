SPECIFICATION FairSpec
CONSTANTS
  DRAW = 4
  HBLANK = 1
  Lines = 1
  AllLines = 2
  IrqTicks = 1
  TIMER_TICKS = {2}
  CascadePrescalers = {}
  TimerModulus = 2
  LastTimer = 0
  Channels = {0}
  DmaTicks = {4, 10}
  InstructionTicks = {2}
  Reloads = {0}
  LycValues = {0, 2}
  Games = {"lcd", "dma", "stop", "sleep"}
INVARIANTS LinesKeepTime
PROPERTIES FramesGoOn InterruptsAreTaken HaltEndsAtVBlank
