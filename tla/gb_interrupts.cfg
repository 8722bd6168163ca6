SPECIFICATION FairSpec
CONSTANTS
  MODE_0 = 1
  MODE_1 = 6
  MODE_2 = 1
  MODE_3 = 1
  LY_INCREMENT = 3
  LastLineTicks = 1
  Lines = 1
  LastLine = 2
  LyModulus = 3
  WaitTicks = 1
  SERIAL = 1
  SerialBits = 2
  OffTicks = 1
  DmaTicks = 1
  OldDmaTicks = 1
  DMASpeedVersions = {1}
  TimaModulus = 2
  InstructionTicks = {1}
  Models = {FALSE}
  Speeds = {1}
  IeValues = {{0}, {1, 2}}
  IfValues = {{}}
  LcdcValues = {TRUE, FALSE}
  StatValues = {{"OAM", "LYC"}}
  LycValues = {1}
  Periods = {2}
  TimaValues = {0}
  ScValues = {}
  Blocks = {}
INVARIANTS IfShowsRequests
PROPERTIES RequestsAreKept FramesGoOn HaltEnds
