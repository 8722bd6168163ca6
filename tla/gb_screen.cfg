SPECIFICATION Spec
CONSTANTS
  MODE_0 = 4
  MODE_1 = 16
  MODE_2 = 1
  MODE_3 = 3
  LY_INCREMENT = 8
  LastLineTicks = 1
  Lines = 2
  LastLine = 3
  LyModulus = 5
  WaitTicks = 1
  SERIAL = 1
  SerialBits = 1
  OffTicks = 2
  DmaTicks = 5
  OldDmaTicks = 14
  DMASpeedVersions = {0, 1}
  TimaModulus = 2
  InstructionTicks = {1}
  Models = {TRUE, FALSE}
  Speeds = {1, 2}
  IeValues = {}
  IfValues = {}
  LcdcValues = {TRUE, FALSE}
  StatValues = {}
  LycValues = {}
  Periods = {}
  TimaValues = {}
  ScValues = {TRUE}
  Blocks = {1, 2}
INVARIANTS WaitIsPositive LinesInOrder HdmaCountsAgree
