SPECIFICATION Spec
CONSTANTS
  Keys = {a}
  MaxFrames = 2
  Uids = {1, 2}
  RerecordModulus = 3
  Slots = {s1}
  NoState = NoState
  ImportSizes = {}
  LuaSkips = {TRUE, FALSE}
  UserResets = 0
INVARIANTS
  TypeOK InputsInStep
PROPERTIES
  ClosedFileIsExact CrashKeepsRecording ReadOnlyKeepsInputs LossIsCounted
  FailedLoadKeepsPosition ImplementsReplayLog
CHECK_DEADLOCK FALSE
