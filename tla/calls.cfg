SPECIFICATION SpecUser
CONSTANTS
  Keys = {}
  MaxFrames = 2
  Uids = {1}
  RerecordModulus = 1
  Slots = {s1}
  NoState = NoState
  ImportSizes = {1}
  LuaSkips = {FALSE}
  UserResets = 1
INVARIANTS CursorInStep DiskHoldsRecording ResetsInStep
PROPERTIES OldResetMarksReset RestartKeepsInputs CrashKeepsShared
CHECK_DEADLOCK FALSE
