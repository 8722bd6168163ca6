SPECIFICATION SpecRewind
CONSTANTS
  Keys = {a}
  MaxFrames = 2
  Uids = {1}
  RerecordModulus = 1
  Slots = {s1}
  NoState = NoState
  ImportSizes = {}
  LuaSkips = {FALSE}
  UserResets = 0
INVARIANTS InputsInStep
CHECK_DEADLOCK FALSE
