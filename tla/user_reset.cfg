SPECIFICATION Spec
CONSTANTS
  Keys = {a}
  MaxFrames = 2
  Uids = {1}
  RerecordModulus = 1
  Slots = {s1}
  NoState = NoState
  ImportSizes = {}
  LuaSkips = {FALSE}
  UserResets = 1
PROPERTIES UserResetIsRecorded
CHECK_DEADLOCK FALSE
