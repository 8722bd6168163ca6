\* A reset and then the end of the program, with the large EEPROM.
SPECIFICATION FairSpec
CONSTANTS
  SYSTEM_SAVE_UPDATED = 1
  Cells = {0}
  SectorSize = 4096
  NarrowBits = 1  WideBits = 2  UnusedBits = 0  DataBits = 2
  MaxTime = 0  DateBits = 2  TimeBits = 1  ControlBits = 1
  DateAt <- MCDateAt  TimeAt <- MCTimeAt
  Chips = {"EEPROM8K"}
  SaveTypes = {0}
  Data = {170}
  BlockData <- MCBlockData  RtcCommands <- MCRtcCommands
  MaxOrders = 1  MaxEvents = 2
PROPERTIES SizeIsRemembered
CHECK_DEADLOCK FALSE
