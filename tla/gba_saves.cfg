\* The game and its save chip, with resets, save states, quits and crashes.
SPECIFICATION FairSpec
CONSTANTS
  SYSTEM_SAVE_UPDATED = 1
  Cells = {0, 1}
  SectorSize = 4096
  NarrowBits = 1  WideBits = 2  UnusedBits = 0  DataBits = 2
  MaxTime = 1  DateBits = 2  TimeBits = 1  ControlBits = 1
  DateAt <- MCDateAt  TimeAt <- MCTimeAt
  Chips = {"EEPROM512", "EEPROM8K", "SRAM", "FLASH64", "FLASH128", "RTC"}
  SaveTypes = {0}
  Data = {170}
  BlockData <- MCBlockData  RtcCommands <- MCRtcCommands
  MaxOrders = 2  MaxEvents = 3
INVARIANTS TypeOK MemoryIsExpected ReadsAreRight
PROPERTIES QuitKeepsWhatIsSaved OrdersEnd
CHECK_DEADLOCK FALSE
