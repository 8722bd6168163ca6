SPECIFICATION FairSpec
CONSTANTS
  Sizes = {4, 5}
  Blocks = {1, 2}
  Requests = {2, 4}
  Numbers = 6
INVARIANTS ChannelsStayPaired NoLostSignal SleepsOnlyWhilePlaying
PROPERTIES WriteReturns PlaysInOrder
