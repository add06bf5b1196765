SPECIFICATION FairSpec
CONSTANTS
  MaxCall = 1
  MaxBridge = 2
  MaxTraffic = 2
  ChannelCap = 1
  NoticeCap = 1
PROPERTIES MessageArrives
INVARIANTS WorkedOnOnce
CHECK_DEADLOCK FALSE
