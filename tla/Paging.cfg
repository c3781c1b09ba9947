SPECIFICATION PagingSpec
CONSTANTS
  Rooms <- MCRooms
  LowPriority <- MCLowPriority
  Edited <- MCEdited
  ChatPageSize = 1
  MaxTime = 2
  MaxActs = 4
  NoValue = NoValue
  ByOrder = ByOrder
  MessagePageSize = 1
  Batch = 2
  MaxBatches = 2
  MaxScan = 2
  AheadScan = 3
  MaxRow = 7
  MaxWalkActs = 2
CHECK_DEADLOCK FALSE
INVARIANTS
  ReturnedOnce
  WalkComplete
  ArchivedAsWanted
  NoneTwice
  BackComplete
  ForwardMisses
PROPERTIES
  PollCatchesUp
