SPECIFICATION FairSpec
CONSTANTS
  Poses <- MCPoses
  MaxStep = 1
  Blank = Blank
  ConnectRetry = 2
  Depth = 2
  NoSem = NoSem
  NoOne = NoOne
  InboxSize = 2
  DataLen = 4
  Payloads <- MCPayloads
  Cuts <- MCCuts
  NoData = NoData
  WireSize = 4
  MaxBacklog = 3
  Links <- MCLinks
  Budget <- MCBudget
INVARIANTS TypeOK WholeSnapshots InStep
PROPERTIES ArmNotJerked FeedbackTellsTheLink ShmFollows TwinFollows QuietWhenDestroyed StopEnds
CHECK_DEADLOCK FALSE
