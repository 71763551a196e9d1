SPECIFICATION FairSpec
CONSTANTS
  NoBox = NoBox
  Pitch = 2
  PickX = 6
  Eps = 1
  NumBoxes = 3
  MaxBoxes = 4
  Depth = 2
  NormalSpeed = 2
  Factors <- MCFactors
  MaxSpawnFailures = 1
  MaxHolds = 1
INVARIANTS SameLine Spacing ReportedIsAtPick
PROPERTIES OnlyForward PickSpec EveryBoxArrives
