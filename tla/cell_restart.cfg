SPECIFICATION Spec
CONSTANTS
  NoBox = NoBox
  NoTarget = NoTarget
  Boxes <- MCBoxes
  Rows = 1
  Cols = 2
  Layers = 2
  NumBoxes = 4
  Depth = 1
  MaxPalletSends = 1
  FramesAgree = TRUE
  MaxRestarts = 2
  MaxCrashes = 0
  MaxFailures = 2
  MaxResets = 0
  ResetsWhenAsked = FALSE
INVARIANTS GraspedOnce HeldWhileArmWorks
PROPERTIES ConsumedByItsResult
