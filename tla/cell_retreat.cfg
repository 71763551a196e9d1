SPECIFICATION Spec
CONSTANTS
  NoBox = NoBox
  NoTarget = NoTarget
  Boxes <- MCBoxes
  Rows = 1
  Cols = 2
  Layers = 1
  NumBoxes = 2
  Depth = 1
  MaxPalletSends = 1
  FramesAgree = TRUE
  MaxRestarts = 0
  MaxCrashes = 0
  MaxFailures = 1
  MaxResets = 0
  ResetsWhenAsked = FALSE
INVARIANTS FailedSlotStaysFree
