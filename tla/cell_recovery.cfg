SPECIFICATION FairSpec
CONSTANTS
  NoBox = NoBox
  NoTarget = NoTarget
  Boxes <- MCBoxes
  Rows = 1
  Cols = 2
  Layers = 1
  NumBoxes = 4
  Depth = 1
  MaxPalletSends = 1
  FramesAgree = TRUE
  MaxRestarts = 0
  MaxCrashes = 1
  MaxFailures = 0
  MaxResets = 1
  ResetsWhenAsked = TRUE
INVARIANTS OneBoxPerCell
PROPERTIES PalletFills
