SPECIFICATION Spec
CONSTANTS
  NoBox = NoBox
  NoTarget = NoTarget
  Boxes <- MCBoxes
  Rows = 1
  Cols = 2
  Layers = 2
  NumBoxes = 4
  Depth = 2
  MaxPalletSends = 1
  FramesAgree = TRUE
  MaxRestarts = 0
  MaxCrashes = 0
  MaxFailures = 1
  MaxResets = 0
  ResetsWhenAsked = FALSE
INVARIANTS TypeOK SoundLoading AgreeOnTarget
PROPERTIES LoadingSpec
