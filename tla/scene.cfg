SPECIFICATION Spec
CONSTANTS
  NoColor = NoColor
  Belt = Belt
  Colors = {red, blue}
  Eps = 0
  MaxBoxes = 2
  PickX = 2
  Depth = 1
  GatewayTimeout = 1
  SpawnerTimeout = 2
  MaxRefusals = 1
  MaxColors = 1
  MaxAdds = 2
  SensorKeepsUp = TRUE
  MaxApplies = 3
  SceneDepth = 10
INVARIANTS TypeOK MoveAfterAdd SpawnedIsConfirmed ColorNotLost
PROPERTIES NoJumpBack
CHECK_DEADLOCK FALSE
