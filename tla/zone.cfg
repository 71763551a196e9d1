SPECIFICATION FairSpec
CONSTANTS
  NoBox = NoBox
  NoRequest = NoRequest
  NumBoxes = 3
  Debounce = 3
  Depth = 2
  MaxRestarts = 2
  MaxMisses = 2
INVARIANTS SoundSensor
PROPERTIES PickSpec ZoneClears
