SPECIFICATION Spec
CONSTANTS
  Requests <- MCRequests
  MaxPoints = 2
INVARIANTS
  TypeOK
  ClientsKnowTheStore
  MovesToNamedPoint
  ParametersInSlots
  StrayHasACause
