SPECIFICATION Spec
CONSTANTS
  Requests <- ArcRequests
  MaxPoints = 2
INVARIANTS
  ArcsToNamedPoints
