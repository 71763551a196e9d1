SPECIFICATION Spec
CONSTANTS
  Requests <- ExampleRequests
  MaxPoints = 2
INVARIANTS
  ExamplesAreServed
