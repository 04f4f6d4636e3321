SPECIFICATION Spec
CONSTANTS
  Vertex <- Vertex5
  INF = 100
  Requests <- Calls
INVARIANTS
  AssertionsHold
  NothingLeft
  RecordedOnce
  DistancesKept
