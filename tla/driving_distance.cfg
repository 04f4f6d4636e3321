SPECIFICATION Spec
CONSTANTS
  Vertex <- Vertex7
  INF = 100
  Point <- Points
  Whole = 4
  Requests <- Calls
INVARIANTS
  ListsAreExact
  EquicostIsSound
  RoadsStayWhole
  PointsMakeNoDifference
