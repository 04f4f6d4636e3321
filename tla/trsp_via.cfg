SPECIFICATION Spec
CONSTANTS
  Vertex <- Vertex5
  INF = 100
  Networks <- Triangles
  Requests <- Calls
INVARIANTS
  LegsAreFound
  NoNeedlessUTurn
  LegsSurvive
