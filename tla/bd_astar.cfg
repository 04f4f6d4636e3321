SPECIFICATION Spec
CONSTANTS
  Vertex <- Vertex4
  INF = 100
  Graphs <- Squares
  Position <- Position4
  Heuristics <- AllHeuristics
  Factor = 1
INVARIANTS
  ForwardIsExact
PROPERTIES
  WithoutEstimateIsBdDijkstra
