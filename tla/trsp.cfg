SPECIFICATION Spec
CONSTANTS
  Vertex <- Vertex4
  INF = 100
  Requests <- All
INVARIANTS
  FirstPathIsSound
  FirstPathIsCheapest
  KeptPathsAreFree
  EveryPairAnswered
