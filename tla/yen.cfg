SPECIFICATION MCSpec
CONSTANTS
  Vertex <- Vertex4
  INF = 100
  Networks <- Squares
  Queries <- Some
  Restrictions <- Turns
  Flags <- AllFlags
INVARIANTS
  EdgesComeBack
  FreePathsFirst
PROPERTIES
  FindsKShortest
