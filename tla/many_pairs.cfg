SPECIFICATION MCSpec
CONSTANTS
  Vertex <- Vertex6
  INF = 100
  Point <- Points
  Whole = 4
  Requests <- Calls
  PathRequests <- PathCalls
  Leftovers <- Anything
INVARIANTS
  AnswersAreShortest
  FrontIsSettled
  AnswersAreNearest
