SPECIFICATION ChSpec
CONSTANTS
  Vertex <- Vertex5
  INF = 100
  Unit = 1
  Calls <- AllCalls
  Ranks <- BothOrders
INVARIANTS
  NoPairGetsNearer
  SimulationsLeaveNothing
  DistancesRemain
