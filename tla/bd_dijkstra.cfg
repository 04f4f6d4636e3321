SPECIFICATION Spec
CONSTANTS
  Vertex <- Vertex4
  INF = 12
  Graphs <- Networks
INVARIANTS
  TreesHold
  MeetingIsFinal
  FoundWhenConnected
  SettledIsExact
PROPERTIES
  AnswersAreRoutes
  CallReturns
