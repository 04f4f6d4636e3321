SPECIFICATION Spec
CONSTANTS
  Vertex <- Vertex6
  INF = 100
  Graphs <- Detours
INVARIANT
  AnswerIsShortest
