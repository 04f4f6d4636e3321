----------------------------- MODULE PathQuery -----------------------------
(***************************************************************************)
(* What a caller may expect of a function that answers one-to-one path     *)
(* queries over a fixed graph, whatever the algorithm: each query gets one *)
(* answer, which is empty or is a route from the source to the target made *)
(* of edges of the graph, each row carrying the cost of its edge; when     *)
(* only the cost was asked for, one row with a cost no route goes below.   *)
(***************************************************************************)
EXTENDS RoadGraph, SequencesExt

CONSTANT Graphs

VARIABLES graph, status, query, answer

vars == <<graph, status, query, answer>>

\* The rows of a Path, from s to t: the last row closes the path.
IsRoute(arcs, s, t, rows) ==
  /\ Len(rows) > 1
  /\ rows[1].node = s
  /\ Last(rows) = [node |-> t, edge |-> NoEdge, cost |-> 0]
  /\ \A i \in 1..Len(rows) - 1 :
       \E a \in arcs : /\ a.from = rows[i].node /\ a.to = rows[i + 1].node
                       /\ a.id = rows[i].edge /\ a.cost = rows[i].cost

IsTotal(arcs, s, t, rows) ==
  /\ Len(rows) = 1
  /\ rows[1].node = t /\ rows[1].edge = NoEdge
  /\ rows[1].cost >= Distance(arcs, s, t)
  /\ Distance(arcs, s, t) < INF

IsAnswer(rows) ==
  \/ rows = <<>>
  \/ query.only_cost /\ IsTotal(graph, query.source, query.target, rows)
  \/ ~ query.only_cost /\ IsRoute(graph, query.source, query.target, rows)

Init ==
  /\ graph \in Graphs
  /\ status = "idle"
  /\ query.source \in Vertex /\ query.target \in Vertex
  /\ answer = <<>>

Ask ==
  /\ status \in {"idle", "answered"}
  /\ status' = "asked"
  /\ query'.source \in VerticesOf(graph) /\ query'.target \in VerticesOf(graph)
  /\ answer' = <<>>
  /\ UNCHANGED graph

Reply ==
  /\ status = "asked"
  /\ status' = "answered"
  /\ IsAnswer(answer')
  /\ UNCHANGED <<graph, query>>

Next == Ask \/ Reply

Spec == Init /\ [][Next]_vars
=============================================================================
