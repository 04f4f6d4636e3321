----------------------------- MODULE BdDijkstra -----------------------------
(***************************************************************************)
(* Pgr_bdDijkstra of include/bdDijkstra/bdDijkstra.hpp: the bidirectional  *)
(* search whose keys are the costs themselves.                             *)
(***************************************************************************)
EXTENDS Bidirectional

NoEstimate == [v \in Vertex |-> 0]

\* explore_forward and explore_backward: the cost of the vertex is the key it
\* was popped with.
Settle(side, arcs, q) ==
  IF q[2] \in side.finished THEN Pop(side, q)
  ELSE Explore(Pop(side, q), arcs, q[2], q[1], NoEstimate)

\* One iteration: the cheaper side moves, the forward one on a tie.
StepForward ==
  /\ \E f \in forward.queue, b \in backward.queue :
       /\ Continue(f, b)
       /\ f[1] <= b[1]
       /\ forward' = Settle(forward, graph, f)
       /\ UNCHANGED backward
       /\ Found(f[2])
  /\ UNCHANGED <<graph, query, answer>>

StepBackward ==
  /\ \E f \in forward.queue, b \in backward.queue :
       /\ Continue(f, b)
       /\ b[1] < f[1]
       /\ backward' = Settle(backward, Reversed(graph), b)
       /\ UNCHANGED forward
       /\ Found(b[2])
  /\ UNCHANGED <<graph, query, answer>>

pgr_bdDijkstra == \E s \in Vertex, t \in Vertex, only_cost \in BOOLEAN : Ask(s, t, only_cost)

Next == pgr_bdDijkstra \/ StepForward \/ StepBackward \/ Exhausted \/ Return

\* The loop of a call runs until the call returns; nobody has to call again.
Fairness == WF_vars(StepForward \/ StepBackward \/ Exhausted \/ Return)

Spec == Init /\ [][Next]_vars /\ Fairness

----------------------------------------------------------------------------
\* Dijkstra's theorem, on both sides and across any number of calls on the same
\* object: the cost of a finished vertex is its distance from the root, however
\* many stale entries are still queued (bdDijkstra.hpp:96-140).
SettledIsExact ==
  /\ \A v \in forward.finished :
       IsDistance(graph, query.source, v, forward.cost[v])
  /\ \A v \in backward.finished :
       IsDistance(Reversed(graph), query.target, v, backward.cost[v])

TreesHold == IsTree(forward, graph, query.source)
          /\ IsTree(backward, Reversed(graph), query.target)

=============================================================================
