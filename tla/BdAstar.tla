------------------------------ MODULE BdAstar ------------------------------
(***************************************************************************)
(* Pgr_bdAstar of include/bdAstar/bdAstar.hpp: the bidirectional search    *)
(* whose keys add a heuristic estimate to the cost.  The two explore       *)
(* functions are not twins: explore_forward relaxes from the cost of the   *)
(* vertex (forward_cost), explore_backward from the key it was popped with *)
(* (node.first), which already holds an estimate.  Coordinates, factors    *)
(* and costs are integers.                                                 *)
(***************************************************************************)
EXTENDS Bidirectional

CONSTANTS Position,     \* x() and y() of every vertex
          Heuristics,   \* the values of the heuristic argument
          Factor        \* factor * epsilon

ASSUME PositionAssumption == Position \in [Vertex -> [x : Int, y : Int]]
ASSUME FactorAssumption   == Factor \in Nat /\ Heuristics \subseteq 0..5

VARIABLE m_heuristic    \* the same for all the queries of a call of bdastar

astarVars == <<vars, m_heuristic>>

Abs(n) == IF n < 0 THEN -n ELSE n

\* The integer part of a square root.
Root(n) == CHOOSE r \in 0..n : r * r <= n /\ n < (r + 1) * (r + 1)

\* heuristic(v, u): kind 1 takes the absolute value of the greater signed
\* difference, kind 2 of the smaller one.
Heuristic(v, u) ==
  LET dx == Position[v].x - Position[u].x
      dy == Position[v].y - Position[u].y
  IN  CASE m_heuristic = 1 -> Abs(Max({dx, dy})) * Factor
        [] m_heuristic = 2 -> Abs(Min({dx, dy})) * Factor
        [] m_heuristic = 3 -> (dx * dx + dy * dy) * Factor * Factor
        [] m_heuristic = 4 -> Root(dx * dx + dy * dy) * Factor
        [] m_heuristic = 5 -> (Abs(dx) + Abs(dy)) * Factor
        [] OTHER -> 0

EstimateTo(u) == [v \in Vertex |-> Heuristic(v, u)]

----------------------------------------------------------------------------
explore_forward(q) ==
  IF q[2] \in forward.finished THEN Pop(forward, q)
  ELSE Explore(Pop(forward, q), graph, q[2], forward.cost[q[2]], EstimateTo(query.target))

\* A slip: the backward search walks the arcs forwards.
ExploreBackwardAlong(q) ==
  IF q[2] \in backward.finished THEN Pop(backward, q)
  ELSE Explore(Pop(backward, q), graph, q[2], q[1], EstimateTo(query.source))

explore_backward(q) ==
  IF q[2] \in backward.finished THEN Pop(backward, q)
  ELSE Explore(Pop(backward, q), Reversed(graph), q[2], q[1], EstimateTo(query.source))

StepForward ==
  /\ \E f \in forward.queue, b \in backward.queue :
       /\ Continue(f, b)
       /\ f[1] <= b[1]
       /\ forward' = explore_forward(f)
       /\ UNCHANGED backward
       /\ Found(f[2])
  /\ UNCHANGED <<graph, query, answer, m_heuristic>>

StepBackward ==
  /\ \E f \in forward.queue, b \in backward.queue :
       /\ Continue(f, b)
       /\ b[1] < f[1]
       /\ backward' = explore_backward(b)
       /\ UNCHANGED forward
       /\ Found(b[2])
  /\ UNCHANGED <<graph, query, answer, m_heuristic>>

pgr_bdAstar ==
  /\ \E s \in Vertex, t \in Vertex, only_cost \in BOOLEAN : Ask(s, t, only_cost)
  /\ UNCHANGED m_heuristic

Leave == (Exhausted \/ Return) /\ UNCHANGED m_heuristic

AstarInit == Init /\ m_heuristic \in Heuristics

Next == pgr_bdAstar \/ StepForward \/ StepBackward \/ Leave

Fairness == WF_astarVars(StepForward \/ StepBackward \/ Leave)

Spec == AstarInit /\ [][Next]_astarVars /\ Fairness

----------------------------------------------------------------------------
\* An estimate no arc disproves: it drops along an arc by at most its cost.
Consistent(arcs, h) == \A a \in arcs : h[a.from] <= a.cost + h[a.to]

\* A* never reopens a finished vertex, so its labels are only exact when the
\* estimate is consistent; then they are, on the forward side
\* (bdAstar.hpp:101-125).
ForwardIsExact ==
  Consistent(graph, EstimateTo(query.target)) =>
    \A v \in forward.finished : forward.cost[v] = Distance(graph, query.source, v)

\* Without an estimate the search is bdDijkstra, step by step, although its
\* forward side relaxes from a label and its backward side from a key
\* (bdAstar.hpp:101-152).
Dijkstra == INSTANCE BdDijkstra

WithoutEstimateIsBdDijkstra ==
  Dijkstra!Init /\ [][m_heuristic = 0 => Dijkstra!Next]_astarVars
=============================================================================
