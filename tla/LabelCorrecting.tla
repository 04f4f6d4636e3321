-------------------------- MODULE LabelCorrecting --------------------------
(***************************************************************************)
(* The two searches of pgRouting that correct labels from a deque and      *)
(* never settle a vertex: pgr_edwardMoore (include/bellman_ford/           *)
(* edwardMoore.hpp), which appends a vertex that got cheaper unless it is  *)
(* in the deque, and pgr_binaryBreadthFirstSearch (include/                *)
(* breadthFirstSearch/binaryBreadthFirstSearch.hpp), for roads of cost     *)
(* zero and one other cost, which puts a vertex reached for nothing in     *)
(* front and any other behind.  One call answers many pairs, source after  *)
(* source; a search has one action for each vertex taken from the deque    *)
(* and one for each edge out of it.                                        *)
(***************************************************************************)
EXTENDS RoadGraph, SequencesExt

CONSTANT Requests   \* [algorithm, rows, directed, combinations]

EdwardMoore == "edwardMoore"
BinaryBFS   == "binaryBreadthFirstSearch"

ASSUME RequestsAssumption ==
  \A r \in Requests : /\ r.algorithm \in {EdwardMoore, BinaryBFS}
                      /\ r.combinations \subseteq Vertex \X Vertex
                      /\ ArcsOf(r.rows, r.directed) \subseteq Arc
                      /\ IsFiniteSet(ArcsOf(r.rows, r.directed))

\* No route is so long that its cost is no longer a finite double.
ASSUME RoutesAreFinite ==
  \A g \in {ArcsOf(r.rows, r.directed) : r \in Requests}, root \in Vertex :
    \A a \in g : Distance(g, root, a.from) < INF => Distance(g, root, a.from) + a.cost < INF

VARIABLES
  request,        \* the arguments of the call
  phase,          \* "called" | "sources" | "searching" | "refused" | "answered"
  sources,        \* the sources still to come
  start_vertex,
  current_cost,
  from_edge,      \* the arc a vertex was reached by, {} for the default edge
  isInQ, dq,
  pending,        \* the edges out of the head vertex still to be looked at
  paths

searchVars == <<start_vertex, current_cost, from_edge, isInQ, dq, pending>>

vars == <<request, phase, sources, searchVars, paths>>

graph == ArcsOf(request.rows, request.directed)

has_vertex(v) == v \in VerticesOf(graph)

\* A sum of doubles that is too large is infinite.
Plus(a, b) == IF a + b < INF THEN a + b ELSE INF

----------------------------------------------------------------------------
(***************************************************************************)
(* The call.                                                               *)
(***************************************************************************)
Init ==
  /\ request \in Requests
  /\ phase = "called"
  /\ sources = {}
  /\ start_vertex = CHOOSE v \in Vertex : TRUE
  /\ current_cost = [v \in Vertex |-> INF]
  /\ from_edge = [v \in Vertex |-> {}]
  /\ isInQ = [v \in Vertex |-> FALSE]
  /\ dq = <<>> /\ pending = {}
  /\ paths = {}

\* costCheck: at most two costs, and of two the less is zero.
costCheck ==
  LET cost_set == {a.cost : a \in graph}
  IN  Cardinality(cost_set) <= 2 /\ (Cardinality(cost_set) = 2 => 0 \in cost_set)

Acceptable ==
  /\ request.combinations # {}
  /\ graph # {}
  /\ request.algorithm = BinaryBFS => costCheck

Refuse ==
  /\ phase = "called" /\ ~ Acceptable
  /\ phase' = "refused"
  /\ UNCHANGED <<request, sources, searchVars, paths>>

Accept ==
  /\ phase = "called" /\ Acceptable
  /\ phase' = "sources"
  /\ sources' = {c[1] : c \in request.combinations}
  /\ UNCHANGED <<request, searchVars, paths>>

\* The combinations are a std::map: their sources come in ascending order.
SkipSource ==
  /\ phase = "sources" /\ sources # {} /\ ~ has_vertex(Min(sources))
  /\ sources' = sources \ {Min(sources)}
  /\ UNCHANGED <<request, phase, searchVars, paths>>

StartSearch ==
  /\ phase = "sources" /\ sources # {} /\ has_vertex(Min(sources))
  /\ phase' = "searching"
  /\ sources' = sources \ {Min(sources)}
  /\ start_vertex' = Min(sources)
  /\ current_cost' = [v \in Vertex |-> IF v = start_vertex' THEN 0 ELSE INF]
  /\ from_edge' = [v \in Vertex |-> {}]
  /\ isInQ' = [v \in Vertex |-> request.algorithm = EdwardMoore /\ v = start_vertex']
  /\ dq' = <<start_vertex'>> /\ pending' = {}
  /\ UNCHANGED <<request, paths>>

----------------------------------------------------------------------------
(***************************************************************************)
(* The search.                                                             *)
(***************************************************************************)
\* A slip: a vertex that was taken from the deque still counts as being in it.
PoppedMarks == isInQ

Unmarked == [isInQ EXCEPT ![Head(dq)] = FALSE]

\* The head of the deque is taken, to look at the edges out of it.
ExamineVertex ==
  /\ phase = "searching" /\ pending = {} /\ dq # <<>>
  /\ dq' = Tail(dq)
  /\ isInQ' = Unmarked
  /\ pending' = OutArcs(graph, Head(dq))
  /\ UNCHANGED <<request, phase, sources, start_vertex, current_cost, from_edge, paths>>

Improves(e) ==
  \/ current_cost[e.to] = INF
  \/ Plus(current_cost[e.from], e.cost) < current_cost[e.to]

\* A slip: what was reached for nothing waits behind the others.
QueuedBehind(e) ==
  IF request.algorithm = EdwardMoore /\ isInQ[e.to] THEN dq ELSE Append(dq, e.to)

Queued(e) ==
  IF request.algorithm = EdwardMoore
  THEN IF isInQ[e.to] THEN dq ELSE Append(dq, e.to)
  ELSE IF e.cost # 0 THEN Append(dq, e.to) ELSE <<e.to>> \o dq

\* updateVertexCosts: the edges are looked at in the order of the adjacency list.
ExamineEdge ==
  /\ phase = "searching"
  /\ \E e \in pending :
       /\ \A f \in pending : e.pos <= f.pos
       /\ pending' = pending \ {e}
       /\ IF Improves(e)
          THEN /\ current_cost' = [current_cost EXCEPT ![e.to] = Plus(current_cost[e.from], e.cost)]
               /\ from_edge' = [from_edge EXCEPT ![e.to] = {e}]
               /\ dq' = Queued(e)
               /\ isInQ' = IF request.algorithm = EdwardMoore THEN [isInQ EXCEPT ![e.to] = TRUE]
                           ELSE isInQ
          ELSE UNCHANGED <<current_cost, from_edge, dq, isInQ>>
  /\ UNCHANGED <<request, phase, sources, start_vertex, paths>>

SearchIsOver == phase = "searching" /\ pending = {} /\ dq = <<>>

\* getPath: the edges back to a vertex that was reached by none.
getPath(target) ==
  LET Row(e)  == [node |-> e.from, edge |-> e.id, cost |-> e.cost, agg_cost |-> current_cost[e.from]]
      back[n \in 0..Cardinality(Vertex)] ==
        IF n = 0
        THEN <<[node |-> target, edge |-> NoEdge, cost |-> 0, agg_cost |-> current_cost[target]]>>
        ELSE LET rows == back[n - 1]
             IN  SetToSeq({Row(e) : e \in from_edge[Head(rows).node]}) \o rows
  IN  [start |-> start_vertex, end |-> target, rows |-> back[Cardinality(Vertex)]]

\* A path for every target that was reached by an edge.
EndSearch ==
  /\ SearchIsOver
  /\ phase' = "sources"
  /\ paths' = paths \cup {getPath(c[2]) : c \in {d \in request.combinations :
                                                   /\ d[1] = start_vertex
                                                   /\ has_vertex(d[2]) /\ from_edge[d[2]] # {}}}
  /\ UNCHANGED <<request, sources, searchVars>>

Return ==
  /\ phase = "sources" /\ sources = {}
  /\ phase' = "answered"
  /\ UNCHANGED <<request, sources, searchVars, paths>>

Done == phase \in {"refused", "answered"} /\ UNCHANGED vars

Next == \/ Refuse \/ Accept \/ SkipSource \/ StartSearch
        \/ ExamineVertex \/ ExamineEdge \/ EndSearch \/ Return
        \/ Done

Spec == Init /\ [][Next]_vars
----------------------------------------------------------------------------
(***************************************************************************)
(* Properties.                                                             *)
(***************************************************************************)
\* Every pair that has a route, and only such a pair, gets one path: a route of the
\* graph without a gap, with the costs on the way, whose total is the distance,
\* though no vertex is ever settled and deque, labels and edges change together
\* (edwardMoore.hpp:87-125, binaryBreadthFirstSearch.hpp:99-135).
IsShortestRoute(p) ==
  LET rows == p.rows
  IN  /\ Len(rows) > 1
      /\ rows[1].node = p.start /\ rows[1].agg_cost = 0
      /\ Last(rows).node = p.end /\ Last(rows).agg_cost = Distance(graph, p.start, p.end)
      /\ \A n \in 1..Len(rows) - 1 :
           /\ rows[n + 1].agg_cost = rows[n].agg_cost + rows[n].cost
           /\ \E a \in graph : /\ a.from = rows[n].node /\ a.to = rows[n + 1].node
                               /\ a.id = rows[n].edge /\ a.cost = rows[n].cost

AnswersAreShortest ==
  phase = "answered" =>
    /\ \A p \in paths : IsShortestRoute(p)
    /\ \A c \in request.combinations :
         Cardinality({p \in paths : p.start = c[1] /\ p.end = c[2]}) =
           IF c[1] # c[2] /\ Distance(graph, c[1], c[2]) < INF THEN 1 ELSE 0

\* With costs of zero and one other cost the deque is in order: the vertex in front
\* has its distance, and is never corrected once it was taken out, although
\* binaryBreadthFirstSearch marks no vertex as done
\* (binaryBreadthFirstSearch.hpp:119-121, 193-205).
FrontIsSettled ==
  phase = "searching" /\ request.algorithm = BinaryBFS /\ pending = {} /\ dq # <<>> =>
    current_cost[Head(dq)] = Distance(graph, start_vertex, Head(dq))

\* When a search is over every vertex has its distance, defined by potentials, for
\* all costs and whatever the order of the deque (edwardMoore.hpp:99-107,
\* binaryBreadthFirstSearch.hpp:117-123).
LabelsAreExact ==
  SearchIsOver => \A v \in Vertex : IsDistance(graph, start_vertex, v, current_cost[v])
=============================================================================
