--------------------------- MODULE Bidirectional ---------------------------
(***************************************************************************)
(* The base class of the two bidirectional searches of pgRouting:          *)
(* Pgr_bidirectional of include/cpp_common/bidirectional.hpp.  It owns the *)
(* two search sides, alternates between them in its main loop, decides     *)
(* when the sides have met and builds the path.  What exploring a vertex   *)
(* means is left to BdDijkstra and BdAstar, which extend this module.      *)
(*                                                                         *)
(* One step is one iteration of the main loop.  A priority queue is a set  *)
(* of <<key, vertex>> pairs: an entry is pushed only when the vertex got   *)
(* strictly cheaper, so the queue never holds the same pair twice.         *)
(* forward_edge and backward_edge are written and never read: left out.    *)
(***************************************************************************)
EXTENDS RoadGraph, SequencesExt

CONSTANT Graphs     \* the graphs a query may be asked of, sets of arcs

ASSUME GraphsAssumption == \A g \in Graphs : g \subseteq Arc /\ IsFiniteSet(g)

VARIABLES
  graph,            \* G &graph
  status,           \* "idle" | "searching" | "stopped" (left the loop) | "answered"
  query,            \* v_source, v_target and the only_cost argument
  forward,          \* forward_cost, _predecessor, _finished and _queue
  backward,         \* backward_cost, _predecessor, _finished and _queue
  v_min_node,       \* where the two sides met
  best_cost,        \* cost of the best meeting so far
  answer            \* the Path that was returned: a sequence of rows

vars == <<graph, status, query, forward, backward, v_min_node, best_cost, answer>>

Status == {"idle", "searching", "stopped", "answered"}
Query  == [source : Vertex, target : Vertex, only_cost : BOOLEAN]
Side   == [cost : [Vertex -> 0..INF], predecessor : [Vertex -> Vertex],
           finished : SUBSET Vertex, queue : SUBSET (Nat \X Vertex)]

\* The vectors as initialize leaves them, once the root has been pushed.
Rooted(root) ==
  [cost        |-> [v \in Vertex |-> IF v = root THEN 0 ELSE INF],
   predecessor |-> [v \in Vertex |-> v],
   finished    |-> {},
   queue       |-> {<<0, root>>}]

----------------------------------------------------------------------------
(***************************************************************************)
(* Exploring vertex u of one side: every arc that leads from u to an       *)
(* unfinished vertex and makes it strictly cheaper is relaxed, in the      *)
(* order of the edge list.  The cost is base plus that of the arc; the key *)
(* adds the estimate h.  Of several parallel arcs the cheapest wins, and   *)
(* each one that improves on those before it pushes an entry.              *)
(***************************************************************************)
Gains(side, arcs, u, base) ==
  {a \in arcs : /\ a.from = u
                /\ a.to \notin side.finished
                /\ base + a.cost < side.cost[a.to]}

CostsTo(gains, v) == {a.cost : a \in {b \in gains : b.to = v}}

Pushed(gains) ==
  {a \in gains : \A b \in gains : b.to = a.to /\ b.pos < a.pos => a.cost < b.cost}

\* A slip: the predecessor is set when a vertex is first reached, not when it is
\* reached at a lower cost.
ExploreFirstParent(side, arcs, u, base, h) ==
  LET gains == Gains(side, arcs, u, base)
  IN  [cost        |-> [v \in Vertex |-> IF CostsTo(gains, v) # {}
                                         THEN base + Min(CostsTo(gains, v))
                                         ELSE side.cost[v]],
       predecessor |-> [v \in Vertex |-> IF CostsTo(gains, v) # {} /\ side.cost[v] = INF
                                         THEN u ELSE side.predecessor[v]],
       finished    |-> side.finished \cup {u},
       queue       |-> side.queue \cup
                         {<<base + a.cost + h[a.to], a.to>> : a \in Pushed(gains)}]

Explore(side, arcs, u, base, h) ==
  LET gains == Gains(side, arcs, u, base)
  IN  [cost        |-> [v \in Vertex |-> IF CostsTo(gains, v) # {}
                                         THEN base + Min(CostsTo(gains, v))
                                         ELSE side.cost[v]],
       predecessor |-> [v \in Vertex |-> IF CostsTo(gains, v) # {}
                                         THEN u ELSE side.predecessor[v]],
       finished    |-> side.finished \cup {u},
       queue       |-> side.queue \cup
                         {<<base + a.cost + h[a.to], a.to>> : a \in Pushed(gains)}]

\* A slip: a priority queue without std::greater.
IsTopOfMaxHeap(q, queue) ==
  /\ q \in queue
  /\ \A r \in queue : q[1] > r[1] \/ (q[1] = r[1] /\ q[2] >= r[2])

IsTop(q, queue) ==
  /\ q \in queue
  /\ \A r \in queue : q[1] < r[1] \/ (q[1] = r[1] /\ q[2] <= r[2])

\* A slip: the top is read and never popped.
PopNothing(side, q) == side

Pop(side, q) == [side EXCEPT !.queue = @ \ {q}]

----------------------------------------------------------------------------
(***************************************************************************)
(* The main loop.                                                          *)
(***************************************************************************)
\* The tests at the head of the loop, with the two tops f and b.
Continue(f, b) ==
  /\ status = "searching"
  /\ IsTop(f, forward.queue)
  /\ IsTop(b, backward.queue)
  /\ f[1] < INF /\ b[1] < INF

Common(v) == v \in forward'.finished /\ v \in backward'.finished
Through(v) == forward'.cost[v] + backward'.cost[v]

\* A slip: two labels are enough to meet, finished or not.
FoundLabelled(v) ==
  \/ /\ Through(v) < INF /\ best_cost >= Through(v)
     /\ v_min_node' = v
     /\ best_cost' = Through(v)
     /\ UNCHANGED status
  \/ /\ Common(v) /\ best_cost < Through(v)
     /\ status' = "stopped"
     /\ UNCHANGED <<v_min_node, best_cost>>
  \/ /\ ~ Common(v) /\ ~ (Through(v) < INF /\ best_cost >= Through(v))
     /\ UNCHANGED <<status, v_min_node, best_cost>>

\* A slip: the first common vertex ends the search before it is recorded.
FoundUnrecorded(v) ==
  /\ status' = IF Common(v) THEN "stopped" ELSE status
  /\ UNCHANGED <<v_min_node, best_cost>>

\* found(node), evaluated on the sides the exploration has just left: a vertex
\* both sides have finished either improves the meeting or ends the search.
Found(v) ==
  \/ /\ Common(v) /\ best_cost >= Through(v)
     /\ v_min_node' = v
     /\ best_cost' = Through(v)
     /\ UNCHANGED status
  \/ /\ Common(v) /\ best_cost < Through(v)
     /\ status' = "stopped"
     /\ UNCHANGED <<v_min_node, best_cost>>
  \/ /\ ~ Common(v)
     /\ UNCHANGED <<status, v_min_node, best_cost>>

\* The loop ends: a queue ran empty, or only unreachable vertices are left.
Exhausted ==
  /\ status = "searching"
  /\ ~ \E f \in forward.queue, b \in backward.queue : Continue(f, b)
  /\ status' = "stopped"
  /\ UNCHANGED <<graph, query, forward, backward, v_min_node, best_cost, answer>>

----------------------------------------------------------------------------
(***************************************************************************)
(* The Path that is returned.                                              *)
(***************************************************************************)
\* complete_path: the vertices from the root of the side to v.
TreeWalk(side, v) ==
  LET up[n \in 0..Cardinality(Vertex)] ==
        IF n = 0 THEN v ELSE side.predecessor[up[n - 1]]
      depth == Min({n \in 0..Cardinality(Vertex) - 1 : up[n] = up[n + 1]})
  IN  [i \in 1..depth + 1 |-> up[depth + 1 - i]]

\* The edge of a step of the walk.  The difference of the labels of its two
\* ends tells parallel edges apart; the labels grow away from the root.
StepEdge(cost, u, v) ==
  EdgeId(graph, u, v, Max({cost[v] - cost[u], cost[u] - cost[v]}))

\* Path(graph, original, only_cost): every edge of the joined path is looked up
\* again, by its identifier, among the out-edges of the node of its row.
RowsOf(u, id) ==
  LET named  == {a \in OutArcs(graph, u) : a.id = id}
      nth(i) == CHOOSE a \in named : Cardinality({b \in named : b.pos <= a.pos}) = i
  IN  [i \in 1..Cardinality(named) |->
         [node |-> u, edge |-> id, cost |-> nth(i).cost, pos |-> nth(i).pos]]

TotalCost(rows) == FoldSeq(LAMBDA r, sum : r.cost + sum, 0, rows)

LastRow(cost) == [node |-> query.target, edge |-> NoEdge, cost |-> cost]

\* A slip: the backward path is appended without reversing it.
PathRowsUnreversed(there, back) ==
  FlattenSeq([i \in 1..Len(there) - 1 |->
                RowsOf(there[i], StepEdge(forward.cost, there[i], there[i + 1]))]
             \o
             [i \in 1..Len(back) - 1 |->
                RowsOf(back[i], StepEdge(backward.cost, back[i], back[i + 1]))])

\* there and back are the two tree walks, both ending at v_min_node.
PathRows(there, back) ==
  FlattenSeq([i \in 1..Len(there) - 1 |->
                RowsOf(there[i], StepEdge(forward.cost, there[i], there[i + 1]))]
             \o
             [i \in 1..Len(back) - 1 |->
                LET u == back[Len(back) - i + 1]  v == back[Len(back) - i]
                IN  RowsOf(u, StepEdge(backward.cost, u, v))])

Return ==
  /\ status = "stopped"
  /\ status' = "answered"
  /\ \E there \in {TreeWalk(forward, v_min_node)}, back \in {TreeWalk(backward, v_min_node)} :
       \E rows \in {PathRows(there, back)} :
         answer' = IF best_cost = INF \/ rows = <<>> THEN <<>>
                   ELSE IF query.only_cost THEN <<LastRow(TotalCost(rows))>>
                   ELSE Append([i \in DOMAIN rows |->
                           [node |-> rows[i].node, edge |-> rows[i].edge,
                            cost |-> rows[i].cost]], LastRow(0))
  /\ UNCHANGED <<graph, query, forward, backward, v_min_node, best_cost>>

----------------------------------------------------------------------------
(***************************************************************************)
(* A query.  The driver builds one search object per graph and asks it     *)
(* every pair of the combinations whose two vertices the graph has, one    *)
(* after the other; initialize sets every member again for each of them.   *)
(***************************************************************************)
Init ==
  /\ graph \in Graphs
  /\ status = "idle"
  /\ query = [source |-> Min(Vertex), target |-> Min(Vertex), only_cost |-> FALSE]
  /\ forward = Rooted(query.source)
  /\ backward = Rooted(query.target)
  /\ v_min_node = Min(Vertex)
  /\ best_cost = INF
  /\ answer = <<>>

\* A slip: the finished marks of the previous query survive initialize.
AskUncleared(s, t, only_cost) ==
  /\ status \in {"idle", "answered"}
  /\ s \in VerticesOf(graph) /\ t \in VerticesOf(graph)
  /\ status' = "searching"
  /\ query' = [source |-> s, target |-> t, only_cost |-> only_cost]
  /\ forward' = [Rooted(s) EXCEPT !.finished = forward.finished]
  /\ backward' = [Rooted(t) EXCEPT !.finished = backward.finished]
  /\ v_min_node' = Min(Vertex)
  /\ best_cost' = INF
  /\ answer' = <<>>
  /\ UNCHANGED graph

Ask(s, t, only_cost) ==
  /\ status \in {"idle", "answered"}
  /\ s \in VerticesOf(graph) /\ t \in VerticesOf(graph)
  /\ status' = "searching"
  /\ query' = [source |-> s, target |-> t, only_cost |-> only_cost]
  /\ forward' = Rooted(s)
  /\ backward' = Rooted(t)
  /\ v_min_node' = Min(Vertex)
  /\ best_cost' = INF
  /\ answer' = <<>>
  /\ UNCHANGED graph
----------------------------------------------------------------------------
(***************************************************************************)
(* Properties of both searches.                                            *)
(***************************************************************************)
TypeOK ==
  /\ graph \in Graphs
  /\ status \in Status
  /\ query \in Query
  /\ forward \in Side
  /\ backward \in Side
  /\ v_min_node \in Vertex
  /\ best_cost \in Nat

\* The predecessors complete_path will follow form a tree of finished vertices
\* whose labels differ by the cost of an arc (path.hpp:291-344).
IsTree(side, arcs, root) ==
  \A v \in Vertex \ {root} : side.cost[v] < INF =>
    /\ side.predecessor[v] \in side.finished
    /\ \E a \in arcs : /\ a.from = side.predecessor[v] /\ a.to = v
                       /\ side.cost[v] = side.cost[a.from] + a.cost

\* found() compares costs of sides that keep changing: whatever happens after a
\* meeting was recorded, it stays the sum of two final labels
\* (bidirectional.hpp:195-209).
MeetingIsFinal ==
  best_cost < INF =>
    /\ v_min_node \in forward.finished \cap backward.finished
    /\ best_cost = forward.cost[v_min_node] + backward.cost[v_min_node]

\* Two distances within a graph add up to a double: above it found() takes a vertex
\* that both sides have finished for a dear meeting, and the search ends before any
\* was recorded (bidirectional.hpp:195-209).
TotalsFit ==
  \A g \in Graphs : \A s, t, v \in Vertex :
    Distance(g, s, v) < INF /\ Distance(Reversed(g), t, v) < INF =>
      Distance(g, s, v) + Distance(Reversed(g), t, v) <= INF

\* An edge of the path is looked up again by its name among the edges that leave its
\* vertex (path.hpp:208): loops aside, no two edges of one name leave a vertex.
NamesAreOwn ==
  \A g \in Graphs : \A a, b \in g :
    a.from = b.from /\ a.id = b.id /\ a.from # a.to => a = b

\* With positive costs, two different vertices that are connected always meet:
\* neither queue runs empty first (bidirectional.hpp:133-163).
PositiveCosts == \A a \in graph : a.cost > 0

FoundWhenConnected ==
  /\ status = "answered" /\ query.source # query.target /\ PositiveCosts
  /\ Distance(graph, query.source, query.target) < INF
  => answer # <<>>

\* Every call returns: the loop of bidirectional() ends whatever the graph is.
CallReturns == status = "searching" ~> status = "answered"

----------------------------------------------------------------------------
(***************************************************************************)
(* What a caller sees of it is a PathQuery: an empty answer or a real      *)
(* route between the two vertices of the query.                            *)
(***************************************************************************)
Caller == INSTANCE PathQuery WITH
            status <- IF status \in {"searching", "stopped"} THEN "asked" ELSE status

AnswersAreRoutes == Caller!Spec

----------------------------------------------------------------------------
(***************************************************************************)
(* What the documentation says of the answer, and the code does not do.    *)
(***************************************************************************)
\* "finds a shortest path" (doc/bdDijkstra/bdDijkstra-family.rst:40), and the
\* claim of the loop that "there is no path with lower cost"
\* (bidirectional.hpp:137): a route that is returned has the least cost.
AnswerIsShortest ==
  status = "answered" /\ answer # <<>> =>
    TotalCost(answer) = Distance(graph, query.source, query.target)

\* The same documentation, of the answers that are missing: no path only when
\* there is none, costs of zero included.
EmptyMeansUnreachable ==
  status = "answered" /\ query.source # query.target /\ answer = <<>> =>
    Distance(graph, query.source, query.target) >= INF
=============================================================================
