------------------------ MODULE ContractionHierarchies ------------------------
(***************************************************************************)
(* pgr_contractionHierarchies (include/contraction/                        *)
(* contractionHierarchies.hpp and its driver): every vertex that is not    *)
(* forbidden is contracted, in an order of lazily corrected priorities,    *)
(* out of a copy of the graph; a contraction is first simulated on that    *)
(* very copy, to learn its metric.  The shortcuts that were made on the    *)
(* copy are added to the graph that is returned.  A step is one simulation *)
(* or one contraction.  Costs are integers, Unit of them make the cost 1.  *)
(***************************************************************************)
EXTENDS ContractionGraph

CONSTANTS Calls,   \* the arguments a call may be given
          Unit,    \* 1.0 as a cost
          Ranks    \* the orders in which the heap of boost may give vertices at equal distance

ASSUME UnitAssumption == Unit \in Nat \ {0}

ASSUME RanksAssumption == Ranks \subseteq [Vertex -> Int]

AnyRow == [id : Int, source : Vertex, target : Vertex, cost : Int, reverse_cost : Int]

CallType == [rows : SUBSET AnyRow, directed : BOOLEAN, forbidden : SUBSET Vertex]

ASSUME CallsAssumption == Calls \subseteq CallType

\* Beside those of ContractionGraph, where "created" counts the shortcuts of the
\* copy and "phase" is "called" | "choosing" | "contracting" | "over" | "returned" |
\* "failed" | "undefined".
VARIABLES
  rank,             \* which of two vertices at equal distance the heap of boost gives first
  graph, copy,      \* the edges of graph and of graph_copy
  minPQ,            \* the vertices to contract, with their priority
  ordered_vertex,   \* the one that was taken from the queue
  shortcuts,        \* the edges that are to be copied
  priority_queue,   \* the contracted vertices with their metric
  vertex_order,     \* of the vertices of graph
  requeued,         \* history: the vertices queued again since the last contraction
  contracted        \* history: the vertices in the order of their contraction

chVars == <<request, rank, phase, graph, copy, created, minPQ, ordered_vertex, shortcuts,
            priority_queue, vertex_order, requeued, contracted, answer>>

----------------------------------------------------------------------------
(***************************************************************************)
(* The graph.  Undirected, it has no parallel edges: adding one gives the  *)
(* edge that is there the new cost.                                        *)
(***************************************************************************)
GivesReverse(r) == r.reverse_cost >= 0 /\ r.cost # r.reverse_cost

LastAdded(rows) ==
  LET giving == {r \in rows : r.cost >= 0 \/ r.reverse_cost >= 0}
  IN  {Plain(r.id, r.source, r.target, IF GivesReverse(r) THEN r.reverse_cost ELSE r.cost) :
         r \in {x \in giving : \A y \in giving :
                  {x.source, x.target} = {y.source, y.target} => y.id <= x.id}}

Loaded(rows, directed) == IF directed THEN EdgesOf(rows, TRUE) ELSE LastAdded(rows)

VerticesIn(E) == {e.from : e \in E} \cup {e.to : e \in E}

\* boost::edge(u, v): the first of them.  Rows come in the order of their
\* identifiers, and a shortcut is never beside another edge.
FirstEdge(E, directed, u, v) ==
  LET B == EdgesBetween(E, directed, u, v)
  IN  CHOOSE e \in B : \A d \in B : e.id <= d.id

HasEdge(E, directed, u, v) == EdgesBetween(E, directed, u, v) # {}

find_adjacent_in_vertices(E, directed, v) ==
  IF directed THEN {e.from : e \in {d \in E : d.to = v}} ELSE Adjacent(E, v)

find_adjacent_out_vertices(E, directed, v) ==
  IF directed THEN {e.to : e \in {d \in E : d.from = v}} ELSE Adjacent(E, v)

----------------------------------------------------------------------------
(***************************************************************************)
(* compute_shortcuts.                                                      *)
(***************************************************************************)
\* An integer: what the cost of the detours is truncated to.
compute_pmax(E, directed, u, v, out) ==
  Max({FirstEdge(E, directed, u, v).cost}
      \cup {FirstEdge(E, directed, u, v).cost + FirstEdge(E, directed, v, w).cost :
              w \in out \ {u}}) \div Unit

\* The single element of a set: {e(x) : x \in {d}} has TLC compute d once.
The(S) == CHOOSE x \in S : TRUE

\* "for (auto &v : S)": identifiers are in ascending order.
ForEach(op(_, _), g, S) ==
  MapThenFoldSet(LAMBDA v, h : op(h, v), g, LAMBDA v : v, LAMBDA T : Max(T), S)

DistancesFrom(arcs, u) ==
  The({[x \in Vertex |-> Min({INF} \cup {w[2] : w \in {y \in W : y[1] = x}})] :
         W \in {WalkCosts(arcs, u)}})

\* What boost::dijkstra_shortest_paths leaves behind when it is stopped at the
\* first vertex that is farther than the limit: vertices before it have their
\* distance, those after it what the former reach them with.  "order" tells
\* vertices at equal distance apart.
LabelsFrom(arcs, order, D, u, limit) ==
  LET Reaching(x) == {a \in arcs : a.to = x /\ D[a.from] <= limit}
      Label(x)    == IF x = u THEN 0 ELSE Min({INF} \cup {D[a.from] + a.cost : a \in Reaching(x)})
      Tight(x)    == {a.from : a \in {b \in Reaching(x) : D[b.from] + b.cost = Label(x)}}
      Earlier(x, y) == D[x] < D[y] \/ (D[x] = D[y] /\ order[x] <= order[y])
  IN  [x \in Vertex |->
         [dist |-> Label(x),
          pred |-> IF x = u \/ Tight(x) = {} THEN x
                   ELSE The({CHOOSE t \in T : \A s \in T : Earlier(t, s) : T \in {Tight(x)}})]]

Labelled(E, directed, order, u, limit) ==
  The({The({LabelsFrom(arcs, order, D, u, limit) : D \in {DistancesFrom(arcs, u)}}) :
         arcs \in {ArcsIn(E, directed)}})

\* A slip: every pair of neighbours is looked at once, as if roads were two-way.
IsDetourOfPair(E, directed, labels, u, v, w) ==
  /\ u < w /\ HasEdge(E, directed, v, w)
  /\ HasEdge(E, directed, u, w) => labels[w].dist < FirstEdge(E, directed, u, w).cost
  /\ labels[w].pred = v /\ labels[v].pred = u
  /\ labels[w].dist = FirstEdge(E, directed, u, v).cost + FirstEdge(E, directed, v, w).cost

\* The detour by v is what the search found, and beats the edge there is.
IsDetour(E, directed, labels, u, v, w) ==
  /\ u # w /\ HasEdge(E, directed, v, w)
  /\ HasEdge(E, directed, u, w) => labels[w].dist < FirstEdge(E, directed, u, w).cost
  /\ labels[w].pred = v /\ labels[v].pred = u
  /\ labels[w].dist = FirstEdge(E, directed, u, v).cost + FirstEdge(E, directed, v, w).cost

\* process_ch_shortcut, for a copy g of edges, created and new shortcuts.
process_ch_shortcut(g, directed, u, v, w) ==
  IF ~ IsShortcutPossible(g.edges, directed, u, v, w) \/ HasEdge(g.edges, directed, u, w) THEN g
  ELSE LET s == Shortcut(g.edges, directed, [x \in Vertex |-> {}], -(g.created + 1), u, v, w)
       IN  [edges |-> g.edges \cup {s}, created |-> g.created + 1, new |-> g.new \cup {s}]

DetoursOver(g, directed, labels, u, v, out) ==
  ForEach(LAMBDA h, w : The({IF IsDetour(k.edges, directed, labels, u, v, w)
                             THEN process_ch_shortcut(k, directed, u, v, w) ELSE k : k \in {h}}),
          g, out)

compute_shortcuts(g, directed, order, u, v, out) ==
  The({IF p_max = 0 THEN g
       ELSE The({DetoursOver(g, directed, labels, u, v, out) :
                   labels \in {Labelled(g.edges, directed, order, u, p_max * Unit)}}) :
         p_max \in {compute_pmax(g.edges, directed, u, v, out)}})

\* vertex_contraction up to where a simulation parts from a contraction, for a
\* graph of edges E in which n shortcuts were created.
WithShortcuts(E, directed, order, n, v) ==
  ForEach(LAMBDA g, u : The({compute_shortcuts(h, directed, order, u, v,
                                               find_adjacent_out_vertices(E, directed, v)) : h \in {g}}),
          [edges |-> E, created |-> n, new |-> {}],
          find_adjacent_in_vertices(E, directed, v))

\* The edge difference.
MetricOf(g, E, directed, v) ==
  Cardinality(g.new)
    - (IF directed THEN Cardinality(find_adjacent_in_vertices(E, directed, v))
                        + Cardinality(find_adjacent_out_vertices(E, directed, v))
                   ELSE Cardinality(Adjacent(E, v)))

----------------------------------------------------------------------------
(***************************************************************************)
(* The call.                                                               *)
(***************************************************************************)
ChInit ==
  /\ request \in Calls
  /\ rank \in Ranks
  /\ phase = "called"
  /\ graph = {} /\ copy = {} /\ created = 0
  /\ minPQ = {} /\ ordered_vertex = <<0, Min(Vertex)>>
  /\ shortcuts = {} /\ priority_queue = {}
  /\ vertex_order = [v \in Vertex |-> -1]
  /\ requeued = <<>> /\ contracted = <<>> /\ answer = NoRows

\* Vertices are queued in the order of their identifiers.
contractionHierarchies ==
  /\ phase = "called"
  /\ phase' = IF request.rows = {} THEN "returned" ELSE "choosing"
  /\ graph' = Loaded(request.rows, is_directed)
  /\ copy' = graph'
  /\ minPQ' = {<<v, v>> : v \in VerticesIn(graph') \ request.forbidden}
  /\ UNCHANGED <<request, rank, created, ordered_vertex, shortcuts, priority_queue,
                 vertex_order, requeued, contracted, answer>>

Least(Q) == CHOOSE p \in Q : \A q \in Q : p[1] < q[1] \/ (p[1] = q[1] /\ p[2] <= q[2])

\* minPQ.top(), of an empty queue too: what was popped last is still in the
\* memory of its vector.
TopOf(Q, popped) == IF Q = {} THEN popped ELSE Least(Q)

Requeued(top, metric) == <<metric, top[2]>>

\* A slip: the shortcut made last is the only one that is taken out again.
UndoneLast(g) == {e \in g.edges : e \notin g.new \/ \E d \in g.new : d.id < e.id}

Undone(g) == g.edges \ g.new

\* The vertex on top is contracted in simulation; when its metric has become
\* greater than the priority of the next it is queued again.
Simulate ==
  /\ phase = "choosing" /\ minPQ # {}
  /\ \E top \in {Least(minPQ)} : \E g \in {WithShortcuts(copy, is_directed, rank, created, top[2])} :
       LET rest   == minPQ \ {top}
           metric == MetricOf(g, copy, is_directed, top[2])
       IN  /\ created' = g.created
           /\ ordered_vertex' = top
           /\ copy' = Undone(g)
           /\ IF TopOf(rest, top)[1] < metric
              THEN /\ minPQ' = rest \cup {Requeued(top, metric)}
                   /\ requeued' = Append(requeued, top[2])
                   /\ UNCHANGED phase
              ELSE /\ minPQ' = rest
                   /\ phase' = "contracting"
                   /\ UNCHANGED requeued
  /\ UNCHANGED <<request, rank, graph, shortcuts, priority_queue, vertex_order, contracted, answer>>

\* A library that checks its containers stops at the top() of an empty queue.
Undefined ==
  /\ phase = "choosing" /\ Cardinality(minPQ) = 1
  /\ phase' = "undefined"
  /\ UNCHANGED <<request, rank, graph, copy, created, minPQ, ordered_vertex, shortcuts,
                 priority_queue, vertex_order, requeued, contracted, answer>>

Contract ==
  /\ phase = "contracting"
  /\ phase' = "choosing"
  /\ LET v == ordered_vertex[2]
     IN  \E g \in {WithShortcuts(copy, is_directed, rank, created, v)} :
           /\ created' = g.created
           /\ copy' = g.edges \ Incident(g.edges, v)
           /\ shortcuts' = shortcuts \cup g.new
           /\ priority_queue' = priority_queue \cup {<<MetricOf(g, copy, is_directed, v), v>>}
           /\ contracted' = Append(contracted, v)
           /\ requeued' = <<>>
  /\ UNCHANGED <<request, rank, graph, minPQ, ordered_vertex, vertex_order, answer>>

\* set_vertices_metric_and_hierarchy: the order in which the queue gives them.
OrderIn(Q, p) == Cardinality({q \in Q : q[1] < p[1] \/ (q[1] = p[1] /\ q[2] <= p[2])})

CopyShortcuts ==
  /\ phase = "choosing" /\ minPQ = {}
  /\ phase' = "over"
  /\ graph' = graph \cup shortcuts
  /\ vertex_order' = [v \in Vertex |->
                        IF v \in Range(contracted)
                        THEN OrderIn(priority_queue, CHOOSE p \in priority_queue : p[2] = v)
                        ELSE -1]
  /\ UNCHANGED <<request, rank, copy, created, minPQ, ordered_vertex, shortcuts,
                 priority_queue, requeued, contracted, answer>>

\* get_shortcuts asserts that shortcuts, and only they, have a negative identifier.
IsTold(E) == \A e \in E : e.id < 0 <=> e.contracted # {}

\* graph_to_tuple
ChReturn ==
  /\ phase = "over"
  /\ IF IsTold(graph)
     THEN /\ phase' = "returned"
          /\ answer' = [vertices |-> {[id |-> v, order |-> vertex_order[v]] :
                                        v \in {x \in Vertex : vertex_order[x] > 0}},
                        edges |-> {e \in graph : e.id < 0}]
     ELSE /\ phase' = "failed"
          /\ UNCHANGED answer
  /\ UNCHANGED <<request, rank, graph, copy, created, minPQ, ordered_vertex, shortcuts,
                 priority_queue, vertex_order, requeued, contracted>>

ChDone == phase \in {"returned", "failed", "undefined"} /\ UNCHANGED chVars

ChStep == contractionHierarchies \/ Simulate \/ Undefined \/ Contract \/ CopyShortcuts \/ ChReturn

ChNext == ChStep \/ ChDone

ChSpec == ChInit /\ [][ChNext]_chVars /\ WF_chVars(ChStep)

----------------------------------------------------------------------------
(***************************************************************************)
(* Properties.                                                             *)
(***************************************************************************)
Roads == Loaded(request.rows, is_directed)

SameDistances(E, F, S) ==
  \A x \in S :
    \E D \in {DistancesFrom(ArcsIn(E, is_directed), x)}, C \in {DistancesFrom(ArcsIn(F, is_directed), x)} :
      \A y \in S : D[y] = C[y]

\* A shortcut, made of edges and of other shortcuts whose vertices are long gone,
\* costs what a route costs: added to the graph it brings no two vertices nearer
\* (contractionGraph.hpp:394-432, 461-472).
NoPairGetsNearer == SameDistances(Roads \cup shortcuts, Roads, VerticesIn(Roads))

\* The copy is what the answer says is left: the roads and the shortcuts that
\* were kept, between vertices not contracted yet.
CopyIsWhatIsLeft ==
  phase # "called" =>
    copy = {e \in Roads \cup shortcuts : {e.from, e.to} \cap Range(contracted) = {}}

\* A vertex is queued again once at most before the next contraction.
RequeuedOnce == \A i, j \in DOMAIN requeued : requeued[i] = requeued[j] => i = j

\* Simulations share the copy with the contractions and leave nothing in it: it is
\* at all times what the answer says, and simulated again a vertex has the metric
\* it was queued with, so that stale priorities cost one simulation each and every
\* call returns (contractionHierarchies.hpp:203-218, 259-298).
SimulationsLeaveNothing == CopyIsWhatIsLeft /\ RequeuedOnce

\* The roads for which contraction keeps what it promises: costs are positive
\* whole numbers, no road is longer than a detour, none has a parallel one, and
\* all are two-way and cost the same both ways, or no route leads back.
Plainest ==
  LET E    == Roads
      arcs == ArcsIn(E, is_directed)
  IN  /\ \A e \in E : e.cost > 0 /\ e.cost % Unit = 0 /\ ~ e.from = e.to
      /\ \A a \in arcs : a.cost = Distance(arcs, a.from, a.to)
      /\ \A e \in E : EdgesBetween(E, is_directed, e.from, e.to) = {e}
      /\ \/ \A a \in arcs : \E b \in arcs : b.from = a.to /\ b.to = a.from /\ b.cost = a.cost
         \/ \A a \in arcs : Distance(arcs, a.to, a.from) = INF

\* On such roads the vertices that are left keep their distances, however many
\* were contracted and in whatever order the stale priorities took them
\* (contractionHierarchies.hpp:127-146, 259-298).
DistancesRemain ==
  phase = "choosing" /\ Plainest =>
    SameDistances(copy, Roads, VerticesIn(Roads) \ Range(contracted))

----------------------------------------------------------------------------
(***************************************************************************)
(* What the documentation says, and the code does not do.                  *)
(***************************************************************************)
\* The search by the order of the vertices: up from the one end, and down to
\* the other.  What was not contracted is above everything.
Above(u, v) ==
  \/ vertex_order[v] = -1
  \/ vertex_order[u] # -1 /\ vertex_order[u] < vertex_order[v]

UpDistance(arcs, s, t) ==
  \E there \in {DistancesFrom({a \in arcs : Above(a.from, a.to)}, s)} :
  \E back \in {DistancesFrom(Reversed({a \in arcs : Above(a.to, a.from)}), t)} :
    \E d \in {Min({INF} \cup {there[v] + back[v] : v \in Vertex})} : d <= Distance(arcs, s, t)

\* "The vertices order is used to feed the oriented search. The search is made
\* without losing optimality." (doc/contraction/pgr_contractionHierarchies.rst:58-59).
SearchIsOptimal ==
  phase = "returned" =>
    \E arcs \in {ArcsIn(graph, is_directed)} :
      \A s \in VerticesIn(graph), t \in VerticesIn(graph) : UpDistance(arcs, s, t)

\* "The search is made without losing optimality": whatever the order, a search of
\* the remaining graph and the shortcuts is to be exact, all roads allowed that
\* the documentation allows ("graphs having only edges with positive costs",
\* doc/contraction/pgr_contractionHierarchies.rst:68).
NothingIsLost ==
  phase = "choosing" /\ (\A e \in Roads : e.cost > 0) =>
    SameDistances(copy, Roads, VerticesIn(Roads) \ Range(contracted))

\* The assertions of get_shortcuts (contractionGraph.hpp:319-324).
ShortcutsAreTold == phase # "failed"
=============================================================================
