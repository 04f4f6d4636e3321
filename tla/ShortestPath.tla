---------------------------- MODULE ShortestPath ----------------------------
(***************************************************************************)
(* do_shortestPath (src/dijkstra/shortestPath_driver.cpp): one driver for  *)
(* pgr_dijkstra, pgr_withPoints, their cost, matrix and near forms.  Pairs *)
(* of vertices become one search of Dijkstra's for each source, which ends *)
(* when all its goals, or enough of them, were found; calls with many      *)
(* sources and one goal are answered by searches from the goal over the    *)
(* roads turned round, whose paths are turned back.                        *)
(***************************************************************************)
EXTENDS PointsOnEdges

CONSTANTS
  Requests,
  \* rows, points, which ("dijkstra" | "withPoints"), query (whether the pairs come
  \* from a query), pairs, starts, ends, directed, only_cost, normal, n_goals,
  \* global, side, details
  Leftovers
  \* what may be found where a double is not initialised, a set that is not empty

VARIABLES
  request,
  phase,          \* "call", "combinations", "search", "results", then "done" or "refused"
  graph,          \* the arcs
  sources,        \* the sources still to come, in ascending order
  departure,
  distances, predecessors,
  queue,          \* boost's heap: the vertices in it
  m_goals,        \* the goals still to be found,
  m_n_goals,      \* and how many are wanted
  paths,
  answer

searching == <<departure, distances, predecessors, queue, m_goals, m_n_goals>>

vars == <<request, phase, graph, sources, searching, paths, answer>>

Unlimited == -1

has_vertex(v) == v \in VerticesOf(graph)

----------------------------------------------------------------------------
(***************************************************************************)
(* The arguments.                                                          *)
(***************************************************************************)
\* get_combinations: pairs of a query, or starts and ends in the direction of the
\* search; without ends it is a matrix.
combinations ==
  LET starts == IF request.normal THEN request.starts ELSE request.ends
      ends   == IF request.normal THEN request.ends ELSE request.starts
  IN  IF request.query THEN request.pairs
      ELSE starts \X (IF ends = {} THEN starts ELSE ends)

Turned(row) == [row EXCEPT !.source = row.target, !.target = row.source]

\* The rows as the query hands them over.
Rows == IF request.normal THEN request.rows ELSE {Turned(row) : row \in request.rows}

HasPoint(row) == \E p \in request.points : p.edge_id = row.id

edges_of_points == EdgesIn({row \in Rows : HasPoint(row)})
edges_no_points == EdgesIn({row \in Rows : ~ HasPoint(row)})

\* The members of Pg_points_graph.
m_points == IF request.normal THEN request.points ELSE reverse_sides(request.points)

m_driving_side ==
  IF ~ request.directed THEN "b"
  ELSE IF request.normal THEN request.side ELSE OtherSide(request.side)

\* estimate_drivingSide throws, or the constructor of Pg_points_graph fails.
Unacceptable ==
  \/ request.which = "withPoints" /\ request.side \notin {"r", "l", "b"}
  \/ HasError(m_points)
  \/ ~ Asserted(m_points, edges_of_points, m_driving_side)

n_goals == IF request.n_goals <= 0 THEN Unlimited ELSE request.n_goals

Init ==
  /\ request \in Requests
  /\ phase = "call"
  /\ graph = {} /\ sources = <<>>
  /\ departure = CHOOSE v \in Vertex : TRUE
  /\ distances = <<>> /\ predecessors = <<>> /\ queue = {}
  /\ m_goals = {} /\ m_n_goals = Unlimited
  /\ paths = {} /\ answer = <<>>

NoPairs == request.query /\ combinations = {}

NothingToDo ==
  /\ phase = "call" /\ (NoPairs \/ Rows = {})
  /\ phase' = "done"
  /\ UNCHANGED <<request, graph, sources, searching, paths, answer>>

Refuse ==
  /\ phase = "call" /\ ~ NoPairs /\ Rows # {} /\ Unacceptable
  /\ phase' = "refused"
  /\ UNCHANGED <<request, graph, sources, searching, paths, answer>>

Build ==
  /\ phase = "call" /\ ~ NoPairs /\ Rows # {} /\ ~ Unacceptable
  /\ graph' = ArcsOf(edges_no_points \o create_new_edges(m_points, edges_of_points, m_driving_side),
                     request.directed)
  /\ sources' = SetToSortSeq({c[1] : c \in combinations}, <)
  /\ phase' = "combinations"
  /\ UNCHANGED <<request, searching, paths, answer>>

----------------------------------------------------------------------------
(***************************************************************************)
(* The searches.                                                           *)
(***************************************************************************)
SkipSource ==
  /\ phase = "combinations" /\ sources # <<>> /\ ~ has_vertex(Head(sources))
  /\ sources' = Tail(sources)
  /\ UNCHANGED <<request, phase, graph, searching, paths, answer>>

destinations(s) == {c[2] : c \in {d \in combinations : d[1] = s /\ has_vertex(d[2])}}

StartSearch ==
  /\ phase = "combinations" /\ sources # <<>> /\ has_vertex(Head(sources))
  /\ phase' = "search"
  /\ sources' = Tail(sources)
  /\ departure' = Head(sources)
  /\ distances' = [v \in Vertex |-> IF v = departure' THEN 0 ELSE INF]
  /\ predecessors' = [v \in Vertex |-> v]
  /\ queue' = {departure'}
  /\ m_goals' = destinations(departure') /\ m_n_goals' = n_goals
  /\ UNCHANGED <<request, graph, paths, answer>>

Nearest == {v \in queue : \A w \in queue : distances[v] <= distances[w]}

\* examine_vertex throws: the vertex was the last goal, or the last that is wanted.
Suffices(u) == u \in m_goals /\ (m_goals = {u} \/ m_n_goals = 1)

\* A slip: whatever was labelled by then is a result.
KeepPredecessors(u) == predecessors

\* The goals that were not found forget what they were labelled with.
OnlyFound(u) == [v \in Vertex |-> IF v \in m_goals \ {u} THEN v ELSE predecessors[v]]

\* The exception leaves the search before the roads out of u are looked at.
FindLastGoal(u) ==
  /\ phase = "search" /\ u \in Nearest /\ Suffices(u)
  /\ predecessors' = OnlyFound(u)
  /\ m_goals' = m_goals \ {u} /\ m_n_goals' = Unlimited
  /\ queue' = {}
  /\ UNCHANGED <<request, phase, graph, sources, departure, distances, paths, answer>>

\* Boost: the cheapest road to each neighbour, the first one inserted of equals.
Relaxed(u) ==
  LET Roads(v) == {a \in OutArcs(graph, u) : a.to = v}
      Cost(v) == distances[u] + Min({INF} \cup {a.cost : a \in Roads(v)})
  IN  {<<v, Cost(v)>> : v \in {w \in Vertex : Cost(w) < distances[w]}}

ExamineVertex(u) ==
  /\ phase = "search" /\ u \in Nearest /\ ~ Suffices(u)
  /\ \E nearer \in {Relaxed(u)} :
       LET closer == {r[1] : r \in nearer}
       IN  /\ distances' = [v \in Vertex |-> IF v \in closer THEN (CHOOSE r \in nearer : r[1] = v)[2]
                                             ELSE distances[v]]
           /\ predecessors' = [v \in Vertex |-> IF v \in closer THEN u ELSE predecessors[v]]
           /\ queue' = (queue \ {u}) \cup closer
  /\ m_goals' = m_goals \ {u}
  /\ m_n_goals' = IF u \in m_goals /\ m_n_goals # Unlimited THEN m_n_goals - 1 ELSE m_n_goals
  /\ UNCHANGED <<request, phase, graph, sources, departure, paths, answer>>

----------------------------------------------------------------------------
(***************************************************************************)
(* The paths.                                                              *)
(***************************************************************************)
Row(node, edge, cost, agg_cost) == [node |-> node, edge |-> edge, cost |-> cost, agg_cost |-> agg_cost]

\* complete_path: back from the target until a vertex is its own predecessor.
complete_path(target) ==
  LET Before(v) ==
        LET u == predecessors[v]  cost == distances[v] - distances[u]
        IN  IF u = v THEN <<>>
            ELSE <<Row(u, EdgeId(graph, u, v, cost), cost, distances[v] - cost)>>
      back[n \in 0..Cardinality(Vertex)] ==
        IF n = 0 THEN <<Row(target, NoEdge, 0, distances[target])>>
        ELSE LET rows == back[n - 1] IN Before(Head(rows).node) \o rows
  IN  back[Cardinality(Vertex)]

CostOf(rows) == FoldLeft(LAMBDA c, r : c + r.cost, 0, rows)

\* The constructor does not initialise m_tot_cost, to which push_front adds: the
\* total is off by what was left where the path is made.  (An empty path is erased
\* before anybody reads its total.)
PathTo(target, left) ==
  LET rows == IF predecessors[target] = target THEN <<>>
              ELSE IF request.only_cost
                   THEN <<Row(target, NoEdge, distances[target], distances[target])>>
              ELSE complete_path(target)
  IN  [start |-> departure, end |-> target, rows |-> rows,
       tot_cost |-> IF rows = <<>> THEN 0 ELSE left + CostOf(rows)]

\* Costs are sorted by totals that nothing has set.
TotalsAreUnset == request.only_cost /\ n_goals # Unlimited

\* Totals that are set again, or that nobody reads, may as well be right.
LeftBehind == IF TotalsAreUnset THEN Leftovers ELSE {0}

GetPaths ==
  /\ phase = "search" /\ queue = {}
  /\ \E left \in [destinations(departure) -> LeftBehind] :
       paths' = paths \cup {PathTo(target, left[target]) : target \in destinations(departure)}
  /\ phase' = "combinations"
  /\ UNCHANGED <<request, graph, sources, searching, answer>>

reverse(path) ==
  LET rows == path.rows
      m == Len(rows)
      Opposite(n) == IF n = m THEN Row(rows[1].node, NoEdge, 0, 0)
                     ELSE [rows[m - n] EXCEPT !.node = rows[m - n + 1].node]
  IN  [path EXCEPT !.start = path.end, !.end = path.start,
                   !.rows = IF m <= 1 THEN rows ELSE [n \in 1..m |-> Opposite(n)]]

recalculate_agg_cost(rows) ==
  [n \in DOMAIN rows |-> [rows[n] EXCEPT !.agg_cost = CostOf(SubSeq(rows, 1, n - 1))]]

\* By start and end, and with a limit by the cost before that.
ComesFirst(p, q) ==
  \/ n_goals # Unlimited /\ p.tot_cost < q.tot_cost
  \/ /\ n_goals = Unlimited \/ p.tot_cost = q.tot_cost
     /\ p.start < q.start \/ (p.start = q.start /\ p.end < q.end)

post_process(found) ==
  LET listed  == {p \in found : p.rows # <<>>}
      turned  == IF request.normal THEN listed ELSE {reverse(p) : p \in listed}
      added   == IF request.only_cost THEN turned
                 ELSE {[p EXCEPT !.rows = recalculate_agg_cost(p.rows), !.tot_cost = CostOf(p.rows)] :
                         p \in turned}
      inOrder == SetToSortSeq(added, ComesFirst)
  IN  IF n_goals # Unlimited /\ request.global /\ n_goals < Len(inOrder)
      THEN SubSeq(inOrder, 1, n_goals) ELSE inOrder

Return ==
  /\ phase = "combinations" /\ sources = <<>>
  /\ \E kept \in {post_process(paths)} :
       answer' = IF request.details THEN kept
                 ELSE [i \in DOMAIN kept |->
                         [kept[i] EXCEPT !.rows = recalculate_agg_cost(eliminate_details(kept[i].rows))]]
  /\ phase' = "done"
  /\ UNCHANGED <<request, graph, sources, searching, paths>>

Done == phase \in {"done", "refused"} /\ UNCHANGED vars

Next == \/ NothingToDo \/ Refuse \/ Build
        \/ SkipSource \/ StartSearch
        \/ (\E u \in queue : FindLastGoal(u) \/ ExamineVertex(u)) \/ GetPaths
        \/ Return \/ Done

Spec == Init /\ [][Next]_vars
----------------------------------------------------------------------------
(***************************************************************************)
(* Properties.                                                             *)
(***************************************************************************)
\* The roads as the caller sees them: never turned round.
Roads ==
  LET broken == {row \in request.rows : HasPoint(row)}
      side   == IF request.directed THEN request.side ELSE "b"
  IN  ArcsOf(EdgesIn(request.rows \ broken)
             \o create_new_edges(request.points, EdgesIn(broken), side), request.directed)

\* The pairs as the caller asked for them.
Asked == IF request.normal THEN combinations ELSE {<<c[2], c[1]>> : c \in combinations}

\* A row leads to the next: by one road, or, when points are left out, by the parts
\* of one road.
Leads(roads, row, next) ==
  IF request.details
  THEN \E a \in roads : /\ a.from = row.node /\ a.to = next.node
                        /\ a.id = row.edge /\ a.cost = row.cost
  ELSE row.cost = Distance({a \in roads : a.id = row.edge}, row.node, next.node)

IsShortest(roads, p) ==
  LET rows == p.rows
      least == Distance(roads, p.start, p.end)
  IN  IF request.only_cost THEN Len(rows) = 1 /\ rows[1].agg_cost = least /\ least < INF
      ELSE /\ Len(rows) > 1 /\ rows[1].node = p.start /\ rows[1].agg_cost = 0
           /\ Last(rows).node = p.end /\ Last(rows).edge = NoEdge /\ Last(rows).agg_cost = least
           /\ \A n \in 1..Len(rows) - 1 :
                /\ rows[n + 1].agg_cost = rows[n].agg_cost + rows[n].cost
                /\ Leads(roads, rows[n], rows[n + 1])

\* The vertex that the search for a pair starts from.
Origin(start, end) == IF request.normal THEN start ELSE end

Cost(p) == Last(p.rows).agg_cost

\* By the cost that is returned, where the order has to do with costs.
InOrder(p, q) ==
  IF TotalsAreUnset THEN <<p.start, p.end>> # <<q.start, q.end>>
  ELSE ComesFirst([p EXCEPT !.tot_cost = Cost(p)], [q EXCEPT !.tot_cost = Cost(q)])

\* The answers that are not dearer than d, and those to the same search.
NoDearer(d) == {i \in DOMAIN answer : Cost(answer[i]) <= d}
OfSearch(origin, d) == {i \in NoDearer(d) : Origin(answer[i].start, answer[i].end) = origin}

IsAnswered(c) == \E i \in DOMAIN answer : answer[i].start = c[1] /\ answer[i].end = c[2]

HasNoWay(roads, c) == c[1] = c[2] \/ Distance(roads, c[1], c[2]) = INF

\* There are as many answers to the search as wanted that are not dearer than d, own
\* goals among them, or as many to the call.
IsFilledUp(origin, d, own) ==
  n_goals # Unlimited /\ n_goals <= Cardinality(OfSearch(origin, d)) + own
IsFull(d) == n_goals # Unlimited /\ request.global /\ n_goals <= Cardinality(NoDearer(d))

Returned == phase = "done" /\ ~ NoPairs /\ Rows # {}

\* The answers are shortest paths over the roads as they were given, whatever way
\* the search went, between different pairs that were asked for and in the order
\* the caller expects; there are no more of them than wanted, and a pair that is
\* missing has no path or is no nearer than those of its search (of the call, when
\* the limit is global) that fill it up.  Searches are left by an exception when
\* enough goals were found, with labels of the others in the shared arrays
\* (dijkstra_visitors.hpp:92-109, dijkstra.hpp:97-104); the source itself counts
\* when it is a goal of its own (shortestPath_driver.cpp:98-143).  Where costs alone
\* are wanted, up to a limit, the order is any, and a global limit is filled with
\* any of the nearest of each search: they are sorted by a total that was never set.
AnswersAreNearest ==
  Returned =>
    \E roads \in {Roads} :
      /\ \A i \in DOMAIN answer :
           /\ <<answer[i].start, answer[i].end>> \in Asked
           /\ IsShortest(roads, answer[i])
           /\ \A j \in 1..i - 1 : InOrder(answer[j], answer[i])
      /\ n_goals # Unlimited =>
           /\ request.global => Len(answer) <= n_goals
           /\ \A o \in Vertex : Cardinality(OfSearch(o, INF)) <= n_goals
      /\ \A c \in Asked :
           \E d \in {Distance(roads, c[1], c[2])}, o \in {Origin(c[1], c[2])} :
             \/ IsAnswered(c) \/ HasNoWay(roads, c)
             \/ IsFilledUp(o, d, IF <<o, o>> \in Asked THEN 1 ELSE 0)
             \/ IsFull(IF TotalsAreUnset THEN INF ELSE d)

----------------------------------------------------------------------------
(***************************************************************************)
(* What the documentation says, and the code does not do.                  *)
(***************************************************************************)
\* The functions find "the shortest path from the starting vertex to the nearest
\* ending vertex" (doc/dijkstra/pgr_dijkstraNear.rst:43, pgr_dijkstraNearCost.rst:44);
\* there is no path from a vertex to itself, but one that is asked for uses up the
\* limit, and which costs are kept is left to totals that are not initialised.
NearestAreGiven ==
  Returned =>
    \A c \in Asked :
      \E d \in {Distance(Roads, c[1], c[2])} :
        IsAnswered(c) \/ HasNoWay(Roads, c) \/ IsFilledUp(Origin(c[1], c[2]), d, 0) \/ IsFull(d)

\* "When false the results will not include the points that are in the path"
\* (doc/categories/withPoints-category.rst:174), but the vertices are: no row leads
\* through one.
OnlyPointsAreLeftOut ==
  Returned =>
    \A i \in DOMAIN answer :
      LET rows == answer[i].rows
      IN  \A n \in 1..Len(rows) - 1 :
            rows[n].cost = Distance({a \in Roads : /\ a.id = rows[n].edge
                                                   /\ a.to \in Point \cup {rows[n + 1].node}},
                                    rows[n].node, rows[n + 1].node)
=============================================================================
