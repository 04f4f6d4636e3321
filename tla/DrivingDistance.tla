-------------------------- MODULE DrivingDistance --------------------------
(***************************************************************************)
(* pgr_drivingDistance and pgr_withPointsDD: the spanning trees of what    *)
(* lies within a distance of each root, include/dijkstra/drivingDist.hpp,  *)
(* on a graph in which roads may have been broken by points.  Without      *)
(* equicost every root has distances of its own; with equicost the roots   *)
(* follow each other on the same distances, and a visitor marks black what *)
(* an earlier root already reached as cheaply.  The lists are sets of rows *)
(* here: that they are sorted is all their order says.                     *)
(***************************************************************************)
EXTENDS PointsOnEdges

CONSTANT Requests   \* rows, points, side, directed, roots, distance, equicost, details

VARIABLES
  request,
  phase,          \* "call", "roots", "search", "answer", then "done", "refused" or "thrown"
  graph,          \* the arcs
  roots,          \* the roots still to come, in ascending order
  root,
  distances, predecessors, color,
  queue,          \* boost's heap: the vertices in it
  depths,         \* one map per root that was searched
  trees,          \* with equicost: pred and noDetailsPredecessors
  paths,
  answer

vars == <<request, phase, graph, roots, root, distances, predecessors, color, queue,
          depths, trees, paths, answer>>

N == VerticesOf(graph)

InGraph(r) == r \in N

Row(node, edge, cost, agg_cost, pred) ==
  [node |-> node, edge |-> edge, cost |-> cost, agg_cost |-> agg_cost, pred |-> pred]

RootRow(r) == Row(r, NoEdge, 0, 0, r)

Path(start, rows) == [start |-> start, rows |-> rows]

\* get_edge_id gives back the cost of the edge it found.
EdgeCost(u, v, weight) ==
  LET between == {a.cost : a \in {b \in graph : b.from = u /\ b.to = v}}
  IN  IF weight \in between THEN weight ELSE Min(between \cup (IF between = {} THEN {0} ELSE {}))

----------------------------------------------------------------------------
(***************************************************************************)
(* What is made of one search.                                             *)
(***************************************************************************)
\* A slip: only the last point before a node is skipped.
RemoveOneDetail(pred) == [v \in N |-> IF pred[v] \in Point THEN pred[pred[v]] ELSE pred[v]]

\* remove_details: the predecessor of a node is the last vertex before it, or the root.
remove_details(pred) ==
  LET Before(u) == IF u \in Point THEN pred[u] ELSE u
  IN  [v \in N |-> FoldLeft(LAMBDA u, n : Before(u), pred[v], [n \in 1..Cardinality(Point) |-> n])]

\* get_depth: the tree is gone down level by level.
get_depth(r, dist, pred, distance) ==
  LET Children(L) == {p \in N : pred[p] # p /\ dist[p] <= distance /\ pred[p] \in L}
      levels[d \in 0..Cardinality(N) - 1] ==
        IF d = 0 THEN <<{r}>>
        ELSE LET above == levels[d - 1] IN Append(above, Children(Last(above)))
      level == levels[Cardinality(N) - 1]
  IN  [p \in UNION Range(level) |-> (CHOOSE d \in DOMAIN level : p \in level[d]) - 1]

Kept(pred) == IF request.details THEN pred ELSE remove_details(pred)

\* Path(graph, root, distance, predecessors, distances); when details are not
\* wanted the costs of the vertices are those from the vertex before, but the
\* rows keep their edge and their predecessor.
OwnList(dist, pred) ==
  LET cost(v) == EdgeCost(pred[v], v, dist[v] - dist[pred[v]])
      kept == remove_details(pred)
      from(v) == dist[v] - dist[kept[v]]
  IN  {Row(v, EdgeId(graph, pred[v], v, dist[v] - dist[pred[v]]),
           IF request.details \/ v \in Point THEN cost(v) ELSE from(v), dist[v], pred[v]) :
         v \in {w \in N : dist[w] <= request.distance}}

\* The roots are the ends of every tree.
Cleared(pred) == [v \in N |-> IF v \in request.roots THEN v ELSE pred[v]]

\* A slip: the roots are gone through from the first to the last.
FirstOwner(v, n) ==
  LET reached == {i \in 1..n : /\ i \in DOMAIN trees
                               /\ Cleared(trees[i].pred)[v] # v}
  IN  IF reached = {} THEN 0 ELSE Min(reached)

\* The roots are gone through from the last to the first, until one has no tree
\* or one reached the vertex.
Owner(v, n) ==
  LET reached == {i \in 1..n : /\ i..n \subseteq DOMAIN trees
                               /\ Cleared(trees[i].pred)[v] # v}
  IN  IF reached = {} THEN 0 ELSE Max(reached)

\* get_drivingDistance_with_equicost_paths.
SharedLists(starts) ==
  LET n == Len(starts)
      pred(i, v) == Cleared(trees[i].pred)[v]
      kept(i, v) == IF request.details THEN pred(i, v) ELSE trees[i].kept[v]
      step(i, v) == distances[v] - distances[pred(i, v)]
      row(i, v) == Row(v, EdgeId(graph, pred(i, v), v, step(i, v)),
                       IF request.details THEN EdgeCost(pred(i, v), v, step(i, v))
                                          ELSE distances[v] - distances[kept(i, v)],
                       distances[v], kept(i, v))
      within == {v \in N : distances[v] <= request.distance}
  IN  [i \in 1..n |-> Path(starts[i], {RootRow(starts[i])}
                                      \cup {row(i, v) : v \in {w \in within : Owner(w, n) = i}})]

----------------------------------------------------------------------------
(***************************************************************************)
(* The call: the graph is built.                                           *)
(***************************************************************************)
InOrder(S) == SetToSortSeq(S, LAMBDA a, b : a < b)

\* edges_of_points, and the roads without points.
edges_of_points == EdgesIn({e \in request.rows : \E p \in request.points : p.edge_id = e.id})
edges_no_points == EdgesIn({e \in request.rows : \A p \in request.points : p.edge_id # e.id})

driving_side == IF request.directed THEN request.side ELSE "b"

Init ==
  /\ request \in Requests
  /\ phase = "call"
  /\ graph = {} /\ roots = <<>> /\ root = CHOOSE v \in Vertex : TRUE
  /\ distances = <<>> /\ predecessors = <<>> /\ color = <<>> /\ queue = {}
  /\ depths = <<>> /\ trees = <<>> /\ paths = <<>> /\ answer = {}

searching == <<root, distances, predecessors, color, queue>>
results   == <<depths, trees, paths>>

NoEdgesFound ==
  /\ phase = "call" /\ request.rows = {}
  /\ phase' = "done"
  /\ UNCHANGED <<request, graph, roots, searching, results, answer>>

\* The constructor of Pg_points_graph fails.
Refuse ==
  /\ phase = "call" /\ request.rows # {}
  /\ HasError(request.points) \/ ~ Asserted(request.points, edges_of_points, driving_side)
  /\ phase' = "refused"
  /\ UNCHANGED <<request, graph, roots, searching, results, answer>>

\* insert_edges(edges); insert_edges(pg_graph.new_edges()).
Build ==
  /\ phase = "call" /\ request.rows # {}
  /\ ~ HasError(request.points) /\ Asserted(request.points, edges_of_points, driving_side)
  /\ graph' = ArcsOf(edges_no_points
                     \o create_new_edges(request.points, edges_of_points, driving_side),
                     request.directed)
  /\ distances' = [v \in N' |-> INF]
  /\ roots' = InOrder(request.roots)
  /\ phase' = "roots"
  /\ UNCHANGED <<request, root, predecessors, color, queue, results, answer>>

----------------------------------------------------------------------------
(***************************************************************************)
(* The roots.                                                              *)
(***************************************************************************)
\* A root the graph does not have: nothing with equicost, else a list of its own.
SkipRoot ==
  /\ phase = "roots" /\ roots # <<>> /\ ~ InGraph(Head(roots))
  /\ roots' = Tail(roots)
  /\ IF request.equicost THEN UNCHANGED <<paths, depths>>
     ELSE /\ paths' = Append(paths, Path(Head(roots), {RootRow(Head(roots))}))
          /\ depths' = Append(depths, [v \in {Head(roots)} |-> 0])
  /\ UNCHANGED <<request, phase, graph, searching, trees, answer>>

\* A slip: every root goes on with the distances of the one before.
SharedDistances == distances

\* The distances a search begins with.
DistancesBefore == IF request.equicost THEN distances ELSE [v \in N |-> INF]

StartSearch ==
  /\ phase = "roots" /\ roots # <<>> /\ InGraph(Head(roots))
  /\ root' = Head(roots) /\ roots' = Tail(roots)
  /\ distances' = [DistancesBefore EXCEPT ![root'] = 0]
  /\ predecessors' = [v \in N |-> v]
  /\ color' = [v \in N |-> IF v = root' THEN "gray" ELSE "white"]
  /\ queue' = {root'}
  /\ phase' = "search"
  /\ UNCHANGED <<request, graph, results, answer>>

\* With equicost: reached by an earlier root, and as cheaply.
Orphan(v, pred) == request.equicost /\ v # root /\ pred[v] = v

Closer(s, a) == s.dist[a.from] + a.cost < s.dist[a.to]

Relax(s, a) ==
  IF Closer(s, a)
  THEN [s EXCEPT !.dist[a.to] = s.dist[a.from] + a.cost, !.pred[a.to] = a.from]
  ELSE s

\* tree_edge, then discover_vertex, which may blacken; the vertex is queued all the same.
Discover(s, a) ==
  LET t == Relax(s, a)
  IN  [t EXCEPT !.color[a.to] = IF Orphan(a.to, t.pred) THEN "black" ELSE "gray",
                !.queue = @ \cup {a.to}]

\* One out edge: examine_edge, which may blacken, then what the color says.
ExamineEdge(s, a) ==
  IF Orphan(a.from, s.pred) THEN [s EXCEPT !.color[a.to] = "black"]
  ELSE IF s.color[a.to] = "white" THEN Discover(s, a)
  ELSE IF s.color[a.to] = "gray" THEN Relax(s, a)
  ELSE s

Nearest == {v \in queue : \A w \in queue : distances[v] <= distances[w]}

\* One turn of boost's loop: the nearest vertex in the heap, whichever it is.
ExamineVertex(u) ==
  /\ phase = "search" /\ u \in Nearest /\ distances[u] <= request.distance
  /\ \E s \in {FoldLeft(ExamineEdge,
                        [dist |-> distances, pred |-> predecessors, color |-> color,
                         queue |-> queue \ {u}],
                        SetToSortSeq(OutArcs(graph, u), LAMBDA a, b : a.pos < b.pos))} :
       /\ distances' = s.dist /\ predecessors' = s.pred /\ queue' = s.queue
       /\ color' = [s.color EXCEPT ![u] = "black"]
  /\ UNCHANGED <<request, phase, graph, roots, root, results, answer>>

\* The heap is empty, or examine_vertex throws: all the rest is farther.
EndSearch ==
  /\ phase = "search" /\ \A v \in Nearest : distances[v] > request.distance
  /\ depths' = Append(depths, get_depth(root, distances, Kept(predecessors), request.distance))
  /\ IF request.equicost
     THEN /\ trees' = Append(trees, [pred |-> predecessors, kept |-> Kept(predecessors)])
          /\ UNCHANGED paths
     ELSE /\ paths' = Append(paths, Path(root, OwnList(distances, predecessors)))
          /\ UNCHANGED trees
  /\ queue' = {} /\ phase' = "roots"
  /\ UNCHANGED <<request, graph, roots, root, distances, predecessors, color, answer>>

Collect ==
  /\ phase = "roots" /\ roots = <<>>
  /\ paths' = IF request.equicost THEN SharedLists(InOrder(request.roots)) ELSE paths
  /\ phase' = "answer"
  /\ UNCHANGED <<request, graph, roots, searching, depths, trees, answer>>

----------------------------------------------------------------------------
(***************************************************************************)
(* The answer: points are forgotten, and every row gets its depth.         *)
(***************************************************************************)
\* The depths of the last root that is the start of the row; at() throws for a
\* node that has none there.
Missing == -2

DepthOf(start, node) ==
  LET own == {i \in DOMAIN depths : start \in DOMAIN depths[i] /\ depths[i][start] = 0}
  IN  IF own = {} THEN -1
      ELSE IF node \in DOMAIN depths[Max(own)] THEN depths[Max(own)][node]
      ELSE Missing

Listed(path) == IF request.details THEN path.rows
                ELSE eliminate_details_dd(path.rows, path.start, edges_of_points)

Tuple(start, row) ==
  [start |-> start, pred |-> row.pred, node |-> row.node, edge |-> row.edge,
   cost |-> row.cost, agg_cost |-> row.agg_cost, depth |-> DepthOf(start, row.node)]

Tuples == UNION {{Tuple(paths[i].start, row) : row \in Listed(paths[i])} : i \in DOMAIN paths}

Answer ==
  /\ phase = "answer"
  /\ \E tuples \in {Tuples} :
       IF \E t \in tuples : t.depth = Missing
       THEN phase' = "thrown" /\ UNCHANGED answer
       ELSE phase' = "done" /\ answer' = tuples
  /\ UNCHANGED <<request, graph, roots, searching, results>>

Done == phase \in {"done", "refused", "thrown"} /\ UNCHANGED vars

Next == \/ NoEdgesFound \/ Refuse \/ Build
        \/ SkipRoot \/ StartSearch \/ (\E u \in queue : ExamineVertex(u)) \/ EndSearch
        \/ Collect \/ Answer \/ Done

Spec == Init /\ [][Next]_vars

----------------------------------------------------------------------------
(***************************************************************************)
(* What must hold.                                                         *)
(***************************************************************************)
Returned == phase \in {"done", "thrown"} /\ request.rows # {}

RowsOf(r) == {row \in answer : row.start = r}

\* The distances from r: the cheapest walks of ever more arcs.
DistancesFrom(arcs, r) ==
  LET upto[n \in 0..Cardinality(Vertex) - 1] ==
        IF n = 0 THEN [v \in Vertex |-> IF v = r THEN 0 ELSE INF]
        ELSE LET D == upto[n - 1]
             IN  [v \in Vertex |-> Min({D[v]} \cup {D[a.from] + a.cost : a \in {b \in arcs : b.to = v}})]
  IN  upto[Cardinality(Vertex) - 1]

\* A root has the graph to itself.
Alone(r) == ~ request.equicost \/ request.roots = {r}

\* The list of a root holds the vertices within the distance, each once, with its
\* distance from the root, whatever the roots before it were and though the search
\* is cut short by an exception; of the points only those that are asked for
\* may be missing (drivingDistance_no_equicost, drivingDist.hpp:432-481).
IsComplete(r) ==
  LET listed == {<<row.node, row.agg_cost>> : row \in RowsOf(r)}
      D == DistancesFrom(graph, r)
      expected == {<<v, D[v]>> : v \in {w \in N : D[w] <= request.distance}}
  IN  /\ Cardinality(RowsOf(r)) = Cardinality(listed)
      /\ listed \subseteq expected
      /\ \A e \in expected \ listed : ~ request.details /\ e[1] \in Point

\* With details it is a tree: but for the root, the predecessor of a row is
\* in the same list, one level nearer to the root and nearer by the cost of the
\* row, and the edge of the row leads from it to the node for that cost.  The
\* levels are worked out per root and looked up among those of all roots
\* (get_depth, drivingDist.hpp:219-276; driving_distance_driver.cpp:113-124).
IsTree(r) ==
  \A row \in {x \in RowsOf(r) : x.node # r} :
    /\ \E up \in RowsOf(r) :
         /\ up.node = row.pred /\ up.depth = row.depth - 1
         /\ up.agg_cost + row.cost = row.agg_cost
    /\ \E a \in graph : /\ a.from = row.pred /\ a.to = row.node
                       /\ a.id = row.edge /\ a.cost = row.cost

\* The lists of roots that have the graph to themselves are complete, and trees
\* (drivingDist.hpp:219-276, 432-481).
ListsAreExact ==
  Returned =>
    \A r \in {x \in request.roots : InGraph(x) /\ Alone(x)} :
      IsComplete(r) /\ (request.details => IsTree(r))

\* With equicost no node is in two lists, and none is listed nearer to a root than
\* it is: the rows of a list come from distances that all roots share and from
\* predecessors that are kept per root (drivingDist.hpp:291-421).
EquicostIsSound ==
  (Returned /\ request.equicost) =>
    /\ \A one, two \in answer : one.node = two.node => one = two
    /\ \A r \in {x \in request.roots : InGraph(x)} :
         LET D == DistancesFrom(graph, r)
         IN  \A row \in RowsOf(r) : row.agg_cost >= D[row.node]

\* The ways along a road that has points: the cheapest way there and back.
Along(edge) ==
  LET only == EdgesIn({edge})
  IN  ArcsOf(create_new_edges(request.points, only, driving_side), request.directed)

Cost(edge, there) ==
  LET costs == {c \in {edge.cost, edge.reverse_cost} : c >= 0}
  IN  IF ~ request.directed THEN Min(costs)
      ELSE IF there THEN edge.cost ELSE edge.reverse_cost

\* The point stands on the way there (back).
Met(edge, p, there) ==
  \/ OneWay(edge) \/ "b" \in {driving_side, p.side}
  \/ there = (driving_side = p.side)
  \/ p.fraction \in {0, Whole}

\* Breaking a road changes no distance between its ends, and the parts between
\* its points are as long as the fractions say, however many points there are
\* and in whatever order they were given: each is reached from the end of the
\* road its side allows (create_new_edges, withPoints.cpp:334-550).
RoadsStayWhole ==
  phase = "roots" =>
    \A i \in DOMAIN edges_of_points :
      LET e == edges_of_points[i]
          way(there) == Cost(e, there) >= 0
          pts == {p \in request.points : p.edge_id = e.id}
          There == DistancesFrom(Along(e), e.source)
          Back == DistancesFrom(Along(e), e.target)
      IN  /\ way(TRUE) => There[e.target] = Cost(e, TRUE)
          /\ way(FALSE) => Back[e.source] = Cost(e, FALSE)
          /\ \A p \in pts :
               /\ (way(TRUE) /\ Met(e, p, TRUE)) =>
                    There[p.node] = Stretch(0, p.fraction, Cost(e, TRUE))
               /\ (way(FALSE) /\ Met(e, p, FALSE)) =>
                    Back[p.node] = Stretch(p.fraction, Whole, Cost(e, FALSE))

\* Without details, points that no one starts from make no difference to the
\* vertices: every vertex in the list of a root follows, one level deeper, a
\* vertex of that list by a road of the user, at the cost of that road
\* (remove_details, drivingDist.hpp:163-208, on trees of the broken graph;
\* pgtap/withPoints/withPointsDD/edge_cases/compareDD.pg asks for it).
PointsMakeNoDifference ==
  (Returned /\ ~ request.details) =>
    \A row \in {x \in answer : /\ Alone(x.start) /\ x.start \notin Point
                             /\ x.node \notin Point \cup {x.start}} :
      \E up \in RowsOf(row.start), a \in ArcsOf(EdgesIn(request.rows), request.directed) :
        /\ up.node \notin Point /\ up.depth = row.depth - 1
        /\ up.agg_cost + row.cost = row.agg_cost
        /\ a.from = up.node /\ a.to = row.node /\ a.id = row.edge /\ a.cost = row.cost

----------------------------------------------------------------------------
(***************************************************************************)
(* What the documentation says, and the code does not do.                  *)
(***************************************************************************)
\* "When true the node will only appear in the closest start_vid list"
\* (doc/driving_distance/pgr_drivingDistance.rst:143).
NodesGoToTheClosest ==
  (Returned /\ request.equicost) =>
    \A r \in {x \in request.roots : InGraph(x)} :
      LET D == DistancesFrom(graph, r)
      IN  \A v \in {w \in N : D[w] <= request.distance} :
            \E row \in answer : row.node = v /\ row.agg_cost <= D[v]

\* The edge is "-1 when node = start_vid" (doc/src/pgRouting-concepts.rst:1774).
RootHasNoEdge ==
  Returned => \A row \in answer : row.node = row.start => row.edge = NoEdge /\ row.cost = 0

\* "depth-1 is the depth of pred" (doc/src/pgRouting-concepts.rst:1757).
PredecessorIsListed ==
  Returned => \A row \in answer : row.node # row.start =>
                \E up \in RowsOf(row.start) : up.node = row.pred /\ up.depth = row.depth - 1
=============================================================================
