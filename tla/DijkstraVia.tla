----------------------------- MODULE DijkstraVia -----------------------------
(***************************************************************************)
(* pgr_dijkstraVia (include/dijkstra/dijkstraVia.hpp): a route through a   *)
(* list of vertices, one search for each leg.  When U turns are not wanted *)
(* the edge a leg arrived by is taken out of the graph while the next leg  *)
(* is searched, put back, and the search repeated if it found nothing.     *)
(***************************************************************************)
EXTENDS BaseGraph

CONSTANTS Networks,   \* [rows, directed]: the edges queries
          Requests    \* [via, strict, U_turn_on_edge]: the other arguments

VARIABLES
  network, request,
  graph,              \* G &graph
  phase,              \* "departing" | "searching" | "over" | "returned" | "undefined"
  i,                  \* the leg: it ends at the vertex via[i + 1]
  path, paths,        \* the last path found, and all of them
  answer              \* the rows that are returned

vars == <<network, request, graph, phase, i, path, paths, answer>>

is_directed == network.directed
arcs        == ArcsFrom(graph.edges, is_directed)
original    == insert_edges(network.rows, is_directed).edges
roads       == ArcsFrom(original, is_directed)

prev_vertex == request.via[i]
vertex      == request.via[i + 1]
has_vertex(v) == v \in VerticesOfRows(network.rows)

out_degree(v) == Len(OutEdges(graph.edges, is_directed, v))
----------------------------------------------------------------------------
Init ==
  /\ network \in Networks
  /\ request \in Requests
  /\ graph = insert_edges(network.rows, network.directed)
  /\ phase = "departing"
  /\ i = 1 /\ path = <<>> /\ paths = <<>> /\ answer = <<>>

\* U turns are only avoided after the first leg, and after a leg that was found.
AvoidsUTurn == ~ request.U_turn_on_edge /\ i > 1

\* The last edge is removed, unless the vertex would be a dead end.
Depart ==
  /\ phase = "departing" /\ i < Len(request.via)
  /\ phase' = "searching"
  /\ graph' = IF AvoidsUTurn /\ Len(path) > 1 /\ out_degree(prev_vertex) > 1
              THEN disconnect_out_going_edge(graph, is_directed, prev_vertex,
                                             path[Len(path) - 1].edge)
              ELSE graph
  /\ UNCHANGED <<network, request, i, path, paths, answer>>

\* A slip: a search that found nothing is not repeated on the whole graph.
FoundOnce == DijkstraPaths(arcs, prev_vertex, vertex)

\* The search, and when an edge was out the search on the graph put together again.
Found ==
  LET first == DijkstraPaths(arcs, prev_vertex, vertex)
      whole == ArcsFrom(restore_graph(graph).edges, is_directed)
  IN  IF AvoidsUTurn /\ first = {<<>>} THEN DijkstraPaths(whole, prev_vertex, vertex)
      ELSE first

Travel ==
  /\ phase = "searching" /\ has_vertex(prev_vertex) /\ has_vertex(vertex)
  /\ graph' = IF AvoidsUTurn THEN restore_graph(graph) ELSE graph
  /\ \E P \in {Found} : path' \in P
  /\ IF request.strict /\ path' = <<>>
     THEN phase' = "over" /\ paths' = <<>> /\ i' = i
     ELSE phase' = "departing" /\ paths' = Append(paths, path') /\ i' = i + 1
  /\ UNCHANGED <<network, request, answer>>

\* dijkstra(graph, s, t) takes the front of the paths it found; there are none
\* when the graph lacks one of the two vertices: anything may happen.
Undefined ==
  /\ phase = "searching" /\ ~ (has_vertex(prev_vertex) /\ has_vertex(vertex))
  /\ phase' = "undefined"
  /\ UNCHANGED <<network, request, graph, i, path, paths, answer>>

Arrive ==
  /\ phase = "departing" /\ i >= Len(request.via)
  /\ phase' = "over"
  /\ UNCHANGED <<network, request, graph, i, path, paths, answer>>

\* get_viaRoute: the rows of all the paths, the last edge marked.
RouteRows(P) ==
  FlattenSeq([n \in DOMAIN P |->
                [m \in DOMAIN P[n] |-> [path_id |-> n, node |-> P[n][m].node,
                                        edge |-> P[n][m].edge, cost |-> P[n][m].cost]]])

get_viaRoute(P) ==
  LET rows == RouteRows(P)
  IN  IF rows = <<>> THEN <<>> ELSE [rows EXCEPT ![Len(rows)].edge = -2]

Return ==
  /\ phase = "over"
  /\ phase' = "returned"
  /\ answer' = get_viaRoute(paths)
  /\ UNCHANGED <<network, request, graph, i, path, paths>>

Done == phase \in {"returned", "undefined"} /\ UNCHANGED vars

Next == Depart \/ Travel \/ Undefined \/ Arrive \/ Return \/ Done

Spec == Init /\ [][Next]_vars /\ WF_vars(Next)
----------------------------------------------------------------------------
(***************************************************************************)
(* Properties.                                                             *)
(***************************************************************************)
\* Avoiding U turns costs no leg: a leg is missing only when there is no route
\* between its two vertices, and with U turns it is a shortest one
\* (dijkstraVia.hpp:97-109).
LegsAreFound ==
  \A n \in DOMAIN paths :
    LET s == request.via[n]  t == request.via[n + 1]
    IN  IF paths[n] = <<>> THEN Routes(roads, s, t) = {}
        ELSE /\ NodesOf(paths[n]) \in Routes(roads, s, t)
             /\ request.U_turn_on_edge => tot_cost(paths[n]) = Distance(roads, s, t)

\* A leg turns back on the edge the leg before it arrived by only when the vertex
\* has no other way out, or no other way out leads to the next vertex
\* (dijkstraVia.hpp:72-109).
Without(v, eid) == {a \in roads : ~ (a.from = v /\ a.id = eid)}

NoNeedlessUTurn ==
  ~ request.U_turn_on_edge =>
    \A n \in 2..Len(paths) :
      /\ paths[n] # <<>> /\ paths[n - 1] # <<>>
      /\ paths[n][1].edge = paths[n - 1][Len(paths[n - 1]) - 1].edge
      => LET v == request.via[n]  eid == paths[n][1].edge
         IN  \/ Len(OutEdges(original, is_directed, v)) <= 1
             \/ Routes(Without(v, eid), v, request.via[n + 1]) = {}

\* With strict the route visits all the vertices or there is none
\* (dijkstraVia.hpp:111-114): the rows go without a gap from the first to the last.
Jumps(rows) == {n \in 1..Len(rows) - 1 : rows[n].edge = -1 /\ rows[n + 1].node # rows[n].node}

StrictRoutesAreWhole ==
  phase = "returned" /\ request.strict /\ answer # <<>> =>
    /\ answer[1].node = request.via[1]
    /\ answer[Len(answer)].node = request.via[Len(request.via)]
    /\ Jumps(answer) = {}

----------------------------------------------------------------------------
(***************************************************************************)
(* What the documentation says, and the code does not do.                  *)
(***************************************************************************)
\* strict: "When false ignores missing paths returning all paths found"
\* (doc/categories/via-category.rst:98): the missing paths of a vertex that no road of
\* the graph meets included.
MissingIsIgnored == ~ request.strict => phase # "undefined"
=============================================================================
