------------------------------ MODULE BaseGraph ------------------------------
(***************************************************************************)
(* Pgr_base_graph of include/cpp_common/base_graph.hpp as the searches     *)
(* that change it see it: its edges, in the order in which boost offers    *)
(* them, and removed_edges, the edges taken out for a while.  An edge of   *)
(* an undirected graph is one record that can be travelled both ways.      *)
(* Dijkstra's algorithm itself belongs to boost; here is what the library  *)
(* gets from it.                                                           *)
(***************************************************************************)
EXTENDS RoadGraph, SequencesExt

RoadEdge == [id : Int, from : Vertex, to : Vertex, cost : Nat]

Graph == [edges : Seq(RoadEdge), removed : Seq(RoadEdge)]

\* graph_add_edge for one row of the edges query, in the order of its code.
EdgesOfRow(row, directed) ==
  (IF row.cost >= 0
   THEN <<[id |-> row.id, from |-> row.source, to |-> row.target, cost |-> row.cost]>>
   ELSE <<>>)
  \o
  (IF row.reverse_cost >= 0 /\ (directed \/ row.cost # row.reverse_cost)
   THEN <<[id |-> row.id, from |-> row.target, to |-> row.source, cost |-> row.reverse_cost]>>
   ELSE <<>>)

insert_edges(rows, directed) ==
  [edges   |-> FlattenSeq([i \in DOMAIN rows |-> EdgesOfRow(rows[i], directed)]),
   removed |-> <<>>]

\* has_vertex: the ends of a row that gives an edge, whatever is removed later.
VerticesOfRows(rows) ==
  LET given == {n \in DOMAIN rows : rows[n].cost >= 0 \/ rows[n].reverse_cost >= 0}
  IN  UNION {{rows[n].source, rows[n].target} : n \in given}

----------------------------------------------------------------------------
(***************************************************************************)
(* Taking edges out and putting them back.                                 *)
(***************************************************************************)
Turned(e) == [e EXCEPT !.from = e.to, !.to = e.from]

IsLoop(e) == e.from = e.to

\* The edge as get_edge_info describes it when it was reached from u.
SeenFrom(u, e) == IF e.from = u THEN e ELSE Turned(e)

Joins(e, directed, u, v) ==
  \/ e.from = u /\ e.to = v
  \/ ~ directed /\ e.from = v /\ e.to = u

\* out_edges(u): in an undirected graph a loop is offered twice.
OutEdges(edges, directed, u) ==
  IF directed THEN SelectSeq(edges, LAMBDA e : e.from = u)
  ELSE FlattenSeq([i \in DOMAIN edges |->
                     IF IsLoop(edges[i]) /\ edges[i].from = u THEN <<edges[i], edges[i]>>
                     ELSE IF u \in {edges[i].from, edges[i].to} THEN <<SeenFrom(u, edges[i])>>
                     ELSE <<>>])

InEdges(edges, v) == SelectSeq(edges, LAMBDA e : e.to = v)

\* disconnect_edge: boost removes every edge from u to v, the first one is kept.
disconnect_edge(g, directed, u, v) ==
  LET between == SelectSeq(OutEdges(g.edges, directed, u), LAMBDA e : e.to = v)
  IN  [edges   |-> SelectSeq(g.edges, LAMBDA e : ~ Joins(e, directed, u, v)),
       removed |-> g.removed \o SubSeq(between, 1, Min({1, Len(between)}))]

\* A slip: an edge of an undirected graph that ends at v is not looked at.
DisconnectOutGoingAhead(g, directed, v, eid) ==
  [edges   |-> SelectSeq(g.edges, LAMBDA e : ~ (e.id = eid /\ e.from = v)),
   removed |-> g.removed \o SelectSeq(g.edges, LAMBDA e : e.id = eid /\ e.from = v)]

\* disconnect_out_going_edge: the edges with this identifier that leave v.
disconnect_out_going_edge(g, directed, v, eid) ==
  LET leaves(e) == e.id = eid /\ (e.from = v \/ (~ directed /\ e.to = v))
      found == SelectSeq(g.edges, leaves)
  IN  [edges   |-> SelectSeq(g.edges, LAMBDA e : ~ leaves(e)),
       removed |-> g.removed \o [i \in DOMAIN found |-> SeenFrom(v, found[i])]]

\* A slip: the special case of directed graphs is forgotten.
DisconnectVertexOutOnly(g, directed, v) ==
  [edges   |-> SelectSeq(g.edges, LAMBDA e : v \notin {e.from, e.to}),
   removed |-> g.removed \o OutEdges(g.edges, directed, v)]

disconnect_vertex(g, directed, v) ==
  [edges   |-> SelectSeq(g.edges, LAMBDA e : v \notin {e.from, e.to}),
   removed |-> g.removed \o OutEdges(g.edges, directed, v)
               \o (IF directed THEN InEdges(g.edges, v) ELSE <<>>)]

restore_graph(g) == [edges |-> g.edges \o g.removed, removed |-> <<>>]

\* The edges as a bag of what they are, whatever way round an edge of an
\* undirected graph is written and wherever it stands in the list.
Facing(e, directed) == IF directed \/ e.from <= e.to THEN e ELSE Turned(e)
BagOf(edges, directed) == ToBag([n \in DOMAIN edges |-> Facing(edges[n], directed)])

----------------------------------------------------------------------------
(***************************************************************************)
(* Searching it.                                                           *)
(***************************************************************************)
\* The arcs of RoadGraph; their position is that of the edge.
ArcsFrom(edges, directed) ==
  LET At(i, e) == [id |-> e.id, from |-> e.from, to |-> e.to, cost |-> e.cost, pos |-> i]
  IN  {At(i, edges[i]) : i \in DOMAIN edges}
      \cup (IF directed THEN {} ELSE {At(i, Turned(edges[i])) : i \in DOMAIN edges})

ArcCost(arcs, u, v) == Min({a.cost : a \in {b \in arcs : b.from = u /\ b.to = v}})

WalkCost(arcs, walk) ==
  FoldSet(LAMBDA i, sum : ArcCost(arcs, walk[i], walk[i + 1]) + sum, 0, 1..Len(walk) - 1)

\* The walks from s that visit no vertex twice, as sequences of vertices.
SimpleWalks(arcs, s) ==
  LET upto[n \in 0..Cardinality(Vertex) - 1] ==
        IF n = 0 THEN {<<s>>}
        ELSE LET W == upto[n - 1]
             IN  W \cup {Append(p[1], p[2].to) :
                           p \in {q \in W \X arcs : /\ Last(q[1]) = q[2].from
                                                    /\ q[2].to \notin Range(q[1])}}
  IN  upto[Cardinality(Vertex) - 1]

Routes(arcs, s, t) == {w \in SimpleWalks(arcs, s) : Last(w) = t /\ Len(w) > 1}

\* complete_path: the rows of a walk, the edge of each step looked up by its cost.
PathOf(arcs, walk) ==
  [i \in 1..Len(walk) |->
     IF i = Len(walk) THEN [node |-> walk[i], edge |-> NoEdge, cost |-> 0]
     ELSE [node |-> walk[i],
           edge |-> EdgeId(arcs, walk[i], walk[i + 1], ArcCost(arcs, walk[i], walk[i + 1])),
           cost |-> ArcCost(arcs, walk[i], walk[i + 1])]]

\* algorithms::dijkstra(graph, s, t): a cheapest route, or an empty path when
\* there is none or s is t.  Which of several cheapest routes it is depends on
\* boost's heap: any.
DijkstraPaths(arcs, s, t) ==
  IF Routes(arcs, s, t) = {} THEN {<<>>}
  ELSE LET R == Routes(arcs, s, t)
       IN  {PathOf(arcs, w) : w \in {r \in R : \A q \in R : WalkCost(arcs, r) <= WalkCost(arcs, q)}}

tot_cost(path) == FoldSet(LAMBDA i, sum : path[i].cost + sum, 0, DOMAIN path)

NodesOf(path) == [i \in DOMAIN path |-> path[i].node]
=============================================================================
