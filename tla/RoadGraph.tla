----------------------------- MODULE RoadGraph -----------------------------
(***************************************************************************)
(* The graph the searches of pgRouting run on: Pgr_base_graph of           *)
(* include/cpp_common/base_graph.hpp, a boost adjacency_list with vecS     *)
(* out-edge lists.  A vertex is its descriptor, 0 .. n-1, and here also    *)
(* its identifier.  An edge of the adjacency_list is a set of ARCS, the    *)
(* directions in which out_edges offers it: one in a directed graph, two   *)
(* in an undirected graph.  "pos" is the position at which the edge was    *)
(* inserted, so that the order of the edge lists (which of two parallel    *)
(* edges is met first) is kept.                                            *)
(***************************************************************************)
EXTENDS Integers, Sequences, FiniteSets, FiniteSetsExt

CONSTANTS Vertex,   \* the vertex descriptors, a set of natural numbers
          INF       \* std::numeric_limits<double>::max()

ASSUME VertexAssumption == Vertex \subseteq Nat /\ IsFiniteSet(Vertex) /\ Vertex # {}
ASSUME InfAssumption    == INF \in Nat \ {0}

Arc == [id : Int, from : Vertex, to : Vertex, cost : Nat, pos : Nat]

NoEdge == -1

----------------------------------------------------------------------------
(***************************************************************************)
(* Building the graph: graph_add_edge for each row of the edges query, in  *)
(* the order of the rows.  A negative cost means "no such edge"; in an     *)
(* undirected graph a reverse_cost equal to the cost adds nothing.         *)
(***************************************************************************)
Both(id, u, v, c, p) ==
  {[id |-> id, from |-> u, to |-> v, cost |-> c, pos |-> p],
   [id |-> id, from |-> v, to |-> u, cost |-> c, pos |-> p]}

Directed(id, u, v, c, p) == {[id |-> id, from |-> u, to |-> v, cost |-> c, pos |-> p]}

ArcsOfRow(row, i, directed) ==
  LET Add(u, v, c, p) == IF directed THEN Directed(row.id, u, v, c, p)
                                     ELSE Both(row.id, u, v, c, p)
  IN  (IF row.cost >= 0 THEN Add(row.source, row.target, row.cost, 2 * i) ELSE {})
      \cup
      (IF /\ row.reverse_cost >= 0
          /\ directed \/ row.cost # row.reverse_cost
       THEN Add(row.target, row.source, row.reverse_cost, 2 * i + 1) ELSE {})

ArcsOf(rows, directed) == UNION {ArcsOfRow(rows[i], i, directed) : i \in DOMAIN rows}

\* has_vertex: only the end points of an edge become vertices of the graph.
VerticesOf(arcs) == {a.from : a \in arcs} \cup {a.to : a \in arcs}

----------------------------------------------------------------------------
(***************************************************************************)
(* Reading the graph.                                                      *)
(***************************************************************************)
OutArcs(arcs, u) == {a \in arcs : a.from = u}

\* The graph as in_edges offers it: every arc turned around.
Reversed(arcs) == {[a EXCEPT !.from = a.to, !.to = a.from] : a \in arcs}

First(A) == CHOOSE a \in A : \A b \in A : a.pos <= b.pos

\* get_edge_id: the first edge from u to v with exactly this weight, otherwise
\* the first among the cheapest ones, otherwise no edge.
EdgeId(arcs, u, v, weight) ==
  LET between  == {a \in arcs : a.from = u /\ a.to = v /\ a.cost < INF}
      exact    == {a \in arcs : a.from = u /\ a.to = v /\ a.cost = weight}
      cheapest == {a \in between : \A b \in between : a.cost <= b.cost}
  IN  IF exact # {} THEN First(exact).id
      ELSE IF between # {} THEN First(cheapest).id
      ELSE NoEdge

----------------------------------------------------------------------------
(***************************************************************************)
(* What distances are, independently of any algorithm of the library.      *)
(* A potential gives every vertex a value that no arc increases by more    *)
(* than its cost and that is 0 at the root; the distance from the root is  *)
(* the greatest potential (linear programming duality).                    *)
(***************************************************************************)
Potential(arcs, root, D) ==
  /\ D \in [Vertex -> 0..INF]
  /\ D[root] = 0
  /\ \A a \in arcs : D[a.to] <= D[a.from] + a.cost

\* d is the distance from root to v, INF when there is no path.
IsDistance(arcs, root, v, d) ==
  LET Grounded(E) == [w \in Vertex |-> IF w = root THEN 0 ELSE E[w]]
  IN  /\ \E E \in [Vertex \ {root} -> 0..INF] :
           Grounded(E)[v] = d /\ Potential(arcs, root, Grounded(E))
      /\ \A E \in [Vertex \ {root} -> 0..INF] :
           Potential(arcs, root, Grounded(E)) => Grounded(E)[v] <= d

\* The same distance, computed: the cheapest walk of at most n - 1 arcs.
WalkCosts(arcs, root) ==
  LET upto[n \in 0..Cardinality(Vertex) - 1] ==
        IF n = 0 THEN {<<root, 0>>}
        ELSE LET W == upto[n - 1]
             IN  W \cup {<<p[2].to, p[1][2] + p[2].cost>> :
                           p \in {q \in W \X arcs : q[1][1] = q[2].from}}
  IN  upto[Cardinality(Vertex) - 1]

Distance(arcs, root, v) ==
  Min({INF} \cup {w[2] : w \in {x \in WalkCosts(arcs, root) : x[1] = v}})
=============================================================================
