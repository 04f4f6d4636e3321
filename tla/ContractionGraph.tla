-------------------------- MODULE ContractionGraph --------------------------
(***************************************************************************)
(* Pgr_contractionGraph of include/contraction/contractionGraph.hpp: a     *)
(* graph whose edges and vertices carry the identifiers of the vertices    *)
(* that were contracted into them.  An edge is one record, as in boost;    *)
(* "directed" says whether it can be travelled one way or both.  Nothing   *)
(* here depends on the order of the edge lists: of the cheapest edge only  *)
(* the cost is used.                                                       *)
(* The variables are those that both functions, pgr_contraction and        *)
(* pgr_contractionHierarchies, have: a call of one of them.                *)
(***************************************************************************)
EXTENDS RoadGraph, SequencesExt

VARIABLES
  request,          \* the arguments of the call
  phase,            \* how far the call has come
  created,          \* -min_edge_id: how many shortcuts were ever made
  answer            \* the rows that are returned

is_directed == request.directed

NoRows == [vertices |-> {}, edges |-> {}]

Edge == [id : Int, from : Vertex, to : Vertex, cost : Nat, contracted : SUBSET Vertex]

Plain(id, u, v, c) == [id |-> id, from |-> u, to |-> v, cost |-> c, contracted |-> {}]

\* insert_edges: graph_add_edge for each row of the edges query.
EdgesOf(rows, directed) ==
  {Plain(r.id, r.source, r.target, r.cost) : r \in {x \in rows : x.cost >= 0}}
  \cup
  {Plain(r.id, r.target, r.source, r.reverse_cost) :
     r \in {x \in rows : x.reverse_cost >= 0 /\ (directed \/ x.cost # x.reverse_cost)}}

\* boost::edge(u, v, graph), all of them.
EdgesBetween(E, directed, u, v) ==
  {e \in E : \/ e.from = u /\ e.to = v
             \/ ~ directed /\ e.from = v /\ e.to = u}

Incident(E, v) == {e \in E : e.from = v \/ e.to = v}

\* find_adjacent_vertices: along in and out edges; a loop makes v its own neighbour.
Adjacent(E, v) == {e.to : e \in {d \in E : d.from = v}} \cup {e.from : e \in {d \in E : d.to = v}}

----------------------------------------------------------------------------
HasUVW(E, directed, u, v, w) ==
  EdgesBetween(E, directed, u, v) # {} /\ EdgesBetween(E, directed, v, w) # {}

IsShortcutPossible(E, directed, u, v, w) ==
  /\ u # v /\ v # w /\ u # w
  /\ IF ~ directed THEN HasUVW(E, directed, u, v, w)
     ELSE \/ HasUVW(E, directed, u, v, w) /\ HasUVW(E, directed, w, v, u)
          \/ /\ HasUVW(E, directed, u, v, w)
             /\ EdgesBetween(E, directed, v, u) = {} /\ EdgesBetween(E, directed, w, v) = {}
          \/ /\ HasUVW(E, directed, w, v, u)
             /\ EdgesBetween(E, directed, v, w) = {} /\ EdgesBetween(E, directed, u, v) = {}

IsLinear(E, directed, v) ==
  /\ Cardinality(Adjacent(E, v)) = 2
  /\ IsShortcutPossible(E, directed, Min(Adjacent(E, v)), v, Max(Adjacent(E, v)))

IsDeadEnd(E, directed, v) ==
  \/ Cardinality(Adjacent(E, v)) = 1
  \/ directed /\ {e \in E : e.to = v} # {} /\ {e \in E : e.from = v} = {}

----------------------------------------------------------------------------
\* A slip: the comparison of the costs is turned around.
MinCostDearest(E, directed, u, v) ==
  Max({e.cost : e \in EdgesBetween(E, directed, u, v)})

\* get_min_cost_edge(u, v): its cost, and the contracted vertices of ALL the
\* edges between the two, which the edge it returns is given.
MinCost(E, directed, u, v) == Min({e.cost : e \in EdgesBetween(E, directed, u, v)})

\* A slip: the edge that is returned keeps its own contracted vertices only.
AlongCheapest(E, directed, u, v) ==
  LET B == EdgesBetween(E, directed, u, v)
  IN  IF B = {} THEN {}
      ELSE (CHOOSE e \in B : \A d \in B : e.cost <= d.cost).contracted

Along(E, directed, u, v) == UNION {e.contracted : e \in EdgesBetween(E, directed, u, v)}

\* A slip: the first edge is looked up twice.
ShortcutOfFirst(E, directed, held, id, u, v, w) ==
  [id |-> id, from |-> u, to |-> w,
   cost |-> 2 * MinCost(E, directed, u, v),
   contracted |-> {v} \cup held[v] \cup Along(E, directed, u, v)]

\* process_shortcut(u, v, w).
Shortcut(E, directed, held, id, u, v, w) ==
  [id |-> id, from |-> u, to |-> w,
   cost |-> MinCost(E, directed, u, v) + MinCost(E, directed, v, w),
   contracted |-> {v} \cup held[v] \cup Along(E, directed, u, v) \cup Along(E, directed, v, w)]

\* The shortcuts that replace the linear vertex v between u and w, the last
\* identifier given out being -made.
ShortcutsAround(E, directed, held, made, u, v, w) ==
  LET there == IF HasUVW(E, directed, u, v, w)
               THEN {Shortcut(E, directed, held, -(made + 1), u, v, w)} ELSE {}
      next  == made + Cardinality(there) + 1
      back  == IF directed /\ HasUVW(E, directed, w, v, u)
               THEN {Shortcut(E, directed, held, -next, w, v, u)} ELSE {}
  IN  there \cup back

----------------------------------------------------------------------------
\* The graph as the searches see it: an undirected edge is two arcs.
ArcsIn(E, directed) ==
  LET Go(e, u, v) == [id |-> e.id, from |-> u, to |-> v, cost |-> e.cost, pos |-> 0]
  IN  {Go(e, e.from, e.to) : e \in E}
      \cup (IF directed THEN {} ELSE {Go(e, e.to, e.from) : e \in E})
=============================================================================
