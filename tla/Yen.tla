--------------------------------- MODULE Yen ---------------------------------
(***************************************************************************)
(* Pgr_ksp of include/yen/ksp.hpp: Yen's algorithm.  From every vertex of  *)
(* the last result a detour is searched in the graph without the vertices  *)
(* before it and without the edges the known results take next; the graph  *)
(* is put together again after each detour.  The cheapest detour not yet   *)
(* used is the next result.  What happens when a path is found is left to  *)
(* the visitor: Ksp and TurnRestrictedPath extend this module.             *)
(***************************************************************************)
EXTENDS BaseGraph

CONSTANTS Networks,     \* [rows, directed]: the edges queries
          Queries       \* [k, heap_paths]: the arguments besides the vertices

VARIABLES
  network,              \* the rows the graph was built from, and its kind
  graph,                \* G &graph: its edges and the removed ones
  phase,                \* "idle" | "called" | "loop" | "spur" | "cut" | "over" | "returned"
  query,                \* m_start, m_end, m_K and m_heap_paths
  i,                    \* the loop variable of doNextCycle, from 1
  curr_result_path,
  m_ResultSet, m_Heap,  \* sets of Paths, at most one of those compPathsLess equates
  answer                \* the deque of Paths that is returned

vars == <<network, graph, phase, query, i, curr_result_path, m_ResultSet, m_Heap, answer>>

is_directed == network.directed
arcs        == ArcsFrom(graph.edges, is_directed)
original    == insert_edges(network.rows, is_directed).edges
roads       == ArcsFrom(original, is_directed)

----------------------------------------------------------------------------
(***************************************************************************)
(* compPathsLess: cost, then number of rows, then vertices.                *)
(***************************************************************************)
NodesLess(p, q) ==
  \E n \in DOMAIN p : /\ p[n].node < q[n].node
                      /\ \A m \in 1..n - 1 : p[m].node = q[m].node

\* A slip: the number of rows is compared first.
CompPathsLengthFirst(p, q) ==
  \/ Len(p) < Len(q)
  \/ Len(p) = Len(q) /\ tot_cost(p) < tot_cost(q)
  \/ tot_cost(p) = tot_cost(q) /\ Len(p) = Len(q) /\ NodesLess(p, q)

compPathsLess(p, q) ==
  \/ tot_cost(p) < tot_cost(q)
  \/ tot_cost(p) = tot_cost(q) /\ Len(p) < Len(q)
  \/ tot_cost(p) = tot_cost(q) /\ Len(p) = Len(q) /\ NodesLess(p, q)

Alike(p, q) == ~ compPathsLess(p, q) /\ ~ compPathsLess(q, p)

\* std::set::insert: nothing happens when the set has an equal path.
Insert(S, p) == IF \E q \in S : Alike(p, q) THEN S ELSE S \cup {p}

Sorted(S) == SetToSortSeq(S, compPathsLess)

Cheapest(S) == CHOOSE p \in S : \A q \in S \ {p} : compPathsLess(p, q)

----------------------------------------------------------------------------
Init ==
  /\ network \in Networks
  /\ graph = insert_edges(network.rows, network.directed)
  /\ phase = "idle"
  /\ query = [source |-> Min(Vertex), target |-> Min(Vertex), k |-> 0, heap_paths |-> FALSE]
  /\ i = 1 /\ curr_result_path = <<>>
  /\ m_ResultSet = {} /\ m_Heap = {}
  /\ answer = <<>>

\* The driver asks for one pair of the combinations after the other.
Call(s, t, q) ==
  /\ phase = "idle"
  /\ phase' = "called"
  /\ query' = [source |-> s, target |-> t, k |-> q.k, heap_paths |-> q.heap_paths]
  /\ i' = 1 /\ curr_result_path' = <<>>
  /\ m_ResultSet' = {} /\ m_Heap' = {}
  /\ answer' = <<>>
  /\ UNCHANGED <<network, graph>>

HasBothVertices == {query.source, query.target} \subseteq VerticesOfRows(network.rows)

\* getFirstSolution
GetFirstSolution(path) ==
  /\ path \in DijkstraPaths(arcs, query.source, query.target)
  /\ curr_result_path' = path
  /\ m_ResultSet' = IF path = <<>> THEN {} ELSE {path}
  /\ UNCHANGED <<network, graph, query, i, m_Heap, answer>>

StartCycle ==
  /\ phase = "loop" /\ Cardinality(m_ResultSet) < query.k
  /\ phase' = "spur" /\ i' = 1
  /\ UNCHANGED <<network, graph, query, curr_result_path, m_ResultSet, m_Heap, answer>>

rootPath == SubSeq(curr_result_path, 1, i - 1)
spurNodeId == curr_result_path[i].node

\* isEqual, and the spur node follows.
SameRoot(path) == i <= Len(path) /\ \A n \in 1..i : path[n].node = curr_result_path[n].node

\* The vertices that the results with the same root go to next.
NextOfRoot ==
  LET paths == Sorted({p \in m_ResultSet : SameRoot(p) /\ i < Len(p)})
  IN  [n \in DOMAIN paths |-> paths[n][i + 1].node]

\* removeVertices
RemoveVertices(g, path) ==
  FoldLeft(LAMBDA h, row : disconnect_vertex(h, is_directed, row.node), g, path)

\* doNextCycle, up to the search for the detour.
Cut ==
  /\ phase = "spur" /\ i <= Len(curr_result_path)
  /\ phase' = "cut"
  /\ \E g \in {FoldLeft(LAMBDA h, v : disconnect_edge(h, is_directed, spurNodeId, v),
                        graph, NextOfRoot)} :
       graph' = RemoveVertices(g, rootPath)
  /\ UNCHANGED <<network, query, i, curr_result_path, m_ResultSet, m_Heap, answer>>

\* The detour, and the graph as it was: the rest of the iteration.
Detours == DijkstraPaths(arcs, spurNodeId, query.target)

Spur(spurPath) ==
  /\ phase = "cut"
  /\ m_Heap' = IF spurPath = <<>> THEN m_Heap ELSE Insert(m_Heap, rootPath \o spurPath)
  /\ graph' = restore_graph(graph)
  /\ i' = i + 1
  /\ UNCHANGED <<network, query, curr_result_path, m_ResultSet, answer>>

\* The end of a cycle: the best of the heap is a result, or the heap is empty.
TakeBest ==
  /\ phase = "spur" /\ i > Len(curr_result_path) /\ m_Heap # {}
  /\ phase' = "loop"
  /\ \E best \in {Cheapest(m_Heap)} :
       /\ curr_result_path' = best
       /\ m_ResultSet' = Insert(m_ResultSet, best)
       /\ m_Heap' = m_Heap \ {best}
  /\ UNCHANGED <<network, graph, query, i, answer>>

\* The loop of executeYen is left.
Leave ==
  /\ \/ phase = "loop" /\ Cardinality(m_ResultSet) >= query.k
     \/ phase = "spur" /\ i > Len(curr_result_path) /\ m_Heap = {}
  /\ phase' = "over"
  /\ UNCHANGED <<network, graph, query, i, curr_result_path, m_ResultSet, m_Heap, answer>>

\* get_results
get_results(heap_paths) ==
  IF m_ResultSet = {} THEN <<>>
  ELSE SortSeq(Sorted(m_ResultSet) \o (IF heap_paths THEN Sorted(m_Heap) ELSE <<>>), compPathsLess)

----------------------------------------------------------------------------
(***************************************************************************)
(* Properties of both.                                                     *)
(***************************************************************************)
Simple ==
  /\ \A n \in DOMAIN original : ~ IsLoop(original[n])
  /\ \A a \in roads, b \in roads : a.from = b.from /\ a.to = b.to => a = b

\* In a graph without loops and parallel edges the edges that were cut out for a
\* detour are all there again before anything else is searched, and no other: the
\* edges of the graph are those of the query, and none are removed
\* (base_graph.hpp:614-629, 678-714).
EdgesComeBack ==
  Simple /\ phase \in {"idle", "called", "loop", "spur"} =>
    graph.removed = <<>> /\ BagOf(graph.edges, is_directed) = BagOf(original, is_directed)

----------------------------------------------------------------------------
(***************************************************************************)
(* What the documentation says, and the code does not do.                  *)
(***************************************************************************)
\* "All removed edges are stored for future reinsertion"
\* (base_graph.hpp:607), parallel edges included.
NoEdgeLost ==
  phase # "cut" =>
    \A n \in DOMAIN original : Facing(original[n], is_directed) \in DOMAIN BagOf(graph.edges, is_directed)

\* restore_graph "Reconnects all edges that were removed" (base_graph.hpp:696):
\* those, and not more than those.
NoEdgeDoubled == phase # "cut" => Len(graph.edges) <= Len(original)
=============================================================================
