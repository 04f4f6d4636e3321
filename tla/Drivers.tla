------------------------------ MODULE Drivers ------------------------------
(***************************************************************************)
(* Every driver of src/src/*/*_driver.cpp as the sequence of its steps.    *)
(***************************************************************************)
EXTENDS DriverSteps, Sequences

(* Routes between pairs of vertices.                                       *)

PairsEdgesAnswer == Pairs \o Edges \o Search \o NoPathsLogged \o Answer

pgr_do_bdAstar == PairsEdgesAnswer
pgr_do_bdDijkstra == PairsEdgesAnswer
pgr_do_bellman_ford == PairsEdgesAnswer
pgr_do_edwardMoore == PairsEdgesAnswer
pgr_do_dagShortestPath == PairsEdgesAnswer
\* With departure and destination the pair is added before the test.
pgr_do_ksp == PairsEdgesAnswer

pgr_do_astar ==
    Pairs \o Get("edges") \o Forget \o NoEdges("edges") \o Search \o NoPathsLogged \o Answer

\* The costs must be of two values; the hint is not reset.
pgr_do_binaryBreadthFirstSearch ==
    Pairs \o Get("edges") \o NoEdges("hint") \o Check \o Search \o NoPathsLogged \o Answer

\* The test of line 119 is edges.size() + neg_edges.empty().
pgr_do_bellman_ford_neg ==
    Pairs \o Get("edges") \o Get("neg_edges")
        \o StopOn({"edges", "neg_edges"}, {{}, {"edges"}, {"edges", "neg_edges"}}, "No edges", "hint")
        \o Forget \o Search \o NoPathsLogged \o Answer

\* points_sql is empty for pgr_dijkstra; the driving side and the points may be refused.
DijkstraSteps ==
    Pairs \o Get("edges") \o Forget \o NoEdges("edges") \o Search \o NoPathsLogged \o Answer
WithPointsSteps ==
    Pairs \o PointsAndEdges \o Forget \o NoEdgesAtAll("none") \o Check
        \o Search \o NoPathsLogged \o Answer
do_shortestPath(withPoints) == IF withPoints THEN WithPointsSteps ELSE DijkstraSteps

pgr_do_withPointsKsp ==
    Pairs \o PointsAndEdges \o NoEdgesAtAll("hint") \o Forget \o Check
        \o Search \o NoPathsLogged \o Answer

(* Routes that keep to restrictions.                                       *)

\* Without an answer tuples stay NULL and the last messages are the driver's own.
pgr_do_turnRestrictedPath ==
    Pairs \o Edges \o Get("restrictions") \o Forget \o Search \o Answer

\* The answer of a plain search stands when there is nothing to keep to; what
\* breaks a restriction is searched again.
pgr_do_trsp ==
    Pairs \o Get("edges") \o Forget \o NoEdges("edges") \o Search \o NoPathsLogged
        \o Get("restrictions") \o FillUnless("restrictions") \o Forget
        \o Search \o Silent \o Answer
pgr_do_trsp_withPoints ==
    Pairs \o PointsAndEdges \o NoEdgesAtAll("hint") \o Get("restrictions") \o Check
        \o Search \o NoPathsLogged \o FillUnless("restrictions") \o Forget
        \o Search \o Silent \o Answer

(* Routes through a sequence of vertices.                                  *)

pgr_do_dijkstraVia ==
    Arrays \o Get("edges") \o NoEdges("edges") \o Forget \o Search \o NoPathsLogged \o Answer
pgr_do_withPointsVia ==
    Arrays \o PointsAndEdges \o NoEdgesAtAll("edges") \o Forget \o Check
        \o Search \o NoPathsLogged \o Answer
pgr_do_trspVia ==
    Arrays \o Get("edges") \o NoEdges("edges") \o Get("restrictions") \o Forget
        \o Search \o NoPathsLogged \o FillUnless("restrictions") \o Search \o Answer
pgr_do_trspVia_withPoints ==
    Arrays \o PointsAndEdges \o NoEdgesAtAll("edges") \o Get("restrictions") \o Check
        \o Search \o NoPathsLogged \o FillUnless("restrictions") \o Forget
        \o Search \o Answer

(* Flows.                                                                  *)

\* A vertex that is source and sink is refused before the edges are read.
pgr_do_max_flow ==
    Pairs \o Check \o Get("edges") \o Forget \o NoEdges("edges") \o Search \o Answer
pgr_do_minCostMaxFlow == Pairs \o Check \o Edges \o Search \o Answer
pgr_do_edge_disjoint_paths ==
    Pairs \o Get("edges") \o Forget \o NoEdges("edges") \o Search \o Silent \o Answer
pgr_do_maximum_cardinality_matching == Edges \o Search \o Answer

(* One query, one answer.                                                  *)

EdgesAnswer == Edges \o Search \o NoPathsLogged \o Answer
EdgesSilent == Edges \o Search \o Silent \o Answer

pgr_do_directedChPP == EdgesAnswer
pgr_do_hawickCircuits == EdgesAnswer
pgr_do_sequentialVertexColoring == EdgesAnswer
pgr_do_edgeColoring == Edges \o Search \o NoPathsLogged \o Fill \o TellIfAny
pgr_do_makeConnected == EdgesAnswer
pgr_do_bipartite == EdgesSilent
pgr_do_lineGraph == EdgesSilent
pgr_do_articulationPoints == EdgesSilent
pgr_do_biconnectedComponents == EdgesSilent
pgr_do_bridges == EdgesSilent
pgr_do_connectedComponents == EdgesSilent
pgr_do_strongComponents == EdgesSilent
pgr_do_stoerWagner == EdgesSilent
pgr_do_topologicalSort == EdgesSilent
pgr_do_transitiveClosure == Edges \o Search \o Answer
\* That nothing was found is a notice.
NothingTold == IfNothing("Nothing found", "none", "none")
pgr_do_LTDTree == Edges \o Search \o NothingTold \o Answer
pgr_do_lineGraphFull == Edges \o Search \o NothingTold \o Answer
\* (It goes on to allocate no rows.)
pgr_do_cuthillMckeeOrdering == Edges \o Search \o NothingTold \o Fill \o TellIfAny
do_ordering == Get("edges") \o NoEdges("none") \o Forget \o Search \o NothingTold \o Answer

pgr_do_breadthFirstSearch == Edges \o Arrays \o Search \o NoPathsLogged \o Answer
pgr_do_contractGraph == Edges \o Arrays \o Arrays \o Check \o Search \o Answer
pgr_contractionHierarchies == Edges \o Arrays \o Search \o Fill \o TellIfAny

(* Trees from roots: without edges they still answer with the roots.       *)

TreesFromRoots ==
    Arrays \o Get("edges") \o Forget \o Note({"edges"}, "No edges", "edges") \o Search
pgr_do_kruskal == TreesFromRoots \o Answer
pgr_do_prim == TreesFromRoots \o Answer
pgr_do_depthFirstSearch == TreesFromRoots \o NoPathsLogged \o Answer

pgr_do_drivingDistance ==
    Arrays \o Edges \o Search \o NothingTold \o Answer
pgr_do_withPointsDD ==
    Arrays \o PointsAndEdges \o NoEdgesAtAll("hint") \o Forget \o Check
        \o Search \o NoPathsLogged \o Answer

(* Drivers that raise what the others tell.                                *)

ThrowWithoutEdges == Get("edges") \o ThrowOn({"edges"}) \o Forget
do_allpairs == ThrowWithoutEdges \o Search \o IfNothing("none", "none", "Nothing found") \o Answer
pgr_do_betweennessCentrality == do_allpairs
do_metrics == ThrowWithoutEdges \o Search \o Answer
\* No edges: false, and not a word.
pgr_do_isPlanar == Get("edges") \o Stop({"edges"}, "none", "none") \o Forget \o Search \o Tell

(* Tours and vehicles.                                                     *)

\* The start and the end vertices may be refused.
pgr_do_tsp ==
    Get("matrix") \o Stop({"matrix"}, "Insufficient data", "hint") \o Forget \o Check \o Check
        \o Search \o Silent \o Answer
pgr_do_euclideanTSP ==
    Get("coordinates") \o Stop({"coordinates"}, "No coordinates", "hint") \o Forget \o Check \o Check
        \o Search \o Silent \o Answer

Orders == Get("orders") \o Stop({"orders"}, "Insufficient data", "hint")
Vehicles == Get("vehicles") \o Stop({"vehicles"}, "Insufficient data", "hint")
Matrix == Get("matrix") \o Stop({"matrix"}, "Insufficient data", "hint")
\* The depots, the infinities of the matrix and the problem itself may be refused.
pgr_do_pickDeliver ==
    Orders \o Vehicles \o Matrix \o Forget \o Check \o Check \o Check \o Search
        \o FillAndFree \o Tell
pgr_do_pickDeliverEuclidean ==
    Orders \o Vehicles \o Forget \o Check \o Search \o FillAndFree \o Tell
=============================================================================
