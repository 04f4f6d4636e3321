---------------------------- MODULE SqlFunctions ----------------------------
(***************************************************************************)
(* The functions that SQL sees (src/src/*/*.c).  Each one is a process,    *)
(* which calls a driver between pgr_SPI_connect and pgr_SPI_finish, and a  *)
(* set returning function, which runs the process on its first call and    *)
(* then returns one row per call.                                          *)
(***************************************************************************)
EXTENDS Drivers

\* driver: its steps.  raises: arguments are refused before pgr_SPI_connect, late:
\* after it.  leaves: where the process returns without a word.  frees: what is
\* done with the tuples after an error: "all" they are freed, the pointer and the
\* count reset; "count" the pointer is kept; "only" the count is kept too.
Process(driver) ==
    [driver |-> driver, raises |-> FALSE, late |-> FALSE, leaves |-> "never", frees |-> "all"]
Checked(process) == [process EXCEPT !.raises = TRUE]
CheckedLate(process) == [process EXCEPT !.late = TRUE]
Leaving(process, where) == [process EXCEPT !.leaves = where]
Freeing(process, what) == [process EXCEPT !.frees = what]

\* forms: the optional queries each signature gives.  numbers: how the rows get
\* their numbers.
Srf(process, forms, numbers) == [process |-> process, forms |-> forms, numbers |-> numbers]
Arrays1 == {{}}
Combinations1 == {{"combinations"}}
Either == Arrays1 \union Combinations1

-----------------------------------------------------------------------------
(* Routes between pairs of vertices.                                       *)

pgr_process_shortestPath(withPoints) == Process(do_shortestPath(withPoints))
_pgr_dijkstra_v4 == Srf(pgr_process_shortestPath(FALSE), Either, "path_seq")
_pgr_dijkstra == Srf(pgr_process_shortestPath(FALSE), Either, "path_seq")
_pgr_withpoints_v4 == Srf(pgr_process_shortestPath(TRUE), Either, "path_seq")
_pgr_withpoints == Srf(pgr_process_shortestPath(TRUE), Either, "path_seq")

astar_process == Checked(Process(pgr_do_astar))
_pgr_astar == Srf(astar_process, Either, "path_seq")
bdAstar_process == Checked(Process(pgr_do_bdAstar))
_pgr_bdastar == Srf(bdAstar_process, Either, "path_seq")
bdDijkstra_process == Process(pgr_do_bdDijkstra)
_pgr_bddijkstra == Srf(bdDijkstra_process, Either, "path_seq")
bellman_ford_process == Process(pgr_do_bellman_ford)
_pgr_bellmanford == Srf(bellman_ford_process, Either, "path_seq")
bellman_ford_neg_process == Process(pgr_do_bellman_ford_neg)
_pgr_bellmanfordneg == Srf(bellman_ford_neg_process, Either, "path_seq")
edwardMoore_process == Process(pgr_do_edwardMoore)
_pgr_edwardmoore == Srf(edwardMoore_process, Either, "path_seq")
binaryBreadthFirstSearch_process == Process(pgr_do_binaryBreadthFirstSearch)
_pgr_binarybreadthfirstsearch == Srf(binaryBreadthFirstSearch_process, Either, "path_seq")
dagShortestPath_process == Freeing(Process(pgr_do_dagShortestPath), "only")
_pgr_dagshortestpath_v4 == Srf(dagShortestPath_process, Either, "path_seq")

ksp_process == Leaving(Process(pgr_do_ksp), "connected")
_pgr_ksp_v4 == Srf(ksp_process, Either, "path_id")
_pgr_ksp == Srf(ksp_process, Either, "path_id")
withPoints_ksp_process == Checked(Process(pgr_do_withPointsKsp))
_pgr_withpointsksp_v4 == Srf(withPoints_ksp_process, Either, "path_id")
_pgr_withpointsksp == Srf(withPoints_ksp_process, Either, "path_id")
turnRestrictedPath_process == Checked(Process(pgr_do_turnRestrictedPath))
_pgr_turnrestrictedpath_v4 == Srf(turnRestrictedPath_process, Arrays1, "path_id")

trsp_process == Process(pgr_do_trsp)
_pgr_trspv4 == Srf(trsp_process, Either, "path_seq")
trsp_withPoints_process == Checked(Process(pgr_do_trsp_withPoints))
_pgr_trsp_withpoints_v4 == Srf(trsp_withPoints_process, Either, "path_seq")
_pgr_trsp_withpoints == Srf(trsp_withPoints_process, Either, "path_seq")

(* Routes through a sequence of vertices: the driver stores the numbers.   *)

dijkstraVia_process == Process(pgr_do_dijkstraVia)
_pgr_dijkstravia == Srf(dijkstraVia_process, Arrays1, "stored")
withPointsVia_process == Checked(Process(pgr_do_withPointsVia))
_pgr_withpointsvia_v4 == Srf(withPointsVia_process, Arrays1, "stored")
_pgr_withpointsvia == Srf(withPointsVia_process, Arrays1, "stored")
trspVia_process == Process(pgr_do_trspVia)
_pgr_trspvia == Srf(trspVia_process, Arrays1, "stored")
trspVia_withPoints_process == Checked(Process(pgr_do_trspVia_withPoints))
_pgr_trspvia_withpoints_v4 == Srf(trspVia_withPoints_process, Arrays1, "stored")
_pgr_trspvia_withpoints == Srf(trspVia_withPoints_process, Arrays1, "stored")

(* Flows and matchings.                                                    *)

edge_disjoint_paths_process == Process(pgr_do_edge_disjoint_paths)
_pgr_edgedisjointpaths == Srf(edge_disjoint_paths_process, Either, "disjoint")
max_flow_process == Checked(Process(pgr_do_max_flow))
_pgr_maxflow == Srf(max_flow_process, Either, "counter")
minCostMaxFlow_process == Process(pgr_do_minCostMaxFlow)
_pgr_maxflowmincost == Srf(minCostMaxFlow_process, Either, "counter")
maximum_cardinality_matching_process == Process(pgr_do_maximum_cardinality_matching)
_pgr_maxcardinalitymatch_v4 == Srf(maximum_cardinality_matching_process, Arrays1, "counter")
_pgr_maxcardinalitymatch == Srf(maximum_cardinality_matching_process, Arrays1, "counter")

(* Trees and catchments from roots.                                        *)

kruskal_process == Freeing(CheckedLate(Process(pgr_do_kruskal)), "only")
_pgr_kruskalv4 == Srf(kruskal_process, Arrays1, "counter")
_pgr_kruskal == Srf(kruskal_process, Arrays1, "counter")
prim_process == Freeing(CheckedLate(Process(pgr_do_prim)), "only")
_pgr_primv4 == Srf(prim_process, Arrays1, "counter")
_pgr_prim == Srf(prim_process, Arrays1, "counter")
depthFirstSearch_process == Checked(Process(pgr_do_depthFirstSearch))
_pgr_depthfirstsearch == Srf(depthFirstSearch_process, Arrays1, "counter")
breadthFirstSearch_process == Checked(Process(pgr_do_breadthFirstSearch))
_pgr_breadthfirstsearch == Srf(breadthFirstSearch_process, Arrays1, "counter")
driving_distance_process == Process(pgr_do_drivingDistance)
_pgr_drivingdistancev4 == Srf(driving_distance_process, Arrays1, "counter")
_pgr_drivingdistance == Srf(driving_distance_process, Arrays1, "counter")
driving_distance_withPoints_process == Checked(Process(pgr_do_withPointsDD))
_pgr_withpointsddv4 == Srf(driving_distance_withPoints_process, Arrays1, "counter")
_pgr_withpointsdd == Srf(driving_distance_withPoints_process, Arrays1, "counter")

(* One graph, one answer.                                                  *)

OfGraph(driver) == Srf(Process(driver), Arrays1, "counter")
\* The process frees the tuples, keeps the pointer and resets the count ...
OfComponents(driver) == Srf(Freeing(Process(driver), "count"), Arrays1, "counter")
\* ... or keeps both.
OfLines(driver) == Srf(Freeing(Process(driver), "only"), Arrays1, "counter")
\* Every row owns an array, which is freed once the row is made.
OfSets(process) == Srf(process, Arrays1, "nested")
\* No set: the process ends with the only value.
OfValue(driver) == Srf(Process(driver), Arrays1, "value")

_pgr_floydwarshall == OfGraph(do_allpairs)
_pgr_johnson == OfGraph(do_allpairs)
_pgr_betweennesscentrality == OfGraph(pgr_do_betweennessCentrality)
_pgr_bandwidth == OfValue(do_metrics)
_pgr_isplanar == OfValue(pgr_do_isPlanar)
_pgr_chinesepostman == OfGraph(pgr_do_directedChPP)
_pgr_hawickcircuits == OfGraph(pgr_do_hawickCircuits)
_pgr_bipartite == OfGraph(pgr_do_bipartite)
_pgr_edgecoloring == OfGraph(pgr_do_edgeColoring)
_pgr_sequentialvertexcoloring == OfGraph(pgr_do_sequentialVertexColoring)
_pgr_articulationpoints == OfComponents(pgr_do_articulationPoints)
_pgr_biconnectedcomponents == OfComponents(pgr_do_biconnectedComponents)
_pgr_bridges == OfComponents(pgr_do_bridges)
_pgr_connectedcomponents == OfComponents(pgr_do_connectedComponents)
_pgr_strongcomponents == OfComponents(pgr_do_strongComponents)
_pgr_makeconnected == OfComponents(pgr_do_makeConnected)
_pgr_lengauertarjandominatortree == OfGraph(pgr_do_LTDTree)
_pgr_linegraph == OfLines(pgr_do_lineGraph)
_pgr_linegraphfull == OfLines(pgr_do_lineGraphFull)
_pgr_stoerwagner == OfLines(pgr_do_stoerWagner)
_pgr_topologicalsort == OfGraph(pgr_do_topologicalSort)
_pgr_cuthillmckeeordering == OfGraph(pgr_do_cuthillMckeeOrdering)
_pgr_kingordering == OfGraph(do_ordering)
_pgr_sloanordering == OfGraph(do_ordering)
_pgr_transitiveclosure == OfSets(Process(pgr_do_transitiveClosure))
_pgr_contractionhierarchies == OfSets(Process(pgr_contractionHierarchies))
\* Without a cycle to run there is nothing to do.
contractGraph_process == Leaving(Process(pgr_do_contractGraph), "unconnected")
_pgr_contraction == OfSets(contractGraph_process)

(* Tours and vehicles.                                                     *)

_pgr_tsp_v4 == OfGraph(pgr_do_tsp)
_pgr_tsp == OfGraph(pgr_do_tsp)
_pgr_tspeuclidean_v4 == OfGraph(pgr_do_euclideanTSP)
_pgr_tspeuclidean == OfGraph(pgr_do_euclideanTSP)
_pgr_pickdeliver == Srf(Checked(Process(pgr_do_pickDeliver)), Arrays1, "counter")
_pgr_pickdelivereuclidean == Srf(Checked(Process(pgr_do_pickDeliverEuclidean)), Arrays1, "counter")

-----------------------------------------------------------------------------
AllFunctions ==
    [_pgr_dijkstra_v4 |-> _pgr_dijkstra_v4, _pgr_dijkstra |-> _pgr_dijkstra,
     _pgr_withpoints_v4 |-> _pgr_withpoints_v4, _pgr_withpoints |-> _pgr_withpoints,
     _pgr_astar |-> _pgr_astar, _pgr_bdastar |-> _pgr_bdastar, _pgr_bddijkstra |-> _pgr_bddijkstra,
     _pgr_bellmanford |-> _pgr_bellmanford, _pgr_bellmanfordneg |-> _pgr_bellmanfordneg,
     _pgr_edwardmoore |-> _pgr_edwardmoore,
     _pgr_binarybreadthfirstsearch |-> _pgr_binarybreadthfirstsearch,
     _pgr_dagshortestpath_v4 |-> _pgr_dagshortestpath_v4, _pgr_ksp_v4 |-> _pgr_ksp_v4,
     _pgr_ksp |-> _pgr_ksp, _pgr_withpointsksp_v4 |-> _pgr_withpointsksp_v4,
     _pgr_withpointsksp |-> _pgr_withpointsksp,
     _pgr_turnrestrictedpath_v4 |-> _pgr_turnrestrictedpath_v4, _pgr_trspv4 |-> _pgr_trspv4,
     _pgr_trsp_withpoints_v4 |-> _pgr_trsp_withpoints_v4,
     _pgr_trsp_withpoints |-> _pgr_trsp_withpoints, _pgr_dijkstravia |-> _pgr_dijkstravia,
     _pgr_withpointsvia_v4 |-> _pgr_withpointsvia_v4, _pgr_withpointsvia |-> _pgr_withpointsvia,
     _pgr_trspvia |-> _pgr_trspvia, _pgr_trspvia_withpoints_v4 |-> _pgr_trspvia_withpoints_v4,
     _pgr_trspvia_withpoints |-> _pgr_trspvia_withpoints,
     _pgr_edgedisjointpaths |-> _pgr_edgedisjointpaths, _pgr_maxflow |-> _pgr_maxflow,
     _pgr_maxflowmincost |-> _pgr_maxflowmincost,
     _pgr_maxcardinalitymatch_v4 |-> _pgr_maxcardinalitymatch_v4,
     _pgr_maxcardinalitymatch |-> _pgr_maxcardinalitymatch, _pgr_kruskalv4 |-> _pgr_kruskalv4,
     _pgr_kruskal |-> _pgr_kruskal, _pgr_primv4 |-> _pgr_primv4, _pgr_prim |-> _pgr_prim,
     _pgr_depthfirstsearch |-> _pgr_depthfirstsearch,
     _pgr_breadthfirstsearch |-> _pgr_breadthfirstsearch,
     _pgr_drivingdistancev4 |-> _pgr_drivingdistancev4,
     _pgr_drivingdistance |-> _pgr_drivingdistance, _pgr_withpointsddv4 |-> _pgr_withpointsddv4,
     _pgr_withpointsdd |-> _pgr_withpointsdd, _pgr_floydwarshall |-> _pgr_floydwarshall,
     _pgr_johnson |-> _pgr_johnson, _pgr_betweennesscentrality |-> _pgr_betweennesscentrality,
     _pgr_bandwidth |-> _pgr_bandwidth, _pgr_isplanar |-> _pgr_isplanar,
     _pgr_chinesepostman |-> _pgr_chinesepostman, _pgr_hawickcircuits |-> _pgr_hawickcircuits,
     _pgr_bipartite |-> _pgr_bipartite, _pgr_edgecoloring |-> _pgr_edgecoloring,
     _pgr_sequentialvertexcoloring |-> _pgr_sequentialvertexcoloring,
     _pgr_articulationpoints |-> _pgr_articulationpoints,
     _pgr_biconnectedcomponents |-> _pgr_biconnectedcomponents, _pgr_bridges |-> _pgr_bridges,
     _pgr_connectedcomponents |-> _pgr_connectedcomponents,
     _pgr_strongcomponents |-> _pgr_strongcomponents, _pgr_makeconnected |-> _pgr_makeconnected,
     _pgr_lengauertarjandominatortree |-> _pgr_lengauertarjandominatortree,
     _pgr_linegraph |-> _pgr_linegraph, _pgr_linegraphfull |-> _pgr_linegraphfull,
     _pgr_stoerwagner |-> _pgr_stoerwagner, _pgr_topologicalsort |-> _pgr_topologicalsort,
     _pgr_cuthillmckeeordering |-> _pgr_cuthillmckeeordering,
     _pgr_kingordering |-> _pgr_kingordering, _pgr_sloanordering |-> _pgr_sloanordering,
     _pgr_transitiveclosure |-> _pgr_transitiveclosure,
     _pgr_contractionhierarchies |-> _pgr_contractionhierarchies,
     _pgr_contraction |-> _pgr_contraction, _pgr_tsp_v4 |-> _pgr_tsp_v4, _pgr_tsp |-> _pgr_tsp,
     _pgr_tspeuclidean_v4 |-> _pgr_tspeuclidean_v4, _pgr_tspeuclidean |-> _pgr_tspeuclidean,
     _pgr_pickdeliver |-> _pgr_pickdeliver,
     _pgr_pickdelivereuclidean |-> _pgr_pickdelivereuclidean]
=============================================================================
