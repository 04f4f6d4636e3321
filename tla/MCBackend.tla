----------------------------- MODULE MCBackend -----------------------------
(***************************************************************************)
(* All the functions, and queries that call a few of them.                 *)
(***************************************************************************)
EXTENDS Backend, SqlFunctions

\* Nothing; one vertex; two paths of different lengths in either order; and paths of
\* which one or all were not found, first, between two others or alone.
Some ==
    {<<>>, <<<<-1>>>>, <<<<1, 1, -1>>, <<-1>>>>, <<<<-1>>, <<1, -1>>>>,
     <<<<>>>>, <<<<>>, <<1, -1>>>>, <<<<1, -1>>, <<>>, <<-1>>>>}
\* A road of the user with a negative identifier in the middle of a path.
Negative == {<<<<1, -2, -1>>>>}

\* One that allocates and may fail late, and one that may leave early.  (The k
\* shortest paths, given a negative K, would leave their level to the caller.)
Few == {"_pgr_edgedisjointpaths", "_pgr_contraction"}
Leaky == {"_pgr_ksp"}

\* bellman_ford_neg_driver.cpp:119 adds a size to a truth value.
Wrong == {"_pgr_bellmanfordneg"}
\* These overwrite the notice (kruskal_driver.cpp:123, prim_driver.cpp:125,
\* depthFirstSearch_driver.cpp:164); isPlanar_driver.cpp:72 just answers false.
Silenced ==
    {"_pgr_kruskalv4", "_pgr_kruskal", "_pgr_primv4", "_pgr_prim",
     "_pgr_depthfirstsearch", "_pgr_isplanar"}

\* path_id has value 1 for the first path (via-category.rst:160), though its rows may be
\* those of the second leg: paths count from one and up by one.
PathsCountFromOne ==
    \A d \in DOMAIN calls : LET c == calls[d] IN
      NumbersOf(c) = "stored" =>
        \A i \in DOMAIN c.out : c.out[i].path = 1 + Cardinality(EndsBefore(c, i))

\* With the values of the run the functions are as the theorems want them.
ASSUME FunctionsAreFit ==
    /\ Inner = Few /\ Answers = Some /\ ~OutOfMemory => InnerFinish /\ PathsEndOnce /\ FreesItsOwn
    /\ Misleading = Wrong /\ Quiet = Silenced => DriversAreTruthful
=============================================================================
