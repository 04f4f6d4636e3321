-------------------------------- MODULE MCYen --------------------------------
(***************************************************************************)
(* Instances of the two functions that use Yen's algorithm: pgr_KSP, called *)
(* again and again for one graph, and pgr_turnRestrictedPath, called once.  *)
(* Every behaviour is one of one of them.                                  *)
(***************************************************************************)
EXTENDS TurnRestrictedPath

VARIABLE function   \* "pgr_KSP" | "pgr_turnRestrictedPath"

K == INSTANCE Ksp

InitKsp == /\ K!Init /\ function = "pgr_KSP"
           /\ m_restrictions = {} /\ m_solutions = {}
           /\ flags = [stop_on_first |-> FALSE, strict |-> FALSE, heap_paths |-> FALSE]

InitTurn == TrInit /\ function = "pgr_turnRestrictedPath"

NextKsp  == function = "pgr_KSP" /\ K!Next /\ UNCHANGED <<options, m_solutions>>
NextTurn == function = "pgr_turnRestrictedPath" /\ Next

MCSpec == (InitKsp \/ InitTurn) /\ [][(NextKsp \/ NextTurn) /\ UNCHANGED function]_<<trVars, function>>
----------------------------------------------------------------------------
\* See Ksp: the calls of pgr_KSP refine the enumeration of the shortest routes
\* (ksp.hpp:137-200); the other function asks for none.
Asks == function = "pgr_KSP" /\ phase # "idle"

Shortest == INSTANCE KShortestRoutes WITH
              status <- IF Asks THEN "asked" ELSE "idle",
              query  <- IF function = "pgr_KSP" THEN query
                        ELSE [source |-> Min(Vertex), target |-> Min(Vertex), k |-> 0],
              found  <- IF function = "pgr_KSP" THEN {NodesOf(p) : p \in m_ResultSet} ELSE {}

FindsKShortest == Shortest!Spec
----------------------------------------------------------------------------
Row(id, s, t, c, r) == [id |-> id, source |-> s, target |-> t, cost |-> c, reverse_cost |-> r]

Network(rows, directed) == [rows |-> rows, directed |-> directed]

Ask(k, heap_paths) == [k |-> k, heap_paths |-> heap_paths]

Vertex3 == 0..2
Vertex4 == 0..3

\* A square with a diagonal: five routes at most between two corners; the
\* diagonal costs nothing, something, or the roads are two-way.
Squares ==
  {Network(<<Row(1, 0, 1, 1, 1), Row(2, 1, 3, 1, 1), Row(3, 0, 2, 2, 2),
             Row(4, 2, 3, 1, -1), Row(5, 1, 2, 0, -1)>>, TRUE),
   Network(<<Row(1, 0, 1, 1, 1), Row(2, 1, 3, 3, 3), Row(3, 0, 2, 2, -1), Row(4, 2, 3, 1, 1),
             Row(5, 1, 2, 1, -1)>>, FALSE)}
  \cup
  {Network(<<Row(1, 0, 1, 1, 1), Row(2, 1, 3, 1, 1), Row(3, 0, 2, 2, d), Row(4, 2, 3, 1, 1),
             Row(5, 1, 2, 1, -1)>>, d = 1) : d \in {1, 2}}

Some == {Ask(0, TRUE), Ask(1, FALSE), Ask(2, FALSE), Ask(3, TRUE)}

\* The way 0, 1, 3; that and a turn at 2; every way out of 0 or of 2.
Turns == {{<<1, 2>>}, {<<1, 2>>, <<5, 4>>}, {<<1>>, <<3>>, <<4>>}, {<<1, 5, 4>>, <<1, 4>>}, {}}

AllFlags == [stop_on_first : BOOLEAN, strict : BOOLEAN, heap_paths : BOOLEAN]

\* Two roads from 0 to 1, the dearer one first, and a way round; a road from 0 to 0.
Doubled == {Network(<<Row(1, 0, 1, 5, -1), Row(2, 0, 1, 1, -1), Row(3, 1, 2, 1, -1)>>, TRUE)}
Looped  == {Network(<<Row(1, 0, 1, 1, -1), Row(2, 1, 2, 1, -1), Row(3, 0, 0, 1, -1)>>, TRUE)}

One  == {Ask(1, FALSE)}
Two  == {Ask(2, FALSE), Ask(2, TRUE)}
Zero == {Ask(0, TRUE)}

NoTurn   == {{}}
KeepOn   == {[stop_on_first |-> FALSE, strict |-> FALSE, heap_paths |-> FALSE]}
StopOn   == {[stop_on_first |-> TRUE, strict |-> FALSE, heap_paths |-> FALSE]}
=============================================================================
