---------------------- MODULE MCContractionHierarchies ----------------------
(***************************************************************************)
(* Instances of ContractionHierarchies: calls on choices of roads.         *)
(***************************************************************************)
EXTENDS ContractionHierarchies

Road(id, s, t, c, r) == [id |-> id, source |-> s, target |-> t, cost |-> c, reverse_cost |-> r]

Call(rows, directed, forbidden) == [rows |-> rows, directed |-> directed, forbidden |-> forbidden]

Vertex3 == 0..2
Vertex5 == 0..4

\* The heap gives vertices at equal distance by their numbers, either way.
BothOrders == {[v \in Vertex |-> v], [v \in Vertex |-> - v]}

\* Two-way roads: a star, its rim, and a long way across.
TwoWay ==
  {Road(1, 0, 1, 1, 1), Road(2, 0, 2, 2, 2), Road(3, 0, 3, 1, 1), Road(4, 0, 4, 2, 2),
   Road(5, 1, 2, 1, 1), Road(6, 2, 3, 2, 2), Road(7, 3, 4, 2, 2), Road(8, 1, 4, 3, 3)}

\* One-way roads that never lead back.
OneWay ==
  {Road(1, 1, 2, 1, -1), Road(2, 2, 0, -1, 2), Road(3, 0, 3, 1, -1), Road(4, 2, 3, 3, -1),
   Road(5, 4, 1, 1, -1), Road(6, 4, 0, 2, -1)}

\* Longer than the detour, dearer one way and parallel, one-way, a loop.
Odd ==
  {Road(9, 0, 3, 4, 4), Road(10, 1, 2, 3, 5), Road(11, 3, 4, 1, -1), Road(12, 2, 2, 1, -1)}

Plain5 ==
  {Call(rows, directed, forbidden) :
     rows \in SUBSET TwoWay, directed \in BOOLEAN, forbidden \in {{}, {1, 3}}}
  \cup {Call(rows, TRUE, {}) : rows \in SUBSET OneWay}

Odd5 ==
  {Call(rows \cup odd, directed, {}) :
     rows \in {TwoWay, TwoWay \ {Road(3, 0, 3, 1, 1)}, OneWay}, odd \in SUBSET Odd, directed \in BOOLEAN}

AllCalls == Plain5 \cup Odd5

\* Two-way roads, nothing forbidden.
Free == {Call(rows, FALSE, {}) : rows \in SUBSET TwoWay}

\* A road that is two-way up to its middle; a road that has a longer one beside
\* it; two cheap parallel roads; roads of half a unit; a road with a negative identifier.
HalfWay == {Call({Road(1, 1, 0, 1, 1), Road(2, 0, 2, 1, -1)}, TRUE, {})}
Longer  == {Call({Road(1, 1, 0, 1, 1), Road(2, 0, 2, 1, 1), Road(3, 1, 2, 3, 3)}, FALSE, {})}
Doubled == {Call({Road(1, 1, 0, 2, 2), Road(2, 1, 0, 1, 1), Road(3, 0, 2, 1, 1)}, directed, {}) :
              directed \in BOOLEAN}
Short   == {Call({Road(1, 1, 0, 1, 1), Road(2, 0, 2, 1, 1)}, FALSE, {})}
Minus   == {Call({Road(-1, 1, 0, 1, 1)}, FALSE, {})}
=============================================================================
