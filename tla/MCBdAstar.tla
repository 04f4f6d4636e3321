----------------------------- MODULE MCBdAstar -----------------------------
(***************************************************************************)
(* Instances of BdAstar: small road networks with their coordinates.       *)
(***************************************************************************)
EXTENDS BdAstar

Row(id, s, t, c, r) == [id |-> id, source |-> s, target |-> t, cost |-> c, reverse_cost |-> r]

Vertex4 == 0..3
Vertex5 == 0..4
AllHeuristics == 0..5
Manhattan == {5}

\* A unit square whose corner 3 lies opposite corner 0.
Square == <<[x |-> 1, y |-> 0], [x |-> 0, y |-> 1], [x |-> 1, y |-> 1]>>
Position4 == [v \in Vertex4 |-> IF v = 0 THEN [x |-> 0, y |-> 0] ELSE Square[v]]

Squares ==
  {ArcsOf(<<Row(1, 0, 1, c, r), Row(2, 0, 2, 1, 1), Row(3, 1, 3, d, 1),
            Row(4, 2, 3, e, -1), Row(5, 1, 2, 2, s)>>, TRUE) :
     c \in {1, 3}, r \in {-1, 2}, d \in {0, 1}, e \in {1, 2}, s \in {-1, 2}}

\* From 0 over 3 to 5, either straight or the dearer way round by 1 and 4.  No
\* road is shorter than the Manhattan distance of its ends, and bdDijkstra
\* finds the straight way.
Vertex6 == 0..5
Places == <<[x |-> 3, y |-> 2], [x |-> 0, y |-> 1], [x |-> 0, y |-> 2],
            [x |-> 3, y |-> 0], [x |-> 3, y |-> 0]>>
Position6 == [v \in Vertex6 |-> IF v = 0 THEN [x |-> 2, y |-> 1] ELSE Places[v]]

WayRound ==
  {ArcsOf(<<Row(1, 0, 3, 3, -1), Row(2, 3, 5, 6, -1), Row(3, 3, 1, 3, -1),
            Row(4, 1, 4, 2, -1), Row(5, 4, 5, 2, -1)>>, TRUE)}
=============================================================================
