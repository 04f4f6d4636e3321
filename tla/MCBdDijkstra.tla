---------------------------- MODULE MCBdDijkstra ----------------------------
(***************************************************************************)
(* Instances of BdDijkstra: the road networks of the runs, as the rows of  *)
(* the edges query they are loaded from.                                   *)
(***************************************************************************)
EXTENDS BdDijkstra

Row(id, s, t, c, r) == [id |-> id, source |-> s, target |-> t, cost |-> c, reverse_cost |-> r]

Vertex3 == 0..2
Vertex4 == 0..3
Vertex5 == 0..4
Vertex6 == 0..5

\* A triangle whose edges are one-way or two-way, zero costs included.
Triangles ==
  {ArcsOf(<<Row(1, 0, 1, c, r), Row(2, 1, 2, d, s), Row(3, 0, 2, e, -1)>>, TRUE) :
     c \in {0, 2}, r \in {-1, 1}, d \in {0, 1}, s \in {-1, 2}, e \in {1, 2}}

\* Four vertices: a diamond with a chord, and an edge doubled by a parallel one
\* that is dearer, equal or cheaper and comes later in the edge list.
Diamonds ==
  {ArcsOf(<<Row(1, 0, 1, 2, r), Row(2, 0, 2, c, -1), Row(3, 1, 3, d, 1),
            Row(4, 2, 3, 2, -1), Row(5, 1, 2, 1, e), Row(6, 0, 1, p, -1)>>, TRUE) :
     r \in {-1, 1, 3}, c \in {1, 4}, d \in {1, 3}, e \in {-1, 1}, p \in {1, 2, 3}}

Networks == Triangles \cup Diamonds

\* Three disjoint routes between the ends, of two and three edges.
Detours ==
  {ArcsOf(<<Row(1, 0, 1, a, -1), Row(2, 1, 5, a, -1),
            Row(3, 0, 2, b, -1), Row(4, 2, 5, b, -1),
            Row(5, 0, 3, 2, -1), Row(6, 3, 4, c, -1), Row(7, 4, 5, 2, -1)>>, TRUE) :
     a \in {10}, b \in {11}, c \in {14}}

\* Two-way roads of a graph treated as undirected, dearer one way.
OneDearer ==
  {ArcsOf(<<Row(1, 0, 1, 1, 2), Row(2, 1, 2, c, c)>>, FALSE) : c \in {1, 2}}

FreeRoads ==
  {ArcsOf(<<Row(1, 0, 1, c, -1), Row(2, 1, 2, d, -1)>>, TRUE) : c \in 0..1, d \in 0..1}

\* The hypothesis of FoundWhenConnectedTheorem holds on these networks.
ASSUME NothingOverflows == TotalsFit

\* That of AnswersAreRoutesTheorem holds on all but those that show why it is needed.
ASSUME NamesFit == Graphs # OneDearer => NamesAreOwn
=============================================================================
