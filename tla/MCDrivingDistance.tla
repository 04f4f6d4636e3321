------------------------- MODULE MCDrivingDistance -------------------------
(***************************************************************************)
(* Instances of DrivingDistance: calls on small networks, with and without *)
(* points on their roads.                                                  *)
(***************************************************************************)
EXTENDS DrivingDistance

Road(id, s, t, c, r) == [id |-> id, source |-> s, target |-> t, cost |-> c, reverse_cost |-> r]

At(node, edge, fraction, side) ==
  [node |-> node, edge_id |-> edge, fraction |-> fraction, side |-> side]

Vertex7 == 0..6
Points  == {4, 5, 6}

Call(rows, points, side, directed, from, distance, equicost, details) ==
  [rows |-> rows, points |-> points, side |-> side, directed |-> directed, roots |-> from,
   distance |-> distance, equicost |-> equicost, details |-> details]

\* A ring of two-way roads with a one-way road across and a dearer parallel one.
Ring == {Road(1, 0, 1, 4, 4), Road(2, 1, 2, 8, 4), Road(3, 2, 3, 4, 4), Road(4, 3, 0, 8, 8),
         Road(5, 1, 3, 4, -1), Road(6, 0, 1, 8, -1)}

\* Roads that cost nothing, and a loop that costs something.
Free == {Road(1, 0, 1, 0, 0), Road(2, 1, 2, 4, 0), Road(3, 2, 3, 4, -1)}

\* Without points.
Plain == {Call(rows, {}, "b", directed, from, distance, equicost, TRUE) :
            rows \in SUBSET Ring \cup {Free}, directed \in BOOLEAN,
            from \in {{0}, {0, 2}, {1, 3}, {0, 1, 2}, {2, 6}},
            distance \in {4, 12}, equicost \in BOOLEAN}

\* Points inside a road and where it begins, on the sides of two-way roads.
Sided == {{At(4, 1, 2, "r"), At(5, 1, 3, "l"), At(6, 2, 1, "r")},
          {At(4, 1, 3, "r"), At(5, 1, 1, "r")},
          {At(4, 2, 0, "r"), At(5, 2, 2, "r"), At(6, 2, 3, "l")},
          {At(4, 5, 1, "b"), At(5, 5, 1, "b"), At(6, 5, 2, "r")},
          {At(4, 2, 2, "b"), At(5, 2, 1, "b"), At(6, 4, 2, "b")}}

Pointed == {Call(rows, points, side, directed, from, distance, equicost, details) :
              rows \in {Ring, {e \in Ring : e.id \in {1, 2, 5}}, {e \in Ring : e.id \in 1..4}},
              points \in Sided, side \in {"r", "l", "b"}, directed \in BOOLEAN,
              from \in {{0}, {2}, {4}, {0, 3}, {4, 1}},
              distance \in {6, 12}, equicost \in BOOLEAN, details \in BOOLEAN}

\* Two points with one number, a point outside of its road, a point on one side
\* of a two-way road that costs nothing.
Wrong == {Call(Ring, {At(4, 1, 2, "b"), At(4, 2, 2, "b")}, "b", TRUE, {0}, 8, FALSE, FALSE),
          Call(Ring, {At(4, 1, 5, "b")}, "b", TRUE, {0}, 8, FALSE, FALSE),
          Call(Free, {At(4, 1, 2, "r")}, "r", TRUE, {0}, 8, FALSE, FALSE)}

Calls == Plain \cup Pointed \cup Wrong

\* One root has the near way into a place and the other the near way out of it;
\* a root the graph does not have; a loop at a root; a point on the way.
Overtaken == {Call({Road(1, 0, 1, 1, -1), Road(2, 1, 4, 10, -1), Road(3, 2, 1, 5, -1),
                    Road(4, 2, 3, 3, -1), Road(5, 3, 4, 1, -1)},
                   {}, "b", TRUE, {0, 2}, 20, TRUE, TRUE)}
Absent    == {Call(Ring, {}, "b", TRUE, {2, 6}, 8, TRUE, TRUE)}
Looped    == {Call({Road(1, 0, 1, 4, 4), Road(2, 0, 0, 4, -1)}, {}, "b", TRUE, {0}, 8, FALSE, TRUE)}
OnTheWay  == {Call({Road(1, 0, 1, 4, 4)}, {At(4, 1, 2, "b")}, "b", TRUE, {0}, 8, FALSE, FALSE)}

\* A point where a road ends; a point on one side and then one on both.
AtTheEnd == {Call({Road(1, 0, 1, 4, 4)}, {At(4, 1, 4, "b")}, "b", TRUE, {0}, 8, FALSE, TRUE)}
Mixed    == {Call({Road(1, 0, 1, 4, 4)}, {At(4, 1, 1, "r"), At(5, 1, 2, "b")}, "r", TRUE, {0}, 8,
                  FALSE, TRUE)}
=============================================================================
