--------------------------- MODULE PointsOnEdges ---------------------------
(***************************************************************************)
(* Points that lie on the roads: Pg_points_graph of                        *)
(* src/withPoints/withPoints.cpp.  A road that has points is taken out of  *)
(* the graph and its parts are put in; a point is a vertex of its own (a   *)
(* negative identifier).  Which parts there are depends on the side of the *)
(* road the point is on and on the side one drives on.  Fractions are      *)
(* counted in parts of Whole; the identifiers of points grow with pid.     *)
(***************************************************************************)
EXTENDS RoadGraph, SequencesExt

CONSTANTS Point,   \* the vertices that stand for points
          Whole    \* the fraction at which a road ends

ASSUME PointAssumption == Point \subseteq Vertex
ASSUME WholeAssumption == Whole \in Nat \ {0}

\* The rows of the edges queries, in their order.
EdgesIn(rows) == SetToSortSeq(rows, LAMBDA a, b : a.id < b.id)

Part(id, s, t, c, r) == [id |-> id, source |-> s, target |-> t, cost |-> c, reverse_cost |-> r]

\* For a search against the ways of the roads, right is left and an end is a beginning.
OtherSide(side) == IF side = "r" THEN "l" ELSE IF side = "l" THEN "r" ELSE side

reverse_sides(points) ==
  {[p EXCEPT !.side = OtherSide(p.side), !.fraction = Whole - p.fraction] : p \in points}

\* check_points, and the check of the fractions in create_new_edges.
HasError(points) ==
  \/ \E p, q \in points : p.node = q.node /\ p # q
  \/ \E p \in points : p.fraction \notin 0..Whole

\* points_on_edge: the set is filled in the order of the pids, so that its
\* comparison, which is no order, sorts by fraction and then by pid.
PointsAlong(points, edge) ==
  SetToSortSeq({p \in points : p.edge_id = edge.id},
               LAMBDA p, q : \/ p.fraction < q.fraction
                             \/ p.fraction = q.fraction /\ p.node < q.node)

Inside(p) == 0 < p.fraction /\ p.fraction < Whole

\* The cost of the piece of a road from one fraction to another.
Stretch(from, to, cost) == ((to - from) * cost) \div Whole

----------------------------------------------------------------------------
(***************************************************************************)
(* create_new_edges walks along a road and remembers, for the way there    *)
(* and (r...) for the way back, the last point that broke it, where that   *)
(* point was, the cost of the last part and of all parts.                  *)
(***************************************************************************)
Start(edge) ==
  [target |-> edge.source, rtarget |-> edge.source, fraction |-> 0, rfraction |-> 0,
   agg |-> 0, ragg |-> 0, last |-> 0, rlast |-> 0, parts |-> <<>>, asserted |-> TRUE]

\* A point at an end of the road is tied to the vertex there.
Tie(edge, p) ==
  (IF p.fraction = 0 THEN <<Part(edge.id, edge.source, p.node, 0, 0)>> ELSE <<>>)
  \o (IF p.fraction = Whole THEN <<Part(edge.id, edge.target, p.node, 0, 0)>> ELSE <<>>)

\* One way, or a side that does not matter: both ways are broken, and the way
\* back is tied to where the way there was broken.
OnBothSides(w, edge, p) ==
  LET there == Inside(p) /\ edge.cost >= 0
      back  == Inside(p) /\ edge.reverse_cost >= 0
      last  == IF there THEN Stretch(w.fraction, p.fraction, edge.cost) ELSE w.last
      rlast == IF back THEN Stretch(w.rfraction, p.fraction, edge.reverse_cost) ELSE w.rlast
  IN  [w EXCEPT !.target = p.node, !.fraction = p.fraction, !.last = last, !.agg = @ + last,
                !.rtarget = p.node, !.rfraction = p.fraction, !.rlast = rlast, !.ragg = @ + rlast,
                !.parts = @ \o (IF there THEN <<Part(edge.id, w.target, p.node, last, -1)>> ELSE <<>>)
                            \o (IF back THEN <<Part(edge.id, w.target, p.node, -1, rlast)>> ELSE <<>>)]

\* The driving side is the side of the point: only the way there is broken.
OnTheWayThere(w, edge, p) ==
  LET last == IF Inside(p) THEN Stretch(w.fraction, p.fraction, edge.cost) ELSE w.last
  IN  [w EXCEPT !.target = p.node, !.fraction = p.fraction, !.last = last, !.agg = @ + last,
                !.parts = @ \o IF Inside(p) THEN <<Part(edge.id, w.target, p.node, last, -1)>> ELSE <<>>]

OnTheWayBack(w, edge, p) ==
  LET rlast == IF Inside(p) THEN Stretch(w.rfraction, p.fraction, edge.reverse_cost) ELSE w.rlast
  IN  [w EXCEPT !.rtarget = p.node, !.rfraction = p.fraction, !.rlast = rlast, !.ragg = @ + rlast,
                !.parts = @ \o IF Inside(p) THEN <<Part(edge.id, w.rtarget, p.node, -1, rlast)>> ELSE <<>>]

OneWay(edge) == edge.cost < 0 \/ edge.reverse_cost < 0

Pass(walk, edge, side, p) ==
  LET w == [walk EXCEPT !.parts = @ \o Tie(edge, p)]
  IN  IF OneWay(edge) \/ "b" \in {side, p.side} THEN OnBothSides(w, edge, p)
      ELSE IF 0 \in {edge.cost, edge.reverse_cost} THEN [w EXCEPT !.asserted = FALSE]
      ELSE IF side = p.side THEN OnTheWayThere(w, edge, p)
      ELSE OnTheWayBack(w, edge, p)

Walked(points, edge, side) ==
  FoldLeft(LAMBDA w, p : Pass(w, edge, side, p), Start(edge), PointsAlong(points, edge))

\* A slip: the parts before the last point are not taken off the rest.
WholeRest(w, edge) ==
  <<Part(edge.id, w.target, edge.target, edge.cost - w.last, -1),
    Part(edge.id, w.rtarget, edge.target, -1, edge.reverse_cost - w.rlast)>>

\* The last segments.
Rest(w, edge) ==
  <<Part(edge.id, w.target, edge.target, edge.cost - w.agg, -1),
    Part(edge.id, w.rtarget, edge.target, -1, edge.reverse_cost - w.ragg)>>

PartsOf(points, edge, side) ==
  LET w == Walked(points, edge, side) IN w.parts \o Rest(w, edge)

\* create_new_edges for the roads of edges_of_points, and whether its assertion held.
create_new_edges(points, edges, side) ==
  FlattenSeq([i \in DOMAIN edges |-> PartsOf(points, edges[i], side)])

Asserted(points, edges, side) ==
  \A i \in DOMAIN edges : Walked(points, edges[i], side).asserted

\* eliminate_details: rows of one edge that follow each other become one row.
eliminate_details(rows) ==
  FoldLeft(LAMBDA merged, row :
             IF merged # <<>> /\ Last(merged).edge = row.edge
             THEN [merged EXCEPT ![Len(merged)].cost = @ + row.cost]
             ELSE Append(merged, row),
           <<>>, rows)

\* eliminate_details_dd: a point is left out when both ends of its road are listed.
eliminate_details_dd(rows, start, edges) ==
  LET listed == {r.node : r \in rows}
      between(r) == \E i \in DOMAIN edges :
                      edges[i].id = r.edge /\ {edges[i].source, edges[i].target} \subseteq listed
  IN  {r \in rows : r.node = start \/ r.node \notin Point \/ ~ between(r)}
=============================================================================
