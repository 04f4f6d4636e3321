--------------------------- MODULE MCContraction ---------------------------
(***************************************************************************)
(* Instances of Contraction: calls on every choice of roads from a small   *)
(* catalogue, with the lists of methods and forbidden vertices that matter.*)
(***************************************************************************)
EXTENDS Contraction

Row5(id, s, t, c, r) == [id |-> id, source |-> s, target |-> t, cost |-> c, reverse_cost |-> r]

Call(rows, directed, forbidden, methods, cycles) ==
  [rows |-> rows, directed |-> directed, forbidden |-> forbidden,
   methods |-> methods, cycles |-> cycles]

Vertex3 == 0..2
Vertex5 == 0..4

\* A ring of four, a chord, a road beside the ring, a spur and a loop at its end.
Catalogue ==
  {Row5(1, 0, 1, 2, 2), Row5(2, 1, 2, 1, -1), Row5(3, 3, 2, 1, 3), Row5(4, 3, 0, -1, 1),
   Row5(5, 1, 3, 3, 3), Row5(6, 0, 1, 1, -1), Row5(7, 2, 4, 1, 1)}

Loop == Row5(8, 4, 4, 1, -1)

Methods == {<<DEADEND>>, <<LINEAR>>, <<DEADEND, LINEAR>>, <<LINEAR, DEADEND>>}

Calls ==
  {Call(rows, directed, forbidden, methods, 1) :
     rows \in SUBSET Catalogue, directed \in BOOLEAN,
     forbidden \in {{}, {0, 2}}, methods \in Methods}
  \cup {Call({Loop} \cup rows, directed, {}, methods, 1) :
          rows \in {r \in SUBSET Catalogue : Cardinality(r) \in {4, 7}}, directed \in BOOLEAN,
          methods \in Methods}
  \cup {Call(Catalogue, TRUE, {}, <<3>>, 1), Call(Catalogue, TRUE, {}, <<LINEAR>>, 0)}

\* A two-way road, contracted in two cycles.
SecondCycle ==
  {Call({Row5(1, 0, 1, 1, 1), Row5(2, 1, 2, 1, 1)}, directed, {}, methods, 2) :
     directed \in BOOLEAN, methods \in Methods}

\* A one-way road.
OneWay == {Call({Row5(1, 0, 1, 1, -1), Row5(2, 1, 2, 1, -1)}, TRUE, {}, methods, 1) :
             methods \in Methods}
=============================================================================
