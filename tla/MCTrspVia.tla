------------------------------ MODULE MCTrspVia ------------------------------
(***************************************************************************)
(* Instances of TrspVia: small networks with dead ends, one-way roads,     *)
(* parallel roads and a loop, every route of up to three vertices and many *)
(* of four, routes to the vertex 4, which has no road, with no rules and   *)
(* with rules on single roads, on turns and on ways of three roads.        *)
(***************************************************************************)
EXTENDS TrspVia

Row(id, s, t, c, r) == [id |-> id, source |-> s, target |-> t, cost |-> c, reverse_cost |-> r]

Network(rows, directed) == [rows |-> rows, directed |-> directed]

Rule(p, c) == [path |-> p, cost |-> c]

Vertex4 == 0..3
Vertex5 == 0..4

\* A triangle 0, 1, 2 with a spur to 3.
Triangles ==
  {Network(<<Row(1, 0, 1, 1, 1), Row(2, 1, 2, 1, r), Row(3, 0, 2, 3, 3), Row(4, 2, 3, 1, s),
             Row(5, 1, 1, 1, -1), Row(6, 1, 0, 2, -1)>>, directed) :
     r \in {-1, 2}, s \in {-1, 1}, directed \in BOOLEAN}

Routings(n) == UNION {[1..m -> Vertex4] : m \in 1..n}

Call(via, strict, U_turn_on_edge, rules) ==
  [via |-> via, strict |-> strict, U_turn_on_edge |-> U_turn_on_edge, rules |-> rules]

Free ==
  {Call(v, b, u, {}) :
     v \in {w \in Routings(4) : Len(w) < 4 \/ w[1] = 0} \cup {<<0, 4, 1>>, <<0, 1, 4>>},
     b \in BOOLEAN, u \in BOOLEAN}

Rules == {{Rule(<<1, 2>>, 9)}, {Rule(<<1>>, 1), Rule(<<1, 2>>, 4)}, {Rule(<<4>>, 1), Rule(<<3, 2>>, 9)},
          {Rule(<<1, 2, 4>>, 9)}}

Restricted ==
  {Call(v, b, u, rules) :
     v \in {w \in Routings(4) : Len(w) = 3 \/ (Len(w) = 4 /\ w[1] = 0 /\ w[2] # 0)},
     b \in {FALSE}, u \in BOOLEAN, rules \in Rules}
  \cup {Call(<<0, 2, 0, 2>>, TRUE, TRUE, rules) : rules \in Rules}

Calls == Free \cup Restricted

OffRoad == {Call(<<0, 4, 1>>, FALSE, TRUE, {})}

\* The same leg twice, which follows a rule.
Twice == {Call(<<0, 2, 0, 2>>, TRUE, TRUE, {Rule(<<1, 2>>, 9)})}
=============================================================================
