------------------------------- MODULE MCTrsp -------------------------------
(***************************************************************************)
(* Instances of Trsp: small networks with one-way roads, a zero cost, a    *)
(* loop and parallel roads, and rules on their cheaper routes.             *)
(***************************************************************************)
EXTENDS Trsp

Row(id, s, t, c, r) == [id |-> id, source |-> s, target |-> t, cost |-> c, reverse_cost |-> r]

Rule(path, cost) == [path |-> path, cost |-> cost]

Request(rows, directed, rules, pairs) ==
  [rows |-> rows, directed |-> directed, rules |-> rules, pairs |-> pairs]

Vertex4 == 0..3

\* A square 0, 1, 3, 2 with a diagonal from 1 to 2.
Square(c, r) == <<Row(1, 0, 1, 1, 1), Row(2, 1, 3, 1, r), Row(3, 0, 2, 2, 2), Row(4, 2, 3, c, 1),
                  Row(5, 1, 2, 1, -1)>>

\* A spur and a loop: 3 can be left only the way it was entered.
Spur == <<Row(1, 0, 1, 1, 1), Row(2, 1, 2, -1, 1), Row(3, 1, 3, 2, -1), Row(4, 2, 3, 1, 1),
          Row(5, 0, 0, 1, -1), Row(6, 0, 1, 3, -1)>>

Rules ==
  {{Rule(<<1, 2>>, c)} : c \in {1, 9}}
  \cup {{Rule(<<1, 2>>, 9), Rule(<<3, 4>>, 2)}, {Rule(<<1, 5>>, 1), Rule(<<1, 5, 4>>, 9)},
        {Rule(<<2>>, 9), Rule(<<1, 2>>, 1)}, {Rule(<<5, 4>>, 0), Rule(<<3, 1, 2>>, 4)},
        {Rule(<<1, 3>>, 9)}, {Rule(<<1, 2, 4>>, 5), Rule(<<2, 4>>, 1)}, {Rule(<<4, 2>>, 3)},
        {Rule(<<3, 1>>, 0), Rule(<<4, 3, 1>>, 4)}, {}}

Pairs == {{<<s, t>>} : s \in Vertex4, t \in Vertex4}
         \cup {{<<0, 3>>, <<0, 2>>}, {<<0, 3>>, <<3, 0>>}, {<<0, 3>>, <<1, 3>>, <<2, 0>>}}

Some ==
  {Request(rows, directed, rules, pairs) :
     rows \in {Square(1, -1), Square(0, 1), Spur}, directed \in BOOLEAN, rules \in Rules, pairs \in Pairs}

\* One path breaks two rules, and the vertex 0 is not there; it cannot be left;
\* a road is lost to the handler.
Corners ==
  {Request(<<Row(1, 1, 2, 1, 1), Row(2, 2, 3, 1, -1)>> \o end, TRUE,
           {Rule(<<1>>, 9), Rule(<<1, 2>>, 1)}, {<<1, 3>>}) : end \in {<<>>, <<Row(3, 1, 0, 1, -1)>>}}
  \cup {Request(<<Row(1, 0, 1, -1, 0), Row(2, 1, 2, 1, 1)>>, FALSE, {Rule(<<1, 2>>, 9)}, {<<0, 2>>})}

All == Some \cup Corners

\* The search from 0 to 2 leaves the edge 4, which ends at 3, in the queue.
Twice == {Request(<<Row(1, 0, 1, 1, 1), Row(2, 1, 2, 1, -1), Row(3, 0, 2, 4, 4), Row(4, 1, 3, 5, -1)>>,
                  TRUE, {Rule(<<1, 2>>, 9), Rule(<<3, 1>>, 9)}, {<<0, 2>>, <<2, 3>>})}

\* The rule 1, 5, 4 and a route that starts with 5, 4.
Within == {Request(<<Row(1, 0, 1, 1, 1), Row(5, 1, 2, 1, -1), Row(4, 2, 3, 1, -1)>>, TRUE,
                   {Rule(<<1, 5, 4>>, 9), Rule(<<5, 4>>, 1)}, {<<1, 3>>})}

ZeroReverse == {Request(<<Row(1, 0, 1, -1, 0), Row(2, 1, 2, 1, 1)>>, FALSE, {Rule(<<1, 2>>, 9)}, {<<0, 2>>})}

TwoRules == {Request(Square(1, 1), TRUE, {Rule(<<1, 2>>, 9), Rule(<<1>>, 1)}, {<<0, 3>>})}
=============================================================================
