--------------------------- MODULE MCPickDeliver ---------------------------
(***************************************************************************)
(* Instances of PickDeliver: a road with six sites, up to four orders and  *)
(* a fleet that has to be filled up by the phoney truck in some of them.   *)
(***************************************************************************)
EXTENDS PickDeliver

Abs(n) == IF n < 0 THEN - n ELSE n

Site(id, opens, closes, service) == [id |-> id, opens |-> opens, closes |-> closes, service |-> service]

Free(id) == Site(id, 0, 90, 1)

Order(demand, pick, drop) == [demand |-> demand, pick |-> pick, drop |-> drop]

Truck(id, capacity, pace, count, closes) ==
  [id |-> id, capacity |-> capacity, pace |-> pace, count |-> count,
   start |-> Site(0, 0, closes, 0), end |-> Site(0, 0, closes, 0)]

\* The sites lie on a road; driving up is slower where it is steep.
Road == [a \in 0..5 |-> [b \in 0..5 |-> Abs(a - b)]]
Steep == [a \in 0..5 |-> [b \in 0..5 |-> IF b > a THEN 2 * (b - a) ELSE a - b]]

\* Two equal vehicles, two that differ, one slow one that is not enough.
Fleets == {<<Truck(1, 2, 1, 2, 40)>>, <<Truck(1, 1, 2, 1, 30), Truck(2, 3, 1, 1, 25)>>, <<Truck(1, 1, 1, 1, 20)>>}

OrderSets ==
  {<<Order(1, Free(1), Free(2)), Order(1, Free(3), Free(5)), Order(1, Free(2), Free(4))>>,
   <<Order(1, Site(1, 0, 6, 1), Site(4, 0, 12, 0)), Order(1, Site(4, 5, 20, 1), Free(1)),
     Order(2, Site(5, 0, 9, 2), Site(2, 10, 20, 0))>>,
   <<Order(1, Free(5), Free(1)), Order(2, Free(4), Free(2)), Order(1, Site(1, 0, 3, 0), Free(5))>>,
   <<Order(1, Free(1), Free(5)), Order(1, Free(5), Free(2)), Order(1, Site(2, 3, 15, 0), Free(3)),
     Order(1, Free(4), Site(0, 9, 28, 1))>>,
   <<Order(1, Free(0), Free(3)), Order(1, Free(0), Site(5, 0, 14, 1)), Order(1, Free(0), Site(2, 8, 20, 0))>>}

Call(kind, max, vehicles, orders, matrix) ==
  [kind |-> kind, max_cycles |-> max, vehicles |-> vehicles, orders |-> orders, matrix |-> matrix]

\* The first vehicle can take both orders of the second, which then is free for
\* those of the third: one of each pair must be served early, one of it late.
Relay ==
  {Call("BackTruck", 1, <<Truck(1, 2, 1, 3, 40)>>,
        [i \in 1..6 |-> IF i % 2 = 1 THEN Order(1, Site(1, 0, 3, 0), Site(2, 6, 8, 0))
                                     ELSE Order(1, Site(1, 10, 13, 0), Site(2, 16, 18, 0))], Road)}

\* Two orders that are too large for the first vehicle: the phoney one takes one of
\* them, and then is used up while the first one is still waiting.
TooLarge ==
  {Call(kind, 1, <<Truck(1, 1, 1, 1, 90)>>,
        <<Order(2, Free(1), Free(2)), Order(2, Free(2), Free(4))>>, Road) :
     kind \in {"OnePerTruck", "BestInsert"}}

\* More orders than vehicles, each of which can serve any of them.
Crowd ==
  {Call("OnePerTruck", 1, <<Truck(1, 1, 1, 1, 90)>>,
        <<Order(1, Free(1), Free(2)), Order(1, Free(3), Free(5)), Order(1, Free(2), Free(4))>>, Road)}

Some ==
  {Call(kind, 2, f, o, m) : kind \in Kinds, f \in Fleets, o \in OrderSets, m \in {Road, Steep}}
  \cup Relay \cup Crowd \cup TooLarge

\* From 1 to 3 it is quicker through 2.  The first vehicle is in time at 3
\* because the order 2 leads it there, and the second one gains by taking it over.
Matrix4 == [a \in 0..3 |-> [b \in 0..3 |-> IF a = b THEN 0 ELSE IF {a, b} = {1, 3} THEN 20 ELSE 1]]

Detour ==
  {Call("BackTruck", 0, <<Truck(1, 1, 1, 1, 90), [Truck(2, 3, 1, 1, 90) EXCEPT !.start.service = 5]>>,
        <<Order(1, Site(0, 0, 1, 0), Site(1, 0, 90, 0)), Order(1, Site(2, 0, 90, 0), Site(2, 0, 90, 0)),
          Order(1, Site(3, 0, 4, 0), Site(0, 40, 90, 0)), Order(2, Site(1, 0, 90, 0), Site(3, 0, 90, 0)),
          Order(2, Site(0, 0, 90, 0), Site(0, 0, 90, 0)), Order(2, Site(0, 0, 90, 0), Site(0, 0, 90, 30))>>,
        Matrix4)}

\* The second vehicle leaves from elsewhere but comes back to the depot.
Elsewhere ==
  {Call("OneDepot", 0, <<Truck(1, 1, 1, 1, 90), [Truck(2, 2, 1, 1, 90) EXCEPT !.start.id = 1]>>,
        <<Order(1, Site(0, 0, 1, 0), Site(1, 0, 90, 0))>>, Matrix4)}
=============================================================================
