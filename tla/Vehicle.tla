------------------------------ MODULE Vehicle ------------------------------
(***************************************************************************)
(* A vehicle of the pick and deliver problem: classes Tw_node,             *)
(* Vehicle_node, Order, Vehicle and Vehicle_pickDeliver of                 *)
(* include/vrp/ and src/pickDeliver/.  A vehicle is a path of stops from   *)
(* its starting to its ending site.  Each stop caches what the path up to  *)
(* it amounts to, and every change of the path evaluates again the stops   *)
(* from the position of the change to the end, and only those.             *)
(* Positions are 1 more than the positions of the code, times are integers *)
(* and "pace" is the time a vehicle needs for one unit of distance.        *)
(***************************************************************************)
EXTENDS Integers, Sequences, FiniteSets, SequencesExt

CONSTANT Infinity    \* std::numeric_limits<double>::infinity()

ASSUME InfinityAssumption == Infinity \in Nat \ {0}

\* The static pointers to the problem: what the caller gave.
VARIABLE problem

Orders == DOMAIN problem.orders

----------------------------------------------------------------------------
(***************************************************************************)
(* Nodes with a time window.                                               *)
(***************************************************************************)
Node(type, order, site, demand) ==
  [type |-> type, order |-> order, site |-> site.id, opens |-> site.opens,
   closes |-> site.closes, service |-> site.service, demand |-> demand]

Pickup(o)   == Node("pickup", o, problem.orders[o].pick, problem.orders[o].demand)
Delivery(o) == Node("delivery", o, problem.orders[o].drop, - problem.orders[o].demand)

IsType(n, type) ==
  /\ n.type = type /\ n.opens < n.closes /\ n.service >= 0
  /\ CASE type = "pickup" -> n.demand > 0 [] type = "delivery" -> n.demand < 0
       [] OTHER -> n.demand = 0

TravelTime(i, j, pace) == pace * problem.matrix[i.site][j.site]

\* is_compatible_IJ: j is not too late when i is left as early as possible.
CompatibleIJ(i, j, pace) ==
  /\ j.type # "start" /\ i.type # "end"
  /\ i.opens + i.service + TravelTime(i, j, pace) <= j.closes

IsValidOrder(o, pace) ==
  /\ IsType(Pickup(o), "pickup") /\ IsType(Delivery(o), "delivery")
  /\ CompatibleIJ(Pickup(o), Delivery(o), pace)

\* isCompatibleIJ of orders: j can be served after i has been picked up.
OrdersCompatible(i, j, pace) ==
  LET Before(m, n) == CompatibleIJ(m, n, pace)
  IN  /\ Before(Pickup(i), Pickup(j)) /\ Before(Pickup(i), Delivery(j))
      /\ \/ Before(Delivery(i), Pickup(j)) /\ Before(Delivery(i), Delivery(j))
         \/ Before(Pickup(j), Delivery(i)) /\ Before(Delivery(i), Delivery(j))
         \/ Before(Pickup(j), Delivery(i)) /\ Before(Delivery(j), Delivery(i))

CompatibleJ(o, S, pace) == {j \in S \ {o} : OrdersCompatible(o, j, pace)}
CompatibleI(o, S, pace) == {i \in S \ {o} : OrdersCompatible(i, o, pace)}

\* find_best_J and find_best_I: the first of those that leave most to insert.
BestOf(S, left) ==
  Min({o \in S : \A p \in S : Cardinality(left[p]) <= Cardinality(left[o])})

FindBestJ(S, pace) == BestOf(S, [o \in S |-> CompatibleJ(o, S, pace)])
FindBestI(S, pace) == BestOf(S, [o \in S |-> CompatibleI(o, S, pace)])

----------------------------------------------------------------------------
(***************************************************************************)
(* Stops, and the evaluation of a path.                                    *)
(***************************************************************************)
Stop(n) == [node |-> n, departure |-> 0, cargo |-> 0, twv |-> 0, cv |-> 0]

HasCv(n, cargo, capacity) ==
  IF n.type \in {"start", "end"} THEN cargo # 0 ELSE cargo > capacity \/ cargo < 0

StartStop(n, v) ==
  [node |-> n, departure |-> n.opens + n.service, cargo |-> n.demand, twv |-> 0,
   cv |-> IF HasCv(n, n.demand, v.capacity) THEN 1 ELSE 0]

StopAfter(pred, n, v) ==
  LET arrival == pred.departure + TravelTime(pred.node, n, v.pace)
      cargo   == pred.cargo + n.demand
  IN  [node |-> n,
       departure |-> (IF arrival < n.opens THEN n.opens ELSE arrival) + n.service,
       cargo |-> cargo,
       twv |-> pred.twv + (IF arrival > n.closes THEN 1 ELSE 0),
       cv |-> pred.cv + (IF HasCv(n, cargo, v.capacity) THEN 1 ELSE 0)]

\* The single element of a set: {e(x) : x \in {d}} has TLC compute d once.
The(S) == CHOOSE x \in S : TRUE

\* evaluate(from): upto[i] is the path up to i; what is before "from" stays.
Evaluated(path, from, v) ==
  LET upto[i \in from - 1..Len(path)] ==
        IF i = from - 1 THEN SubSeq(path, 1, from - 1)
        ELSE The({IF done = <<>> THEN <<StartStop(path[1].node, v)>>
                  ELSE Append(done, StopAfter(Last(done), path[i].node, v)) : done \in {upto[i - 1]}})
  IN  upto[Len(path)]

Evaluate(path, from, v) == The({Evaluated(p, from, v) : p \in {path}})

Duration(path) == Last(path).departure
IsFeasable(path) == Last(path).twv = 0 /\ Last(path).cv = 0

InsertNode(path, at, n, v) == Evaluate(InsertAt(path, at, Stop(n)), at, v)

\* A slip: the stop that takes the place of the erased one keeps what it cached.
EraseAfter(path, at, v) == Evaluate(RemoveAt(path, at), at + 1, v)

EraseAt(path, at, v) == Evaluate(RemoveAt(path, at), at, v)
EraseNode(path, n, v) == EraseAt(path, CHOOSE i \in DOMAIN path : path[i].node = n, v)

\* position_limits: from the first position after which every stop can follow
\* n to the last before which n can follow every stop.
LowLimit(path, n, v) == 1 + Max({i \in DOMAIN path : ~ CompatibleIJ(n, path[i].node, v.pace)})
HighLimit(path, n, v) == Min({i \in DOMAIN path : ~ CompatibleIJ(path[i].node, n, v.pace)})

DropLowLimit(path, n, v) ==
  Max({LowLimit(path, n, v)} \cup {i + 1 : i \in {j \in DOMAIN path : IsType(path[j].node, "pickup")}})

----------------------------------------------------------------------------
(***************************************************************************)
(* A vehicle with its orders.                                              *)
(***************************************************************************)
NewVehicle(id, capacity, pace, start, end) ==
  LET v == [id |-> id, capacity |-> capacity, pace |-> pace, orders |-> {}, feasable |-> {},
            path |-> <<Stop(Node("start", 0, start, 0)), Stop(Node("end", 0, end, 0))>>]
  IN  [v EXCEPT !.path = Evaluate(@, 1, v)]

IsPhony(v) == v.id < 0

Holding(v, path, o) == [v EXCEPT !.path = path, !.orders = @ \cup {o}]

PushBack(v, o) ==
  Holding(v, Evaluate(InsertAt(InsertAt(v.path, Len(v.path), Stop(Pickup(o))),
                               Len(v.path) + 1, Stop(Delivery(o))), Len(v.path), v), o)

PushFront(v, o) ==
  Holding(v, Evaluate(InsertAt(InsertAt(v.path, 2, Stop(Delivery(o))), 2, Stop(Pickup(o))), 2, v), o)

\* insert tries every pair of positions within the limits, those of the delivery
\* being the limits in the path without the pickup, moved by one.
PickupPlaces(v, o) == LowLimit(v.path, Pickup(o), v)..HighLimit(v.path, Pickup(o), v)

DeliveryPlaces(v, o, p) ==
  Max({LowLimit(v.path, Delivery(o), v) + 1, p + 1})..HighLimit(v.path, Delivery(o), v) + 1

\* A slip: any place, feasable or not.
AnyInsertions(v, o) ==
  UNION {{[at |-> <<p, d>>, path |-> InsertNode(picked, d, Delivery(o), v)] :
            d \in DeliveryPlaces(v, o, p), picked \in {InsertNode(v.path, p, Pickup(o), v)}} :
          p \in PickupPlaces(v, o)}

Insertions(v, o) ==
  {r \in UNION {{[at |-> <<p, d>>, path |-> InsertNode(picked, d, Delivery(o), v)] :
                   d \in DeliveryPlaces(v, o, p), picked \in {InsertNode(v.path, p, Pickup(o), v)}} :
                 p \in PickupPlaces(v, o)} :
     IsFeasable(r.path)}

\* The first of the shortest.
FirstShortest(tried) ==
  CHOOSE r \in tried :
    \A q \in tried :
      \/ Duration(r.path) < Duration(q.path)
      \/ /\ Duration(r.path) = Duration(q.path)
         /\ r.at[1] < q.at[1] \/ (r.at[1] = q.at[1] /\ r.at[2] <= q.at[2])

Insert(v, o) ==
  The({IF tried = {} THEN v ELSE Holding(v, FirstShortest(tried).path, o) : tried \in {Insertions(v, o)}})

\* semiLIFO: the pickup goes to the front, the delivery as far back as it can,
\* behind every pickup.
LIFOInsertions(v, o, picked) ==
  {r \in {[at |-> d, path |-> InsertNode(picked, d, Delivery(o), v)] :
            d \in DropLowLimit(picked, Delivery(o), v)..HighLimit(picked, Delivery(o), v)} :
     IsFeasable(r.path) /\ ~ IsType(r.path[r.at + 1].node, "pickup")}

SemiLIFO(v, o) ==
  The({IF tried = {} THEN v
       ELSE Holding(v, (CHOOSE r \in tried : \A q \in tried : q.at <= r.at).path, o) :
         tried \in {LIFOInsertions(v, o, picked) : picked \in {InsertNode(v.path, 2, Pickup(o), v)}}})

EraseOrder(v, o) ==
  [v EXCEPT !.path = EraseNode(EraseNode(@, Pickup(o), v), Delivery(o), v), !.orders = @ \ {o}]

IsOrderFeasable(v, o) == IsFeasable(PushBack(v, o).path)
=============================================================================
