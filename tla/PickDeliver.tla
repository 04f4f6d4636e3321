---------------------------- MODULE PickDeliver ----------------------------
(***************************************************************************)
(* A call of pgr_pickDeliver (src/pickDeliver/): the fleet is built and    *)
(* checked, one initial solution is made by filling vehicle after vehicle, *)
(* and it is optimized by moving and exchanging orders between vehicles,   *)
(* on copies that are written back or dropped, while the best solution     *)
(* seen is kept aside.  One action is one turn of a loop of the code; a    *)
(* failing pgassert ends the call in "failed".                             *)
(***************************************************************************)
EXTENDS Vehicle

CONSTANT Problems    \* the calls that are made

\* Orders are numbered and vehicles come in a row, the sites of both are those of the
\* matrix, and all quantities are integers here.  The driver returns early when
\* there are no orders or no vehicles, and when a site is missing.
ASSUME ProblemsAssumption ==
  \A p \in Problems :
    LET sites == DOMAIN p.matrix
        IsSite(s) == s.id \in sites /\ {s.opens, s.closes, s.service} \subseteq Int
    IN  /\ DOMAIN p.orders \subseteq Nat /\ IsFiniteSet(DOMAIN p.orders) /\ DOMAIN p.orders # {}
        /\ \A o \in DOMAIN p.orders :
             LET order == p.orders[o]
             IN  IsSite(order.pick) /\ IsSite(order.drop) /\ order.demand \in Int
        /\ p.vehicles \in Seq(ToSet(p.vehicles)) /\ p.vehicles # <<>>
        /\ \A v \in ToSet(p.vehicles) :
             IsSite(v.start) /\ IsSite(v.end) /\ {v.count, v.pace, v.capacity} \subseteq Int
        /\ \A a, b \in sites : p.matrix[a][b] \in Int

VARIABLES
  pc,           \* the loop that is running, or how the call ended
  trucks,       \* Fleet::m_trucks, the phoney truck last
  unused,       \* Fleet::m_un_used
  unassigned,   \* Initial_solution::m_unassigned
  truck,        \* the vehicle that is filled
  left,         \* the orders the running loop has still to take
  fleet,        \* Solution::fleet
  best,         \* Optimize::best_solution
  at,           \* the positions of the vehicles "from" and "to"
  copies,       \* swap_worse: from_truck and to_truck
  partners,     \* swap_worse: o_to_orders
  others,       \* those of them not tried yet with the current order
  decreased,    \* decrease_truck: a vehicle was emptied
  rounds        \* the cycles left

vars == <<problem, pc, trucks, unused, unassigned, truck, left, fleet, best, at,
          copies, partners, others, decreased, rounds>>

\* Initials_code, from 1 on.
Kinds == {"OnePerTruck", "FrontTruck", "BackTruck", "BestInsert", "BestBack", "BestFront", "OneDepot"}

NoVehicle == [orders |-> {}]

Init ==
  /\ problem \in Problems
  /\ pc = "start"
  /\ trucks = <<>> /\ unused = {} /\ unassigned = Orders
  /\ truck = NoVehicle /\ left = {}
  /\ fleet = <<>> /\ best = <<>>
  /\ at = [from |-> 0, to |-> 0]
  /\ copies = [from |-> NoVehicle, to |-> NoVehicle] /\ partners = {} /\ others = {}
  /\ decreased = FALSE /\ rounds = problem.max_cycles

----------------------------------------------------------------------------
(***************************************************************************)
(* The fleet.                                                              *)
(***************************************************************************)
Anytime(site) == [id |-> site.id, opens |-> 0, closes |-> Infinity, service |-> 0]

\* build_fleet: the vehicles asked for, and the phoney one.
Vehicles ==
  LET first == problem.vehicles[1]
  IN  Append(problem.vehicles,
             [id |-> -1, capacity |-> Infinity, pace |-> first.pace, count |-> 1,
              start |-> Anytime(first.start), end |-> Anytime(first.end)])

\* What is asked of every row, and of the vehicles that are made of it, if any.
IsLegal(v) ==
  /\ v.count >= 0 /\ v.capacity >= 0
  /\ v.start.opens < v.start.closes /\ v.end.opens < v.end.closes
  /\ v.start.opens <= v.end.closes
  /\ v.count > 0 =>
       /\ v.capacity > 0
       /\ IsFeasable(NewVehicle(v.id, v.capacity, v.pace, v.start, v.end).path)

\* The driver's check of the one depot problem.
IsOneDepot ==
  LET depot == problem.vehicles[1].start.id
  IN  /\ \A i \in DOMAIN problem.vehicles :
           problem.vehicles[i].start.id = depot \/ problem.vehicles[i].end.id = depot
      /\ \A o \in Orders : problem.orders[o].pick.id = depot

\* Fleet(): count vehicles of each kind; set_compatibles.
Trucks ==
  FlattenSeq([i \in DOMAIN Vehicles |->
    LET v == Vehicles[i]
        empty == NewVehicle(v.id, v.capacity, v.pace, v.start, v.end)
    IN  [k \in 1..v.count |-> [empty EXCEPT !.feasable = {o \in Orders : IsOrderFeasable(empty, o)}]]])

\* is_order_ok: some vehicle can serve the order alone.
IsOrderOk(o, fleetOfCall) ==
  \E i \in DOMAIN fleetOfCall : IsValidOrder(o, fleetOfCall[i].pace) /\ o \in fleetOfCall[i].feasable

Construct ==
  /\ pc = "start"
  /\ \E built \in {Trucks} :
       IF /\ problem.kind = "OneDepot" => IsOneDepot
          /\ \A i \in DOMAIN Vehicles : IsLegal(Vehicles[i])
          /\ \A o \in Orders : IsOrderOk(o, built)
       THEN pc' = "assign" /\ trucks' = built /\ unused' = DOMAIN built
       ELSE pc' = "error" /\ UNCHANGED <<trucks, unused>>
  /\ UNCHANGED <<problem, unassigned, truck, left, fleet, best, at, copies, partners, others,
                 decreased, rounds>>

----------------------------------------------------------------------------
(***************************************************************************)
(* The initial solution: do_while_foo and do_while_feasable.               *)
(***************************************************************************)
\* A slip: the last vehicle is used up as well.
UnusedWithout(i) == unused \ {i}

\* get_truck: the last vehicle is never used up.
UnusedAfter(i) == IF Cardinality(unused) > 1 THEN unused \ {i} ELSE unused

TakeTruck ==
  /\ pc = "assign" /\ unassigned # {}
  /\ LET able == {i \in unused : Min(unassigned) \in trucks[i].feasable}
     IN  IF able = {}
         THEN pc' = "failed" /\ UNCHANGED <<unused, truck, left>>
         ELSE /\ pc' = "fill"
              /\ unused' = UnusedAfter(Min(able))
              /\ truck' = trucks[Min(able)]
              /\ left' = trucks[Min(able)].feasable \cap unassigned
  /\ UNCHANGED <<problem, trucks, unassigned, fleet, best, at, copies, partners, others,
                 decreased, rounds>>

\* The order that is tried next.
NextOrder ==
  CASE problem.kind = "BestBack"  -> FindBestJ(left, truck.pace)
    [] problem.kind = "BestFront" -> FindBestI(left, truck.pace)
    [] OTHER -> Min(left)

Filled(o) ==
  CASE problem.kind \in {"OnePerTruck", "BackTruck"} -> PushBack(truck, o)
    [] problem.kind = "FrontTruck" -> PushFront(truck, o)
    [] problem.kind = "OneDepot" -> SemiLIFO(truck, o)
    [] OTHER -> Insert(truck, o)

\* The orders still tried after o was taken.
LeftAfter(o) ==
  CASE problem.kind = "OnePerTruck" -> {}
    [] problem.kind = "BestBack"  -> CompatibleJ(o, left, truck.pace) \ {o}
    [] problem.kind = "BestFront" -> CompatibleI(o, left, truck.pace) \ {o}
    [] OTHER -> left \ {o}

PlaceOrder ==
  /\ pc = "fill" /\ left # {}
  /\ \E o \in {NextOrder} : \E v \in {Filled(o)} :
       IF ~ IsFeasable(v.path)
       THEN /\ pc' = IF Cardinality(v.orders) = 1 THEN "failed" ELSE pc
            /\ truck' = EraseOrder(v, o) /\ left' = left \ {o} /\ UNCHANGED unassigned
       ELSE IF o \in v.orders
       THEN /\ truck' = v /\ left' = LeftAfter(o) /\ unassigned' = unassigned \ {o}
            /\ UNCHANGED pc
       ELSE left' = left \ {o} /\ UNCHANGED <<pc, truck, unassigned>>
  /\ UNCHANGED <<problem, trucks, unused, fleet, best, at, copies, partners, others,
                 decreased, rounds>>

ParkTruck ==
  /\ pc = "fill" /\ left = {}
  /\ IF truck.orders = {} THEN pc' = "failed" /\ UNCHANGED fleet
                          ELSE pc' = "assign" /\ fleet' = Append(fleet, truck)
  /\ truck' = NoVehicle
  /\ UNCHANGED <<problem, trucks, unused, unassigned, left, best, at, copies, partners, others,
                 decreased, rounds>>

----------------------------------------------------------------------------
(***************************************************************************)
(* Optimize: sorting, the best solution, empty vehicles.                   *)
(***************************************************************************)
DurationOf(f) == FoldLeft(LAMBDA total, v : total + Duration(v.path), 0, f)

\* sort_by_size: any order of the vehicles that are equal in both respects.
SortedBySize(f) ==
  LET Larger(v, w) == \/ Cardinality(v.orders) > Cardinality(w.orders)
                      \/ /\ Cardinality(v.orders) = Cardinality(w.orders)
                         /\ Duration(v.path) >= Duration(w.path)
  IN  {g \in {[i \in DOMAIN f |-> f[p[i]]] : p \in Bijection(DOMAIN f, DOMAIN f)} :
         \A i \in 1..Len(f) - 1 : Larger(g[i], g[i + 1])}

\* save_if_best: both tests one after the other.
BestAfter(f, b) == IF DurationOf(f) < DurationOf(b) \/ Len(f) < Len(b) THEN f ELSE b

WithoutEmpty(f) ==
  FoldLeft(LAMBDA rest, v : IF v.orders = {} THEN rest ELSE Append(rest, v), <<>>, f)

\* A slip: the emptied vehicles stay.
KeepEmpty == fleet' = fleet /\ best' = BestAfter(fleet, best)

\* delete_empty_truck.
DeleteEmpty == fleet' = WithoutEmpty(fleet) /\ best' = BestAfter(WithoutEmpty(fleet), best)

Optimize ==
  /\ pc = "assign" /\ unassigned = {}
  /\ best' = fleet
  /\ fleet' \in SortedBySize(fleet)
  /\ at' = [from |-> 1, to |-> 0]
  /\ pc' = "decrease"
  /\ UNCHANGED <<problem, trucks, unused, unassigned, truck, left, copies, partners, others,
                 decreased, rounds>>

----------------------------------------------------------------------------
(***************************************************************************)
(* decrease_truck.                                                         *)
(***************************************************************************)
DecreaseOrder ==
  /\ pc = "decrease" /\ left # {}
  /\ \E o \in {Min(left)} :
       /\ left' = left \ {o}
       /\ \E takers \in {{j \in 1..at.from - 1 : o \in Insert(fleet[j], o).orders}} :
            IF takers = {} THEN UNCHANGED fleet
            ELSE fleet' = [fleet EXCEPT ![Min(takers)] = Insert(@, o),
                                        ![at.from] = EraseOrder(@, o)]
  /\ UNCHANGED <<problem, pc, trucks, unused, unassigned, truck, best, at, copies, partners, others,
                 decreased, rounds>>

DecreaseTruck ==
  /\ pc = "decrease" /\ left = {} /\ at.from < Len(fleet)
  /\ decreased' = (decreased \/ fleet[at.from].orders = {})
  /\ at' = [at EXCEPT !.from = @ + 1]
  /\ left' = fleet[at.from + 1].orders
  /\ UNCHANGED <<problem, pc, trucks, unused, unassigned, truck, fleet, best, copies, partners, others,
                 rounds>>

\* The end of a pass: another one when a vehicle was emptied, otherwise sort.
Decreased ==
  /\ pc = "decrease" /\ left = {} /\ at.from = Len(fleet)
  /\ at' = [at EXCEPT !.from = 1]
  /\ decreased' = FALSE
  /\ IF decreased \/ fleet[at.from].orders = {}
     THEN DeleteEmpty /\ UNCHANGED pc
     ELSE /\ fleet' \in SortedBySize(fleet)
          /\ best' = BestAfter(fleet, best)
          /\ pc' = "cycle"
  /\ UNCHANGED <<problem, trucks, unused, unassigned, truck, left, copies, partners, others, rounds>>

----------------------------------------------------------------------------
(***************************************************************************)
(* inter_swap, over all pairs of vehicles.                                 *)
(***************************************************************************)
InterSwap ==
  /\ pc = "cycle" /\ rounds > 0
  /\ DeleteEmpty
  /\ rounds' = rounds - 1
  /\ at' = [from |-> 1, to |-> 1]
  /\ pc' = "pair"
  /\ UNCHANGED <<problem, trucks, unused, unassigned, truck, left, copies, partners, others, decreased>>

\* The loop over "to" stops at "from".
NextPair ==
  /\ pc = "pair" /\ at.to >= at.from /\ at.from < Len(fleet)
  /\ at' = [from |-> at.from + 1, to |-> 1]
  /\ UNCHANGED <<problem, pc, trucks, unused, unassigned, truck, left, fleet, best, copies, partners,
                 others, decreased, rounds>>

\* swap_worse begins with copies of the two vehicles.
SwapWorse ==
  /\ pc = "pair" /\ at.to < at.from
  /\ copies' = [from |-> fleet[at.from], to |-> fleet[at.to]]
  /\ left' = fleet[at.from].orders
  /\ partners' = fleet[at.to].orders
  /\ pc' = "swap"
  /\ UNCHANGED <<problem, trucks, unused, unassigned, truck, fleet, best, at, others, decreased, rounds>>

Put(v, o) ==
  The({IF problem.kind = "OneDepot" THEN SemiLIFO(w, o) ELSE Insert(w, o) : w \in {v}})

\* to = to_truck; from = from_truck
WriteBack(f, t) ==
  /\ fleet' = [fleet EXCEPT ![at.from] = f, ![at.to] = t]
  /\ copies' = [from |-> f, to |-> t]

\* No order goes to an empty vehicle, or from a real one to the phoney one;
\* move_order also keeps it from going to a vehicle with fewer stops.
IsRefused(f, t) == Len(t.path) <= 2 \/ (~ IsPhony(f) /\ IsPhony(t))
StaysPut(f, t) == IsRefused(f, t) \/ Len(f.path) > Len(t.path)

MoveOrder ==
  /\ pc = "swap" /\ left # {}
  /\ \E o \in {Min(left)} : \E t \in {Put(copies.to, o)} :
       IF ~ StaysPut(copies.from, copies.to) /\ o \in t.orders
       THEN /\ WriteBack(EraseOrder(copies.from, o), t)
            /\ left' = left \ {o}
            /\ UNCHANGED <<pc, others>>
       ELSE /\ others' = partners
            /\ pc' = "exchange"
            /\ UNCHANGED <<fleet, copies, left>>
  /\ UNCHANGED <<problem, trucks, unused, unassigned, truck, best, at, partners, decreased, rounds>>

\* A slip: one of the two orders fits.
OneFits(f, t, o, p) ==
  /\ o \in t.orders \/ p \in f.orders
  /\ LET delta == Duration(f.path) + Duration(t.path)
                  - Duration(copies.from.path) - Duration(copies.to.path)
     IN  \/ Duration(f.path) < Duration(copies.from.path)
         \/ delta < 0
         \/ DurationOf(fleet) + delta < DurationOf(best)

\* The exchange of o and p, which gives f and t, is wanted.
IsWanted(f, t, o, p) ==
  /\ o \in t.orders /\ p \in f.orders
  /\ LET delta == Duration(f.path) + Duration(t.path)
                  - Duration(copies.from.path) - Duration(copies.to.path)
     IN  \/ Duration(f.path) < Duration(copies.from.path)
         \/ delta < 0
         \/ DurationOf(fleet) + delta < DurationOf(best)

ExchangeOrders ==
  /\ pc = "exchange" /\ others # {}
  /\ \E o \in {Min(left)}, p \in {Min(others)} :
       IF p \notin copies.to.orders
       THEN others' = others \ {p} /\ UNCHANGED <<pc, fleet, copies, left>>
       ELSE \E f \in {Put(EraseOrder(copies.from, o), p)}, t \in {Put(EraseOrder(copies.to, p), o)} :
              IF IsWanted(f, t, o, p)
              THEN /\ WriteBack(f, t)
                   /\ left' = left \ {o} /\ others' = {} /\ pc' = "swap"
              ELSE /\ copies' = [from |-> fleet[at.from], to |-> fleet[at.to]]
                   /\ others' = others \ {p}
                   /\ UNCHANGED <<pc, fleet, left>>
  /\ UNCHANGED <<problem, trucks, unused, unassigned, truck, best, at, partners, decreased, rounds>>

\* The order stays: no partner is left.
KeepOrder ==
  /\ pc = "exchange" /\ others = {}
  /\ left' = left \ {Min(left)}
  /\ pc' = "swap"
  /\ UNCHANGED <<problem, trucks, unused, unassigned, truck, fleet, best, at, copies, partners, others,
                 decreased, rounds>>

\* move_reduce_cost tries one order on its own copies; the vehicles themselves
\* are never written, but the solution can be found to be the best.
AfterReducing(c, t, o) ==
  LET f == EraseOrder(c.from, o)
      new == Duration(f.path) + Duration(t.path)
  IN  IF o \notin t.orders THEN c
      ELSE IF \/ new < Duration(c.from.path) + Duration(c.to.path)
              \/ f.orders = {}
              \/ new < DurationOf(c.best)
      THEN [from |-> f, to |-> t, best |-> BestAfter(fleet, c.best)]
      ELSE [c EXCEPT !.from = Put(f, o), !.to = EraseOrder(t, o)]

Reduced(o, c) ==
  The(UNION {{AfterReducing(d, t, o) : t \in {Put(d.to, o)}} : d \in {c}})

\* Its loop over the orders of the vehicle, the least first.
AllReduced(c, S) == MapThenFoldSet(Reduced, c, LAMBDA o : o, Max, S)

MoveReduceCost ==
  /\ pc = "swap" /\ left = {}
  /\ LET f == fleet[at.from]
         t == fleet[at.to]
         c == [from |-> f, to |-> t, best |-> best]
     IN  best' = IF IsRefused(f, t) THEN best
                 ELSE AllReduced(c, f.orders).best
  /\ at' = [at EXCEPT !.to = @ + 1]
  /\ pc' = "pair"
  /\ copies' = [from |-> NoVehicle, to |-> NoVehicle] /\ partners' = {}
  /\ UNCHANGED <<problem, trucks, unused, unassigned, truck, left, fleet, others, decreased, rounds>>

\* delete_empty_truck and std::rotate.
EndCycle ==
  /\ pc = "pair" /\ at.to >= at.from /\ at.from = Len(fleet)
  /\ LET f == WithoutEmpty(fleet)
     IN  fleet' = Append(Tail(f), Head(f)) /\ best' = BestAfter(f, best)
  /\ pc' = "cycle"
  /\ UNCHANGED <<problem, trucks, unused, unassigned, truck, left, at, copies, partners, others,
                 decreased, rounds>>

Finish ==
  /\ pc = "cycle" /\ rounds = 0
  /\ fleet' \in SortedBySize(best)
  /\ pc' = "done"
  /\ UNCHANGED <<problem, trucks, unused, unassigned, truck, left, best, at, copies, partners, others,
                 decreased, rounds>>

Done == pc \in {"done", "error", "failed"} /\ UNCHANGED vars

Step ==
  \/ Construct \/ TakeTruck \/ PlaceOrder \/ ParkTruck
  \/ Optimize \/ DecreaseOrder \/ DecreaseTruck \/ Decreased
  \/ InterSwap \/ NextPair \/ SwapWorse \/ MoveOrder \/ ExchangeOrders \/ KeepOrder
  \/ MoveReduceCost \/ EndCycle \/ Finish

Next == Step \/ Done

Spec == Init /\ [][Next]_vars /\ WF_vars(Step)

----------------------------------------------------------------------------
(***************************************************************************)
(* Correctness.                                                            *)
(***************************************************************************)
\* Every vehicle the call holds: in the solution, in the best one, filled or copied.
Held == ToSet(fleet) \cup ToSet(best) \cup ({truck, copies.from, copies.to} \ {NoVehicle})

\* It visits the pickup and the delivery of exactly the orders it is said to
\* have, once each, the pickup first: m_orders_in_vehicle and m_path
\* (vehicle_pickDeliver.hpp:52) are changed apart from each other.
ServesItsOrders(v) ==
  LET Places(n) == {i \in DOMAIN v.path : v.path[i].node = n}
  IN  /\ Len(v.path) = 2 * Cardinality(v.orders) + 2
      /\ \A o \in v.orders :
           \E i \in Places(Pickup(o)), j \in Places(Delivery(o)) : 1 < i /\ i < j /\ j < Len(v.path)

\* The three records of a vehicle agree.  The values cached at its stops are those
\* a full evaluation of the path gives, whatever was inserted, erased or copied
\* before: evaluate (vehicle.cpp:261) starts at the position that the caller names.
VehiclesAreConsistent == \A v \in Held : v.path = Evaluate(v.path, 1, v) /\ ServesItsOrders(v)

\* For no vehicle is it a short cut to go through a third site.
IsMetric ==
  LET sites == DOMAIN problem.matrix
      Time(v, a, b) == v.pace * problem.matrix[a][b]
  IN  \A v \in ToSet(problem.vehicles) : \A a, b, c \in sites :
        Time(v, a, c) <= Time(v, a, b) + Time(v, b, c)

\* No time window and no capacity is violated by what the solver holds, where
\* removing a stop cannot delay a vehicle: orders are erased without a look at
\* what becomes of the vehicle they leave (optimize.cpp:412 and 472).
SolutionsAreFeasible ==
  IsMetric => \A v \in ToSet(fleet) \cup ToSet(best) : IsFeasable(v.path)

\* The assertions of the initial solution (fleet.cpp:98, initial_solution.cpp:90,
\* vehicle_pickDeliver.cpp:263) can fail only for an order that none of the vehicles
\* left over can serve, and one is always left over (fleet.cpp:90).
NoOrderIsStranded ==
  pc = "failed" /\ IsMetric =>
    unused # {} /\ \E o \in unassigned : \A i \in unused : o \notin trucks[i].feasable

LoadsOf(f) == {v.orders : v \in ToSet(f)} \ {{}}

Assignment == INSTANCE OrderAssignment WITH
  orders <- Orders, waiting <- unassigned,
  loads <- LoadsOf(Append(fleet, truck)), kept <- LoadsOf(best)

\* No order is lost or doubled by a move, an exchange or a roll back on copies
\* (optimize.cpp:123-253): every step of the solver is a step of OrderAssignment.
OrdersAreReassigned == Assignment!Spec

\* A call ends: emptying vehicles, exchanging orders and cycles all come to an end.
CallReturns == <>(pc \in {"done", "error", "failed"})

----------------------------------------------------------------------------
(***************************************************************************)
(* What the documentation says, and the code does not do.                  *)
(***************************************************************************)
\* doc/categories/VRP-category.rst:61 "the locations have time windows within which
\* the vehicle's visits must be made": also when a matrix is asked for in which a
\* detour is quicker; optimize.cpp:296 "from_truk duration() can not get larger".
WindowsAreKept == pc = "done" => \A v \in ToSet(fleet) : IsFeasable(v.path)

\* fleet.cpp:96 "using phoney truck": an order that some vehicle can serve never
\* ends the call, pgassert(false) in fleet.cpp:98 is out of reach.
OrdersFindATruck == pc # "failed"

\* pickDeliver_driver.cpp:123 "All vehicles must depart & arrive to same node".
OneDepotOnly ==
  problem.kind = "OneDepot" /\ pc \notin {"start", "error"} =>
    \A i \in DOMAIN problem.vehicles :
      /\ problem.vehicles[i].start.id = problem.vehicles[1].start.id
      /\ problem.vehicles[i].end.id = problem.vehicles[1].start.id
=============================================================================
