------------------------- MODULE PickDeliverProofs -------------------------
(***************************************************************************)
(* Whatever the orders, the vehicles, the travel times and the windows:    *)
(* the pick and deliver solver neither loses nor doubles an order, and     *)
(* what it does to the loads of the vehicles is what OrderAssignment       *)
(* allows.  That is the first part.                                        *)
(*                                                                         *)
(* The second part looks inside the vehicles: what insert, semiLIFO,       *)
(* push_back, push_front and erase do to a path and to the values cached   *)
(* along it, and that the records of a vehicle agree, that no window and   *)
(* no capacity is violated where no short cut goes through a third site,   *)
(* and that no order is stranded.                                          *)
(***************************************************************************)
EXTENDS PickDeliver, FiniteSetTheorems, TLAPS

\* The orders of a vehicle.
HasOrders(v, S) == "orders" \in DOMAIN v /\ v.orders = S

IsFleet(f) == f \in Seq(ToSet(f)) /\ \A i \in DOMAIN f : HasOrders(f[i], f[i].orders)

\* No two vehicles have a common order.
IsApart(f) == \A i, j \in DOMAIN f : i # j => f[i].orders \cap f[j].orders = {}

Carried(f) == UNION {f[i].orders : i \in DOMAIN f}

\* Every order of S is in exactly one vehicle.
Carries(f, S) == IsFleet(f) /\ IsApart(f) /\ Carried(f) = S

Filling    == {"start", "error", "assign", "fill", "failed"}
Optimizing == {"decrease", "cycle", "pair", "swap", "exchange", "done"}

TypeOK ==
  /\ problem \in Problems
  /\ pc \in Filling \cup Optimizing
  /\ trucks \in Seq(ToSet(trucks)) /\ \A i \in DOMAIN trucks : HasOrders(trucks[i], {})
  /\ unused \subseteq DOMAIN trucks
  /\ at \in [from : Nat, to : Nat]

\* Orders are either unassigned or in one vehicle, the one that is filled included.
FillingInv ==
  pc \in Filling =>
    /\ unassigned \subseteq Orders
    /\ Carries(Append(fleet, truck), Orders \ unassigned)
    /\ fleet \in Seq(ToSet(fleet))
    /\ pc \in {"start", "assign"} => truck = NoVehicle /\ left = {}
    /\ pc = "fill" => left \subseteq unassigned

\* Every order is in one vehicle, in the current and in the best solution.
OptimizingInv ==
  pc \in Optimizing =>
    /\ unassigned = {} /\ truck = NoVehicle
    /\ Carries(fleet, Orders) /\ Carries(best, Orders)

\* What the loops still have to take is in the vehicle they take it from, and the
\* copies they work on are up to date.
LoopInv ==
  /\ pc \in {"decrease", "pair", "swap", "exchange"} => at.from \in DOMAIN fleet
  /\ pc = "decrease" => left \subseteq fleet[at.from].orders
  /\ pc \in {"pair", "swap", "exchange"} => at.to > 0
  /\ pc \in {"swap", "exchange"} =>
       /\ at.to < at.from
       /\ copies.from = fleet[at.from] /\ copies.to = fleet[at.to]
       /\ left \subseteq fleet[at.from].orders
  /\ pc = "exchange" => left # {}

IInv == TypeOK /\ FillingInv /\ OptimizingInv /\ LoopInv

----------------------------------------------------------------------------
(***************************************************************************)
(* Lemmas: what the operations on one vehicle do to its orders.            *)
(***************************************************************************)
\* The orders after o was tried: the vehicle took it or is as it was.
Takes(w, v, o) == HasOrders(w, v.orders) \/ HasOrders(w, v.orders \cup {o})

\* The element of a set with one element.
LEMMA TheOne ==
  ASSUME NEW e
  PROVE  The({e}) = e
BY DEF The

\* A vehicle with a stop sequence that has the order holds it, too.
LEMMA HoldingTakes ==
  ASSUME NEW v, HasOrders(v, v.orders), NEW path, NEW o
  PROVE  HasOrders(Holding(v, path, o), v.orders \cup {o})
BY DEF HasOrders, Holding

\* insert takes the order or leaves the vehicle as it was (vehicle_pickDeliver.cpp).
LEMMA InsertTakes ==
  ASSUME NEW v, HasOrders(v, v.orders), NEW o
  PROVE  Takes(Insert(v, o), v, o)
<1> DEFINE R(tried) == IF tried = {} THEN v ELSE Holding(v, FirstShortest(tried).path, o)
<1>1. Insert(v, o) = The({R(Insertions(v, o))})
  <2>1. {R(tried) : tried \in {Insertions(v, o)}} = {R(Insertions(v, o))}
    OBVIOUS
  <2>2. QED
    BY <2>1 DEF Insert
<1> HIDE DEF R
<1>2. Insert(v, o) = R(Insertions(v, o))
  BY <1>1, TheOne
<1>3. QED
  BY <1>2, HoldingTakes DEF Takes, R

\* So does semiLIFO.
LEMMA SemiLIFOTakes ==
  ASSUME NEW v, HasOrders(v, v.orders), NEW o
  PROVE  Takes(SemiLIFO(v, o), v, o)
<1> DEFINE Latest(tried) == (CHOOSE r \in tried : \A q \in tried : q.at <= r.at).path
           R(tried) == IF tried = {} THEN v ELSE Holding(v, Latest(tried), o)
           T == LIFOInsertions(v, o, InsertNode(v.path, 2, Pickup(o), v))
<1>1. SemiLIFO(v, o) = The({R(T)})
  <2>1. {LIFOInsertions(v, o, picked) : picked \in {InsertNode(v.path, 2, Pickup(o), v)}} = {T}
    OBVIOUS
  <2> HIDE DEF T
  <2>2. {R(tried) : tried \in {T}} = {R(T)}
    OBVIOUS
  <2>3. QED
    BY <2>1, <2>2 DEF SemiLIFO
<1> HIDE DEF R, T
<1>2. SemiLIFO(v, o) = R(T)
  BY <1>1, TheOne
<1>3. QED
  BY <1>2, HoldingTakes DEF Takes, R

\* And whichever of the insertions an initial solution uses.
LEMMA PutTakes ==
  ASSUME NEW v, HasOrders(v, v.orders), NEW o
  PROVE  Takes(Put(v, o), v, o)
<1> DEFINE R(w) == IF problem.kind = "OneDepot" THEN SemiLIFO(w, o) ELSE Insert(w, o)
<1>1. {R(w) : w \in {v}} = {R(v)}
  OBVIOUS
<1>2. Put(v, o) = R(v)
  BY <1>1, TheOne DEF Put
<1>3. QED
  BY <1>2, SemiLIFOTakes, InsertTakes

\* Filling a vehicle for the first time: it takes the order or is as it was.
LEMMA FilledTakes ==
  ASSUME HasOrders(truck, truck.orders), NEW o
  PROVE  Takes(Filled(o), truck, o)
<1>1. /\ Takes(PushBack(truck, o), truck, o) /\ Takes(PushFront(truck, o), truck, o)
      /\ Takes(SemiLIFO(truck, o), truck, o) /\ Takes(Insert(truck, o), truck, o)
  BY HoldingTakes, SemiLIFOTakes, InsertTakes DEF PushBack, PushFront, Takes
<1>2. Filled(o) \in {PushBack(truck, o), PushFront(truck, o), SemiLIFO(truck, o), Insert(truck, o)}
  BY DEF Filled
<1>3. QED
  BY <1>1, <1>2

\* erase takes the order, and no other, from the vehicle.
LEMMA EraseDrops ==
  ASSUME NEW v, HasOrders(v, v.orders), NEW o
  PROVE  HasOrders(EraseOrder(v, o), v.orders \ {o})
BY DEF HasOrders, EraseOrder

\* A vehicle that was never used carries nothing.
LEMMA NewIsEmpty ==
  ASSUME NEW id, NEW capacity, NEW pace, NEW start, NEW end, NEW S
  PROVE  HasOrders([NewVehicle(id, capacity, pace, start, end) EXCEPT !.feasable = S], {})
BY DEF HasOrders, NewVehicle

----------------------------------------------------------------------------
(***************************************************************************)
(* Lemmas: least and greatest numbers.                                     *)
(***************************************************************************)
\* How the positions of g are those of the vehicles of f in D, the empty ones left out.
Selects(h, g, f, D) ==
  /\ g \in Seq(ToSet(f))
  /\ h \in [DOMAIN g -> D]
  /\ \A k \in DOMAIN g : g[k] = f[h[k]]
  /\ \A k, l \in DOMAIN g : h[k] = h[l] => k = l
  /\ \A i \in D : f[i].orders # {} => \E k \in DOMAIN g : h[k] = i

SelectsFirst(g, f, D) ==
  \A n \in 0..Len(f) : D = 1..n => \E h : Selects(h, g, f, D)

\* The loop of delete_empty_truck.
Rest == INSTANCE Recursion WITH
  Start <- LAMBDA f : <<>>, Pick <- LAMBDA f, D : Max(D),
  Step  <- LAMBDA f, i, rest : IF f[i].orders = {} THEN rest ELSE Append(rest, f[i]),
  Claim <- LAMBDA f, D, rest : SelectsFirst(rest, f, D)

\* Min returns an element of the set.
LEMMA MinOfOrders ==
  ASSUME NEW S \in SUBSET Nat, S # {}
  PROVE  Min(S) \in S /\ \A x \in S : Min(S) <= x
<1>1. \E x \in S : \A y \in S : x <= y
  BY Rest!LeastElement
<1>2. QED
  BY <1>1 DEF Min

\* A finite set of natural numbers that is not empty has a greatest element.
LEMMA MaxOfOrders ==
  ASSUME NEW S \in SUBSET Nat, S # {}, IsFiniteSet(S)
  PROVE  Max(S) \in S /\ \A x \in S : x <= Max(S)
<1> DEFINE HasMax(X) == \E x \in X : \A y \in X : x >= y
           Lacks(X) == X # {} /\ IsFiniteSet(X) /\ ~ HasMax(X)
           Bad == {k \in Nat : \E X \in SUBSET Nat : Lacks(X) /\ Cardinality(X) = k}
<1>1. ASSUME NEW X \in SUBSET Nat, Lacks(X)
      PROVE  \E Y \in SUBSET Nat : Lacks(Y) /\ Cardinality(Y) < Cardinality(X)
  <2>1. PICK x \in X : TRUE
    BY <1>1
  <2> DEFINE Y == X \ {x}
  <2>2. IsFiniteSet(Y) /\ Cardinality(X) \in Nat /\ Cardinality(Y) = Cardinality(X) - 1
    BY <1>1, FS_RemoveElement, FS_CardinalityType
  <2>3. Y # {}
    <3>1. SUFFICES ASSUME Y = {} PROVE FALSE
      OBVIOUS
    <3>2. \A y \in X : x >= y
      BY <3>1
    <3>3. QED
      BY <3>2, <1>1
  <2>4. ~ HasMax(Y)
    <3>1. SUFFICES ASSUME HasMax(Y) PROVE FALSE
      OBVIOUS
    <3>2. PICK m \in Y : \A y \in Y : m >= y
      BY <3>1
    <3>3. m \in Nat /\ x \in Nat
      OBVIOUS
    <3>4. (\A y \in X : m >= y) \/ (\A y \in X : x >= y)
      BY <3>2, <3>3
    <3>5. QED
      BY <3>4, <1>1
  <2>5. QED
    BY <2>2, <2>3, <2>4
<1>2. \A X \in SUBSET Nat : IsFiniteSet(X) => Cardinality(X) \in Nat
  BY FS_CardinalityType
<1> HIDE DEF HasMax
<1>3. Bad = {}
  <2>1. SUFFICES ASSUME Bad # {} PROVE FALSE
    OBVIOUS
  <2>2. PICK k \in Bad : \A j \in Bad : k <= j
    BY <2>1, Rest!LeastElement
  <2>3. PICK X \in SUBSET Nat : Lacks(X) /\ Cardinality(X) = k
    BY <2>2
  <2>4. PICK Y \in SUBSET Nat : Lacks(Y) /\ Cardinality(Y) < k
    BY <2>3, <1>1
  <2>5. Cardinality(Y) \in Bad
    BY <2>4, <1>2
  <2>6. QED
    BY <2>5, <2>4, <2>2
<1>4. HasMax(S)
  BY <1>3, <1>2
<1>5. QED
  BY <1>4 DEF HasMax, Max

\* The best order of a set is one of the set.
LEMMA BestOfIsOne ==
  ASSUME NEW S \in SUBSET Nat, S # {}, IsFiniteSet(S), NEW likes,
         \A p \in S : likes[p] \subseteq S
  PROVE  BestOf(S, likes) \in S
<1> DEFINE Size(p) == Cardinality(likes[p])
           V == {Size(p) : p \in S}
<1>1. \A p \in S : Size(p) \in Nat
  BY FS_Subset, FS_CardinalityType
<1>2. IsFiniteSet(V) /\ V # {} /\ V \in SUBSET Nat
  <2> DEFINE f == [p \in S |-> Size(p)]
  <2>0. f \in Surjection(S, V)
    BY DEF Surjection
  <2>1. IsFiniteSet(V)
    BY <2>0, FS_Surjection DEF ExistsSurjection
  <2>2. QED
    BY <2>1, <1>1
<1>3. Max(V) \in V /\ \A x \in V : x <= Max(V)
  BY <1>2, MaxOfOrders
<1>4. PICK o \in S : Size(o) = Max(V)
  BY <1>3
<1>5. o \in {p \in S : \A q \in S : Size(q) <= Size(p)}
  BY <1>3, <1>4
<1>6. {p \in S : \A q \in S : Size(q) <= Size(p)} \in SUBSET Nat
  OBVIOUS
<1> DEFINE Favourites == {p \in S : \A q \in S : Size(q) <= Size(p)}
<1>7. Min(Favourites) \in Favourites
  BY <1>5, <1>6, MinOfOrders
<1>8. QED
  BY <1>7 DEF BestOf

\* The order do_while_feasable tries next is one of those left.
LEMMA NextOrderIsLeft ==
  ASSUME left \in SUBSET Nat, left # {}, IsFiniteSet(left)
  PROVE  NextOrder \in left
<1> DEFINE J == [o \in left |-> CompatibleJ(o, left, truck.pace)]
           I == [o \in left |-> CompatibleI(o, left, truck.pace)]
<1>1. \A p \in left : J[p] \subseteq left /\ I[p] \subseteq left
  BY DEF CompatibleJ, CompatibleI
<1> HIDE DEF I, J
<1>2. BestOf(left, J) \in left /\ BestOf(left, I) \in left
  BY <1>1, BestOfIsOne
<1>3. FindBestJ(left, truck.pace) \in left /\ FindBestI(left, truck.pace) \in left
  BY <1>2 DEF FindBestJ, FindBestI, I, J
<1>4. Min(left) \in left
  BY MinOfOrders
<1>5. QED
  BY <1>3, <1>4 DEF NextOrder

\* Only orders that were left are left after a try.
LEMMA LeftAfterIsLeft ==
  ASSUME NEW o \in left
  PROVE  LeftAfter(o) \subseteq left \ {o}
BY DEF LeftAfter, CompatibleI, CompatibleJ

----------------------------------------------------------------------------
(***************************************************************************)
(* Lemmas: vehicles that are put in another order, or left out.            *)
(***************************************************************************)
LEMMA LoadOf ==
  ASSUME NEW f, NEW L
  PROVE  L \in LoadsOf(f) <=> L # {} /\ \E i \in DOMAIN f : L = f[i].orders
BY DEF LoadsOf, ToSet

\* Taking empty vehicles out of a fleet, and renumbering the rest, keeps what is carried.
LEMMA Selected ==
  ASSUME NEW f, NEW g, NEW h, NEW S, Carries(f, S), Selects(h, g, f, DOMAIN f)
  PROVE  Carries(g, S) /\ LoadsOf(g) = LoadsOf(f)
<1>1. /\ g \in Seq(ToSet(f)) /\ h \in [DOMAIN g -> DOMAIN f]
      /\ \A k \in DOMAIN g : g[k] = f[h[k]]
      /\ \A k, l \in DOMAIN g : h[k] = h[l] => k = l
      /\ \A i \in DOMAIN f : f[i].orders # {} => \E k \in DOMAIN g : h[k] = i
  BY DEF Selects
<1>2. IsFleet(g)
  <2>1. g \in Seq(ToSet(g))
    BY <1>1 DEF ToSet
  <2>2. QED
    BY <1>1, <2>1 DEF Carries, IsFleet, HasOrders
<1>3. IsApart(g)
  BY <1>1 DEF Carries, IsApart
<1>4. Carried(g) = S
  <2>1. ASSUME NEW o \in Carried(g) PROVE o \in S
    BY <1>1 DEF Carries, Carried
  <2>2. ASSUME NEW o \in S PROVE o \in Carried(g)
    <3>1. PICK i \in DOMAIN f : o \in f[i].orders
      BY DEF Carries, Carried
    <3>2. PICK k \in DOMAIN g : h[k] = i
      BY <1>1, <3>1
    <3>3. QED
      BY <1>1, <3>1, <3>2 DEF Carried
  <2>3. QED
    BY <2>1, <2>2
<1>5. ASSUME NEW L PROVE L \in LoadsOf(g) <=> L \in LoadsOf(f)
  <2>1. ASSUME L \in LoadsOf(g) PROVE L \in LoadsOf(f)
    BY <2>1, <1>1, LoadOf
  <2>2. ASSUME L \in LoadsOf(f) PROVE L \in LoadsOf(g)
    <3>1. PICK i \in DOMAIN f : L # {} /\ L = f[i].orders
      BY <2>2, LoadOf
    <3>2. PICK k \in DOMAIN g : h[k] = i
      BY <1>1, <3>1
    <3>3. QED
      BY <1>1, <3>1, <3>2, LoadOf
  <2>3. QED
    BY <2>1, <2>2
<1>6. QED
  BY <1>2, <1>3, <1>4, <1>5 DEF Carries

\* Intervals of indices, with or without the last one.
LEMMA Intervals ==
  ASSUME NEW n \in Nat, n > 0
  PROVE  1..n # {} /\ Max(1..n) = n /\ (1..n) \ {n} = 1..n - 1
<1>1. 1..n \in SUBSET Nat /\ n \in 1..n /\ IsFiniteSet(1..n)
  BY FS_Interval
<1>2. Max(1..n) \in 1..n /\ \A x \in 1..n : x <= Max(1..n)
  BY <1>1, MaxOfOrders
<1>3. Max(1..n) = n
  BY <1>1, <1>2
<1>4. QED
  BY <1>1, <1>3

\* One more vehicle is looked at by delete_empty_truck.
LEMMA OneMoreSelected ==
  ASSUME NEW f, IsFleet(f), NEW n \in 1..Len(f), NEW g, NEW h, Selects(h, g, f, 1..n - 1)
  PROVE  \E j : Selects(j, IF f[n].orders = {} THEN g ELSE Append(g, f[n]), f, 1..n)
<1>0. Len(f) \in Nat /\ DOMAIN f = 1..Len(f) /\ n \in Nat
  BY DEF IsFleet
<1>1. /\ g \in Seq(ToSet(f)) /\ h \in [DOMAIN g -> 1..n - 1]
      /\ \A k \in DOMAIN g : g[k] = f[h[k]]
      /\ \A k, l \in DOMAIN g : h[k] = h[l] => k = l
      /\ \A i \in 1..n - 1 : f[i].orders # {} => \E k \in DOMAIN g : h[k] = i
  BY DEF Selects
<1>2. CASE f[n].orders = {}
  <2>1. h \in [DOMAIN g -> 1..n]
    BY <1>0, <1>1
  <2>2. \A i \in 1..n : f[i].orders # {} => i \in 1..n - 1
    BY <1>0, <1>2
  <2>3. Selects(h, g, f, 1..n)
    BY <1>1, <2>1, <2>2 DEF Selects
  <2>4. QED
    BY <1>2, <2>3
<1>3. CASE f[n].orders # {}
  <2> DEFINE a == Append(g, f[n])
             m == Len(g) + 1
             j == [k \in DOMAIN a |-> IF k = m THEN n ELSE h[k]]
  <2>1. Len(g) \in Nat /\ DOMAIN g = 1..Len(g)
    BY <1>1
  <2>2. /\ a \in Seq(ToSet(f)) /\ DOMAIN a = 1..m /\ a[m] = f[n]
        /\ \A k \in DOMAIN g : a[k] = g[k]
    <3>1. f[n] \in ToSet(f)
      BY <1>0 DEF ToSet
    <3>2. QED
      BY <3>1, <2>1, <1>1
  <2> HIDE DEF a
  <2>3. \A k \in DOMAIN a : k = m \/ k \in DOMAIN g
    BY <2>1, <2>2
  <2>4. \A k \in DOMAIN g : k # m /\ k \in DOMAIN a
    BY <2>1, <2>2
  <2>5. /\ \A k \in DOMAIN g : j[k] = h[k] /\ h[k] \in 1..n /\ h[k] # n
        /\ j[m] = n /\ m \in DOMAIN a
    <3>1. \A x \in 1..n - 1 : x \in 1..n /\ x # n
      BY <1>0
    <3>2. \A k \in DOMAIN g : h[k] \in 1..n - 1
      BY <1>1
    <3>3. QED
      BY <3>1, <3>2, <2>1, <2>2, <2>4
  <2>6. j \in [DOMAIN a -> 1..n]
    <3>1. n \in 1..n
      BY <1>0
    <3>2. \A k \in DOMAIN a : j[k] \in 1..n
      BY <3>1, <2>3, <2>5
    <3>3. QED
      BY <3>2
  <2>7. \A k \in DOMAIN a : a[k] = f[j[k]]
    BY <2>2, <2>3, <2>5, <1>1
  <2>8. \A k, l \in DOMAIN a : j[k] = j[l] => k = l
    <3>1. \A k \in DOMAIN g : j[k] # n
      BY <2>5, <1>0
    <3>2. QED
      BY <3>1, <2>3, <2>5, <1>1
  <2>9. \A i \in 1..n : f[i].orders # {} => \E k \in DOMAIN a : j[k] = i
    <3>1. SUFFICES ASSUME NEW i \in 1..n, f[i].orders # {} PROVE \E k \in DOMAIN a : j[k] = i
      OBVIOUS
    <3>2. CASE i = n
      BY <3>2, <2>5
    <3>3. CASE i # n
      <4>1. i \in 1..n - 1
        BY <3>3, <1>0
      <4>2. PICK k \in DOMAIN g : h[k] = i
        BY <4>1, <3>1, <1>1
      <4>3. QED
        BY <4>2, <2>4, <2>5
    <3>4. QED
      BY <3>2, <3>3
  <2> HIDE DEF j
  <2>10. Selects(j, a, f, 1..n)
    BY <2>2, <2>6, <2>7, <2>8, <2>9 DEF Selects
  <2>11. QED
    BY <2>10, <1>3 DEF a
<1>4. QED
  BY <1>2, <1>3

\* delete_empty_truck keeps exactly the vehicles that carry something, in their order.
LEMMA WithoutEmptySelects ==
  ASSUME NEW f, IsFleet(f)
  PROVE  \E h : Selects(h, WithoutEmpty(f), f, DOMAIN f)
<1>0. Len(f) \in Nat /\ DOMAIN f = 1..Len(f)
  BY DEF IsFleet
<1>1. WithoutEmpty(f) = Rest!Folded(f, DOMAIN f)[DOMAIN f]
  BY DEF WithoutEmpty, FoldLeft, MapThenFoldSet, Rest!Folded, Rest!IsFolded
<1>2. Rest!IsFiniteSet(DOMAIN f) /\ IsFiniteSet(DOMAIN f)
  <2>1. IsFiniteSet(DOMAIN f)
    BY <1>0, FS_Interval
  <2>2. QED
    BY <2>1 DEF IsFiniteSet, Rest!IsFiniteSet
<1>3. \A D \in SUBSET DOMAIN f : D # {} => Max(D) \in D
  <2>1. \A D \in SUBSET DOMAIN f : D \in SUBSET Nat /\ IsFiniteSet(D)
    BY <1>0, <1>2, FS_Subset
  <2>2. QED
    BY <2>1, MaxOfOrders
<1>4. SelectsFirst(<<>>, f, {})
  <2>1. \A n \in 0..Len(f) : {} = 1..n => n = 0
    BY <1>0
  <2>2. Selects([k \in {} |-> 0], <<>>, f, 1..0)
    BY DEF Selects
  <2>3. QED
    BY <2>1, <2>2 DEF SelectsFirst
<1>5. ASSUME NEW D \in SUBSET DOMAIN f, D # {}, NEW g, SelectsFirst(g, f, D \ {Max(D)})
      PROVE  SelectsFirst(IF f[Max(D)].orders = {} THEN g ELSE Append(g, f[Max(D)]), f, D)
  <2> DEFINE more == IF f[Max(D)].orders = {} THEN g ELSE Append(g, f[Max(D)])
  <2>1. ASSUME NEW n \in 0..Len(f), D = 1..n PROVE \E h : Selects(h, more, f, D)
    <3>1. n \in Nat /\ n > 0
      BY <2>1, <1>0, <1>5
    <3>2. Max(D) = n /\ D \ {Max(D)} = 1..n - 1 /\ n - 1 \in 0..Len(f)
      BY <3>1, <2>1, <1>0, Intervals
    <3>3. PICK h : Selects(h, g, f, 1..n - 1)
      BY <3>2, <1>5 DEF SelectsFirst
    <3>4. QED
      BY <3>1, <3>2, <3>3, <2>1, <1>0, OneMoreSelected
  <2> HIDE DEF more
  <2>2. SelectsFirst(more, f, D)
    BY <2>1 DEF SelectsFirst
  <2>3. QED
    BY <2>2 DEF more
<1>6. \A D \in SUBSET DOMAIN f : SelectsFirst(Rest!Folded(f, DOMAIN f)[D], f, D)
  BY <1>2, <1>3, <1>4, <1>5, Rest!FoldedClaim
<1>7. SelectsFirst(WithoutEmpty(f), f, DOMAIN f)
  BY <1>6, <1>1
<1>8. Len(f) \in 0..Len(f)
  BY <1>0
<1>9. QED
  BY <1>7, <1>8, <1>0 DEF SelectsFirst

\* delete_empty_truck neither loses nor doubles an order.
LEMMA WithoutEmptyCarries ==
  ASSUME NEW f, NEW S, Carries(f, S)
  PROVE  /\ Carries(WithoutEmpty(f), S) /\ LoadsOf(WithoutEmpty(f)) = LoadsOf(f)
         /\ S # {} => WithoutEmpty(f) # <<>> /\ Len(WithoutEmpty(f)) > 0
<1> DEFINE g == WithoutEmpty(f)
<1>1. PICK h : Selects(h, g, f, DOMAIN f)
  BY WithoutEmptySelects DEF Carries
<1> HIDE DEF g
<1>2. Carries(g, S) /\ LoadsOf(g) = LoadsOf(f)
  BY <1>1, Selected
<1>3. S # {} => Len(g) > 0 /\ g # <<>>
  <2>1. g \in Seq(ToSet(g)) /\ Carried(g) = S
    BY <1>2 DEF Carries, IsFleet
  <2>2. Len(g) = 0 => Carried(g) = {}
    BY <2>1 DEF Carried
  <2>3. Len(g) \in Nat
    BY <2>1
  <2>4. QED
    BY <2>1, <2>2, <2>3
<1>4. QED
  BY <1>2, <1>3 DEF g

\* sort_by_size.
LEMMA SortedCarries ==
  ASSUME NEW f, NEW S, Carries(f, S), NEW g \in SortedBySize(f)
  PROVE  Carries(g, S) /\ LoadsOf(g) = LoadsOf(f) /\ DOMAIN g = DOMAIN f
<1>1. PICK p \in Bijection(DOMAIN f, DOMAIN f) : g = [i \in DOMAIN f |-> f[p[i]]]
  BY DEF SortedBySize
<1>2. /\ p \in [DOMAIN f -> DOMAIN f] /\ DOMAIN p = DOMAIN f
      /\ \A i, j \in DOMAIN f : p[i] = p[j] => i = j
      /\ \A i \in DOMAIN f : \E j \in DOMAIN f : p[j] = i
  BY <1>1 DEF Bijection, Injection, Surjection, IsInjective
<1>3. Len(f) \in Nat /\ DOMAIN f = 1..Len(f)
  BY DEF Carries, IsFleet
<1>4. DOMAIN g = DOMAIN f /\ \A k \in DOMAIN g : g[k] = f[p[k]]
  BY <1>1
<1>5. g \in Seq(ToSet(f))
  <2>1. g \in [1..Len(f) -> ToSet(f)]
    BY <1>1, <1>2, <1>3 DEF ToSet
  <2>2. QED
    BY <2>1, <1>3
<1>6. Selects(p, g, f, DOMAIN f)
  BY <1>2, <1>4, <1>5 DEF Selects
<1>7. QED
  BY <1>4, <1>6, Selected

\* std::rotate: the first vehicle becomes the last one.
LEMMA RotatedCarries ==
  ASSUME NEW f, NEW S, Carries(f, S), Len(f) > 0
  PROVE  LET g == Append(Tail(f), Head(f)) IN Carries(g, S) /\ LoadsOf(g) = LoadsOf(f)
<1>1. PICK n \in Nat : f \in Seq(ToSet(f)) /\ n = Len(f) /\ n > 0 /\ DOMAIN f = 1..n
  BY DEF Carries, IsFleet
<1> DEFINE g == Append(Tail(f), Head(f))
           Next1(k) == IF k = n THEN 1 ELSE k + 1
           h == [k \in 1..n |-> Next1(k)]
<1>2. /\ Tail(f) \in Seq(ToSet(f)) /\ Len(Tail(f)) = n - 1 /\ Head(f) = f[1] /\ Head(f) \in ToSet(f)
      /\ \A k \in 1..n - 1 : Tail(f)[k] = f[k + 1]
  BY <1>1
<1>3. g \in Seq(ToSet(f)) /\ DOMAIN g = 1..n
  BY <1>1, <1>2
<1>4. \A k \in 1..n : g[k] = f[Next1(k)]
  <2>1. g[n] = f[1] /\ \A k \in 1..n - 1 : g[k] = f[k + 1]
    BY <1>1, <1>2
  <2> HIDE DEF g
  <2>2. \A k \in 1..n : k # n => k \in 1..n - 1
    BY <1>1
  <2>3. QED
    BY <2>1, <2>2
<1> HIDE DEF g
<1>5. \A k \in 1..n : Next1(k) \in 1..n
  BY <1>1
<1>6. \A k, l \in 1..n : Next1(k) = Next1(l) => k = l
  BY <1>1
<1>7. \A i \in 1..n : \E k \in 1..n : Next1(k) = i
  <2>1. SUFFICES ASSUME NEW i \in 1..n PROVE \E k \in 1..n : Next1(k) = i
    OBVIOUS
  <2>2. CASE i = 1
    <3>1. n \in 1..n /\ Next1(n) = 1
      BY <1>1
    <3>2. QED
      BY <2>2, <3>1
  <2>3. CASE i # 1
    <3>1. i - 1 \in 1..n /\ i - 1 # n /\ Next1(i - 1) = i
      BY <2>3, <1>1
    <3>2. QED
      BY <3>1
  <2>4. QED
    BY <2>2, <2>3
<1> HIDE DEF Next1
<1>8. Selects(h, g, f, DOMAIN f)
  BY <1>1, <1>3, <1>4, <1>5, <1>6, <1>7 DEF Selects
<1>9. QED
  BY <1>8, Selected DEF g

\* A vehicle at the end of the fleet.
LEMMA Appended ==
  ASSUME NEW f, f \in Seq(ToSet(f)), NEW v
  PROVE  /\ Append(f, v) \in Seq(ToSet(Append(f, v)))
         /\ Len(f) \in Nat /\ DOMAIN f = 1..Len(f) /\ DOMAIN Append(f, v) = 1..Len(f) + 1
         /\ \A i \in DOMAIN f : Append(f, v)[i] = f[i]
         /\ Append(f, v)[Len(f) + 1] = v
<1>1. Len(f) \in Nat /\ DOMAIN f = 1..Len(f)
  OBVIOUS
<1> DEFINE X == ToSet(f) \cup {v}
<1>2. f \in Seq(X) /\ v \in X
  BY <1>1 DEF ToSet
<1> HIDE DEF X
<1>3. /\ Append(f, v) \in Seq(X) /\ DOMAIN Append(f, v) = 1..Len(f) + 1
      /\ \A i \in DOMAIN f : Append(f, v)[i] = f[i]
      /\ Append(f, v)[Len(f) + 1] = v
  BY <1>1, <1>2
<1>4. Append(f, v) \in Seq(ToSet(Append(f, v)))
  BY <1>3 DEF ToSet
<1>5. QED
  BY <1>1, <1>3, <1>4

\* Nothing is in an empty vehicle at the end of the fleet.
LEMMA EmptyAtTheEnd ==
  ASSUME NEW f, f \in Seq(ToSet(f)), NEW v, HasOrders(v, {})
  PROVE  /\ LoadsOf(Append(f, v)) = LoadsOf(f)
         /\ \A S : Carries(Append(f, v), S) <=> Carries(f, S)
<1> DEFINE g == Append(f, v)
           m == Len(f) + 1
<1>1. /\ g \in Seq(ToSet(g)) /\ Len(f) \in Nat /\ DOMAIN f = 1..Len(f) /\ DOMAIN g = 1..m
      /\ \A i \in DOMAIN f : g[i] = f[i]
      /\ g[m] = v
  BY Appended
<1> HIDE DEF g
<1>2. /\ \A i \in DOMAIN g : i = m \/ i \in DOMAIN f
      /\ \A i \in DOMAIN f : i \in DOMAIN g /\ g[i] = f[i]
      /\ m \in DOMAIN g /\ g[m].orders = {} /\ "orders" \in DOMAIN g[m]
  BY <1>1 DEF HasOrders
<1>3. \A L : L \in LoadsOf(g) <=> L \in LoadsOf(f)
  BY <1>2, LoadOf
<1>4. ASSUME NEW S PROVE Carries(g, S) <=> Carries(f, S)
  <2>1. IsFleet(g) <=> IsFleet(f)
    BY <1>1, <1>2 DEF IsFleet, HasOrders
  <2>2. IsApart(g) <=> IsApart(f)
    <3>1. IsApart(g) => IsApart(f)
      BY <1>2 DEF IsApart
    <3>2. ASSUME IsApart(f), NEW i \in DOMAIN g, NEW j \in DOMAIN g, i # j
          PROVE  g[i].orders \cap g[j].orders = {}
      <4>1. CASE i \in DOMAIN f /\ j \in DOMAIN f
        BY <4>1, <1>2, <3>2 DEF IsApart
      <4>2. CASE i = m \/ j = m
        BY <4>2, <1>2
      <4>3. QED
        BY <4>1, <4>2, <1>2
    <3>3. QED
      BY <3>1, <3>2 DEF IsApart
  <2>3. Carried(g) = Carried(f)
    BY <1>2 DEF Carried
  <2>4. QED
    BY <2>1, <2>2, <2>3 DEF Carries
<1>5. QED
  BY <1>3, <1>4 DEF g

----------------------------------------------------------------------------
(***************************************************************************)
(* Lemmas: orders that change vehicles, and what the solver builds on.     *)
(***************************************************************************)
\* Two vehicles are written back with the orders they had together.
Exchange(L, a, b, c, d) == ((L \ {a, b}) \cup {c, d}) \ {{}}

IsRewritten(g, f, i, j, x, y) == g = [f EXCEPT ![i] = x, ![j] = y]

\* Two vehicles of a fleet are replaced: what the others carry stays.
LEMMA Rewritten ==
  ASSUME NEW f, NEW S, Carries(f, S), NEW i \in DOMAIN f, NEW j \in DOMAIN f, i # j,
         NEW x, NEW y, NEW c, NEW d, HasOrders(x, c), HasOrders(y, d),
         c \cup d = f[i].orders \cup f[j].orders, c \cap d = {},
         NEW g, IsRewritten(g, f, i, j, x, y)
  PROVE  /\ Carries(g, S) /\ DOMAIN g = DOMAIN f
         /\ LoadsOf(g) = Exchange(LoadsOf(f), f[i].orders, f[j].orders, c, d)
<1> DEFINE a == f[i].orders
           b == f[j].orders
<1>1. /\ DOMAIN g = DOMAIN f /\ g[i] = x /\ g[j] = y /\ g[i].orders = c /\ g[j].orders = d
      /\ \A k \in DOMAIN f : k # i /\ k # j => g[k] = f[k]
      /\ g = [k \in DOMAIN f |-> g[k]]
  BY DEF HasOrders, IsRewritten
<1>2. f \in Seq(ToSet(f)) /\ Len(f) \in Nat /\ DOMAIN f = 1..Len(f)
  BY DEF Carries, IsFleet
<1>3. IsFleet(g)
  <2>1. g \in Seq(ToSet(g))
    <3>1. g = [k \in 1..Len(f) |-> g[k]]
      BY <1>1, <1>2
    <3>2. \A k \in 1..Len(f) : g[k] \in ToSet(g)
      BY <1>1, <1>2 DEF ToSet
    <3>3. g \in [1..Len(f) -> ToSet(g)]
      BY <3>1, <3>2
    <3>4. QED
      BY <3>3, <1>2
  <2>2. \A k \in DOMAIN g : "orders" \in DOMAIN g[k]
    BY <1>1 DEF HasOrders, Carries, IsFleet
  <2>3. QED
    BY <2>1, <2>2 DEF IsFleet, HasOrders
<1>4. IsApart(g)
  <2>1. ASSUME NEW k \in DOMAIN g, NEW l \in DOMAIN g, k # l
        PROVE  g[k].orders \cap g[l].orders = {}
    <3>1. \A m \in DOMAIN f : m # i /\ m # j => f[m].orders \cap (c \cup d) = {}
      BY DEF Carries, IsApart
    <3>2. CASE k \in {i, j} /\ l \in {i, j}
      BY <3>2, <1>1, <2>1
    <3>3. CASE k \in {i, j} /\ l \notin {i, j}
      BY <3>1, <3>3, <1>1
    <3>4. CASE k \notin {i, j} /\ l \in {i, j}
      BY <3>1, <3>4, <1>1
    <3>5. CASE k \notin {i, j} /\ l \notin {i, j}
      BY <3>5, <2>1, <1>1 DEF Carries, IsApart
    <3>6. QED
      BY <3>2, <3>3, <3>4, <3>5
  <2>2. QED
    BY <2>1 DEF IsApart
<1>5. Carried(g) = S
  <2>1. \A o : (\E k \in DOMAIN g : o \in g[k].orders) => \E k \in DOMAIN f : o \in f[k].orders
    <3>1. SUFFICES ASSUME NEW o, NEW k \in DOMAIN g, o \in g[k].orders
                   PROVE  \E l \in DOMAIN f : o \in f[l].orders
      OBVIOUS
    <3>2. CASE k \in {i, j}
      <4>1. o \in a \/ o \in b
        BY <3>1, <3>2, <1>1
      <4>2. QED
        BY <4>1
    <3>3. CASE k \notin {i, j}
      BY <3>1, <3>3, <1>1
    <3>4. QED
      BY <3>2, <3>3
  <2>2. \A o : (\E k \in DOMAIN f : o \in f[k].orders) => \E k \in DOMAIN g : o \in g[k].orders
    <3>1. SUFFICES ASSUME NEW o, NEW k \in DOMAIN f, o \in f[k].orders
                   PROVE  \E l \in DOMAIN g : o \in g[l].orders
      OBVIOUS
    <3>2. CASE k \in {i, j}
      <4>1. o \in c \/ o \in d
        BY <3>1, <3>2
      <4>2. QED
        BY <4>1, <1>1
    <3>3. CASE k \notin {i, j}
      BY <3>1, <3>3, <1>1
    <3>4. QED
      BY <3>2, <3>3
  <2>3. QED
    BY <2>1, <2>2 DEF Carries, Carried
<1>6. ASSUME NEW L PROVE L \in LoadsOf(g) <=> L \in Exchange(LoadsOf(f), a, b, c, d)
  <2>1. ASSUME L \in LoadsOf(g) PROVE L \in Exchange(LoadsOf(f), a, b, c, d)
    <3>1. PICK k \in DOMAIN g : L # {} /\ L = g[k].orders
      BY <2>1, LoadOf, Zenon
    <3>2. CASE k \in {i, j}
      BY <3>1, <3>2, <1>1 DEF Exchange
    <3>3. CASE k \notin {i, j}
      <4>1. k \in DOMAIN f /\ L = f[k].orders
        BY <3>1, <3>3, <1>1
      <4>2. L \in LoadsOf(f)
        BY <4>1, <3>1, LoadOf
      <4>3. L \cap a = {} /\ L \cap b = {}
        BY <4>1, <3>3 DEF Carries, IsApart
      <4>4. L # a /\ L # b
        BY <4>3, <3>1
      <4>5. QED
        BY <4>2, <4>4, <3>1 DEF Exchange
    <3>4. QED
      BY <3>2, <3>3
  <2>2. ASSUME L \in Exchange(LoadsOf(f), a, b, c, d) PROVE L \in LoadsOf(g)
    <3>1. L # {} /\ (L = c \/ L = d \/ (L \in LoadsOf(f) /\ L # a /\ L # b))
      BY <2>2 DEF Exchange
    <3>2. CASE L = c \/ L = d
      <4>1. i \in DOMAIN g /\ j \in DOMAIN g
        BY <1>1
      <4>2. QED
        BY <3>1, <3>2, <4>1, <1>1, LoadOf
    <3>3. CASE L \in LoadsOf(f) /\ L # a /\ L # b
      <4>1. PICK k \in DOMAIN f : L = f[k].orders
        BY <3>3, LoadOf
      <4>2. k # i /\ k # j
        BY <4>1, <3>3
      <4>3. k \in DOMAIN g /\ L = g[k].orders
        BY <4>1, <4>2, <1>1
      <4>4. QED
        BY <4>3, <3>1, LoadOf
    <3>4. QED
      BY <3>1, <3>2, <3>3
  <2>3. QED
    BY <2>1, <2>2
<1>7. QED
  BY <1>1, <1>3, <1>4, <1>5, <1>6 DEF Carries

\* move_reduce_cost: what it keeps as the best solution is the best one so far or
\* the current one.
Keeps(d) == "best" \in DOMAIN d /\ d.best \in {best, fleet}

Reducing == INSTANCE Recursion WITH
  Start <- LAMBDA c : c, Pick <- LAMBDA c, S : Max(S),
  Step  <- LAMBDA c, o, d : Reduced(o, d),
  Claim <- LAMBDA c, S, d : Keeps(d)

\* save_if_best holds one of the two solutions.
LEMMA BestIsOneOfTwo ==
  ASSUME NEW f, NEW b
  PROVE  BestAfter(f, b) \in {f, b}
BY DEF BestAfter

\* Moving one order as move_reduce_cost does keeps every order in one vehicle.
LEMMA ReducedKeeps ==
  ASSUME NEW d, Keeps(d), NEW o
  PROVE  Keeps(Reduced(o, d))
<1>1. \A t : Keeps(AfterReducing(d, t, o))
  <2>1. SUFFICES ASSUME NEW t PROVE Keeps(AfterReducing(d, t, o))
    OBVIOUS
  <2>2. BestAfter(fleet, d.best) \in {best, fleet}
    BY BestIsOneOfTwo DEF Keeps
  <2>3. \A f : Keeps([from |-> f, to |-> t, best |-> BestAfter(fleet, d.best)])
    BY <2>2 DEF Keeps
  <2>4. \A f, u : Keeps([d EXCEPT !.from = f, !.to = u])
    BY DEF Keeps
  <2>5. QED
    BY <2>3, <2>4 DEF AfterReducing
<1>2. Reduced(o, d) = AfterReducing(d, Put(d.to, o), o)
  <2>1. UNION {{AfterReducing(e, t, o) : t \in {Put(e.to, o)}} : e \in {d}}
          = {AfterReducing(d, Put(d.to, o), o)}
    OBVIOUS
  <2>2. QED
    BY <2>1, TheOne DEF Reduced
<1>3. QED
  BY <1>1, <1>2

\* So does the loop over all the orders.
LEMMA AllReducedKeeps ==
  ASSUME NEW c, Keeps(c), NEW S \in SUBSET Nat, IsFiniteSet(S)
  PROVE  AllReduced(c, S).best \in {best, fleet}
<1>1. AllReduced(c, S) = Reducing!Folded(c, S)[S]
  BY DEF AllReduced, MapThenFoldSet, Reducing!Folded, Reducing!IsFolded
<1>2. Reducing!IsFiniteSet(S)
  BY DEF IsFiniteSet, Reducing!IsFiniteSet
<1>3. \A T \in SUBSET S : T # {} => Max(T) \in T
  <2>1. \A T \in SUBSET S : T \in SUBSET Nat /\ IsFiniteSet(T)
    BY FS_Subset
  <2>2. QED
    BY <2>1, MaxOfOrders
<1>4. \A T \in SUBSET S : \A x : Keeps(x) => Keeps(Reduced(Max(T), x))
  BY ReducedKeeps
<1>5. \A T \in SUBSET S : Keeps(Reducing!Folded(c, S)[T])
  BY <1>2, <1>3, <1>4, Reducing!FoldedClaim
<1>6. QED
  BY <1>1, <1>5 DEF Keeps

----------------------------------------------------------------------------
(***************************************************************************)
(* Lemmas: the vehicles of the call, which start empty.                    *)
(***************************************************************************)
IsIdle(s) == s \in Seq(ToSet(s)) /\ \A i \in DOMAIN s : HasOrders(s[i], {})

Flattening == INSTANCE Recursion WITH
  Start <- LAMBDA rows : rows[1], Pick <- LAMBDA rows, S : S,
  Step  <- LAMBDA rows, i, s : s \o rows[i],
  Claim <- LAMBDA rows, i, s : IsIdle(s)

\* Two rows of idle vehicles after one another.
LEMMA IdleConcat ==
  ASSUME NEW s, NEW t, IsIdle(s), IsIdle(t)
  PROVE  IsIdle(s \o t)
<1> DEFINE X == ToSet(s) \cup ToSet(t)
<1>1. /\ Len(s) \in Nat /\ DOMAIN s = 1..Len(s) /\ Len(t) \in Nat /\ DOMAIN t = 1..Len(t)
      /\ \A i \in DOMAIN s : s[i] \in X
      /\ \A i \in DOMAIN t : t[i] \in X
  BY DEF IsIdle, ToSet
<1> HIDE DEF X
<1>2. s \in Seq(X) /\ t \in Seq(X)
  BY <1>1 DEF IsIdle
<1>3. s \o t \in Seq(X) /\ DOMAIN (s \o t) = 1..Len(s) + Len(t)
  BY <1>1, <1>2
<1>4. \A i \in DOMAIN (s \o t) : HasOrders((s \o t)[i], {})
  <2>1. SUFFICES ASSUME NEW i \in DOMAIN (s \o t) PROVE HasOrders((s \o t)[i], {})
    OBVIOUS
  <2>2. CASE i <= Len(s)
    <3>1. i \in DOMAIN s /\ (s \o t)[i] = s[i]
      BY <2>2, <1>1, <1>2, <1>3
    <3>2. QED
      BY <3>1 DEF IsIdle
  <2>3. CASE i > Len(s)
    <3>1. i - Len(s) \in DOMAIN t /\ (s \o t)[i] = t[i - Len(s)]
      BY <2>3, <1>1, <1>2, <1>3
    <3>2. QED
      BY <3>1 DEF IsIdle
  <2>4. QED
    BY <2>2, <2>3, <1>1, <1>3
<1> DEFINE u == s \o t
<1>5. u \in Seq(X)
  BY <1>3
<1> HIDE DEF u
<1>6. u \in Seq(ToSet(u))
  BY <1>5 DEF ToSet
<1>7. QED
  BY <1>4, <1>6 DEF IsIdle, u

\* The copies of one row of the vehicles query are idle.
LEMMA IdleCopies ==
  ASSUME NEW n \in Int, NEW v, HasOrders(v, {})
  PROVE  IsIdle([k \in 1..n |-> v])
<1> DEFINE s == [k \in 1..n |-> v]
<1>1. \A k \in DOMAIN s : s[k] = v
  OBVIOUS
<1>2. \E m \in Nat : 1..n = 1..m
  <2>1. CASE n >= 0
    BY <2>1
  <2>2. CASE n < 0
    <3>1. 1..n = 1..0
      BY <2>2
    <3>2. QED
      BY <3>1
  <2>3. QED
    BY <2>1, <2>2
<1>3. PICK m \in Nat : s \in [1..m -> ToSet(s)]
  <2>1. PICK m \in Nat : 1..n = 1..m
    BY <1>2
  <2>2. \A k \in 1..m : s[k] \in ToSet(s)
    BY <2>1 DEF ToSet
  <2>3. s = [k \in 1..m |-> s[k]]
    BY <2>1
  <2> HIDE DEF s
  <2>4. s \in [1..m -> ToSet(s)]
    BY <2>2, <2>3
  <2>5. QED
    BY <2>4
<1> HIDE DEF s
<1>4. s \in Seq(ToSet(s))
  BY <1>3
<1>5. IsIdle(s)
  BY <1>1, <1>4 DEF IsIdle
<1>6. QED
  BY <1>5 DEF s

\* All the vehicles that a request brings are idle (fleet.cpp, build_fleet).
LEMMA TrucksAreIdle ==
  ASSUME problem \in Problems
  PROVE  IsIdle(Trucks)
<1> DEFINE Empty(v) == NewVehicle(v.id, v.capacity, v.pace, v.start, v.end)
           Ready(v) == [Empty(v) EXCEPT !.feasable = {o \in Orders : IsOrderFeasable(Empty(v), o)}]
           rows == [i \in DOMAIN Vehicles |-> [k \in 1..Vehicles[i].count |-> Ready(Vehicles[i])]]
<1>1. Trucks = FlattenSeq(rows)
  BY DEF Trucks
<1>2. PICK n \in Nat : n > 0 /\ DOMAIN Vehicles = 1..n /\ \A i \in 1..n : Vehicles[i].count \in Int
  <2> DEFINE first == problem.vehicles[1]
             phoney == [id |-> -1, capacity |-> Infinity, pace |-> first.pace, count |-> 1,
                        start |-> Anytime(first.start), end |-> Anytime(first.end)]
             f == problem.vehicles
  <2>1. Vehicles = Append(f, phoney) /\ phoney.count = 1
    BY DEF Vehicles
  <2>2. f \in Seq(ToSet(f)) /\ \A v \in ToSet(f) : v.count \in Int
    BY ProblemsAssumption
  <2> HIDE DEF phoney, f
  <2>3. /\ Len(f) \in Nat /\ DOMAIN f = 1..Len(f) /\ DOMAIN Append(f, phoney) = 1..Len(f) + 1
        /\ \A i \in DOMAIN f : Append(f, phoney)[i] = f[i]
        /\ Append(f, phoney)[Len(f) + 1] = phoney
    BY <2>2, Appended
  <2>4. \A i \in 1..Len(f) + 1 : i = Len(f) + 1 \/ i \in DOMAIN f
    BY <2>3
  <2>5. \A i \in DOMAIN f : f[i].count \in Int
    BY <2>2 DEF ToSet
  <2>6. \A i \in 1..Len(f) + 1 : Vehicles[i].count \in Int
    BY <2>1, <2>3, <2>4, <2>5
  <2>7. QED
    BY <2>1, <2>3, <2>6
<1>3. \A v : HasOrders(Ready(v), {})
  BY NewIsEmpty
<1>4. ASSUME NEW i \in 1..n PROVE IsIdle(rows[i])
  <2>1. rows[i] = [k \in 1..Vehicles[i].count |-> Ready(Vehicles[i])]
    BY <1>2
  <2> DEFINE m == Vehicles[i].count
             e == Ready(Vehicles[i])
  <2>2. m \in Int /\ HasOrders(e, {}) /\ rows[i] = [k \in 1..m |-> e]
    BY <2>1, <1>2, <1>3
  <2> HIDE DEF m, e, rows
  <2>3. IsIdle([k \in 1..m |-> e])
    BY <2>2, IdleCopies
  <2>4. QED
    BY <2>2, <2>3
<1>5. rows \in [1..n -> {rows[i] : i \in 1..n}]
  BY <1>2
<1> HIDE DEF rows
<1>6. Len(rows) = n /\ rows \in Seq({rows[i] : i \in 1..n})
  BY <1>5
<1>7. FlattenSeq(rows) = Flattening!Counted(rows, 1, Len(rows))[Len(rows)]
  <2>1. Len(rows) # 0
    BY <1>2, <1>6
  <2>2. QED
    BY <2>1 DEF FlattenSeq, Flattening!Counted, Flattening!IsCounted
<1>8. \A i \in 1..n : IsIdle(Flattening!Counted(rows, 1, n)[i])
  <2>1. IsIdle(rows[1])
    BY <1>2, <1>4
  <2>2. ASSUME NEW i \in 1 + 1..n, NEW s, IsIdle(s) PROVE IsIdle(s \o rows[i])
    BY <1>2, <1>4, <2>2, IdleConcat
  <2>3. 1 \in Int /\ n \in Int
    OBVIOUS
  <2>4. \A i \in 1 + 1..n : \A s : IsIdle(s) => IsIdle(s \o rows[i])
    BY <2>2
  <2>5. QED
    BY ONLY <2>1, <2>3, <2>4, Flattening!CountedClaim, Zenon
<1>9. QED
  BY <1>1, <1>2, <1>6, <1>7, <1>8

----------------------------------------------------------------------------
(***************************************************************************)
(* The steps.  Each keeps the invariant and is one of OrderAssignment, or  *)
(* changes nothing of it.                                                  *)
(***************************************************************************)
Loads == LoadsOf(Append(fleet, truck))

Mapped == [Assignment!Next]_Assignment!vars

\* The orders of the request are numbers, and finitely many.
LEMMA OrdersAreNumbers ==
  ASSUME problem \in Problems
  PROVE  Orders \in SUBSET Nat /\ IsFiniteSet(Orders) /\ Orders # {}
BY ProblemsAssumption DEF Orders

\* What leaves loads, waiting orders and phase alone is a stuttering step of OrderAssignment.
LEMMA StutterMaps ==
  ASSUME problem' = problem, unassigned' = unassigned, Loads' = Loads, LoadsOf(best') = LoadsOf(best)
  PROVE  Mapped
BY DEF Mapped, Assignment!vars, Loads, Orders

\* A fleet that carries the same loads is a stuttering step of OrderAssignment.
LEMMA KeepMaps ==
  ASSUME problem' = problem, unassigned = {}, unassigned' = unassigned, Loads' = Loads,
         LoadsOf(best') = Loads
  PROVE  Mapped
BY DEF Mapped, Assignment!Next, Assignment!Keep, Loads, Orders

\* While orders are assigned nothing is kept, afterwards the truck is empty.
LEMMA NoVehicleIsEmpty == HasOrders(NoVehicle, {})
BY DEF HasOrders, NoVehicle

\* While the optimiser works every load of the fleet is one of the abstract loads.
LEMMA OptimizingLoads ==
  ASSUME IInv, pc \in Optimizing
  PROVE  Loads = LoadsOf(fleet) /\ fleet \in Seq(ToSet(fleet)) /\ unassigned = {} /\ truck = NoVehicle
<1>1. fleet \in Seq(ToSet(fleet)) /\ truck = NoVehicle /\ unassigned = {}
  BY DEF IInv, OptimizingInv, Carries, IsFleet
<1>2. QED
  BY <1>1, NoVehicleIsEmpty, EmptyAtTheEnd DEF Loads

\* The same of the next state.
LEMMA OptimizingLoadsNext ==
  ASSUME truck' = NoVehicle, Carries(fleet', Orders')
  PROVE  Loads' = LoadsOf(fleet')
<1>1. fleet' \in Seq(ToSet(fleet'))
  BY DEF Carries, IsFleet
<1>2. QED
  BY <1>1, NoVehicleIsEmpty, EmptyAtTheEnd DEF Loads

\* construct: the way to build the solution is chosen, nothing is carried.
LEMMA ConstructKeeps ==
  ASSUME IInv, Construct
  PROVE  IInv' /\ Mapped
<1>1. /\ pc = "start" /\ pc' \in {"assign", "error"} /\ problem' = problem
      /\ (trucks' = Trucks /\ unused' = DOMAIN Trucks) \/ UNCHANGED <<trucks, unused>>
      /\ UNCHANGED <<unassigned, truck, left, fleet, best, at, copies>>
  BY DEF Construct
<1>2. Orders' = Orders
  BY <1>1 DEF Orders
<1>3. IsIdle(Trucks)
  BY TrucksAreIdle DEF IInv, TypeOK
<1>4. TypeOK'
  BY <1>1, <1>3 DEF IInv, TypeOK, IsIdle, Filling, Optimizing
<1>5. FillingInv'
  BY <1>1, <1>2 DEF IInv, FillingInv, Filling
<1>6. OptimizingInv' /\ LoopInv'
  BY <1>1 DEF OptimizingInv, LoopInv, Optimizing
<1>7. Mapped
  BY <1>1, StutterMaps DEF Loads
<1>8. QED
  BY <1>4, <1>5, <1>6, <1>7 DEF IInv

\* get_truck: the vehicle in hand is put away, and another one is taken.
LEMMA TakeTruckKeeps ==
  ASSUME IInv, TakeTruck
  PROVE  IInv' /\ Mapped
<1> DEFINE able == {i \in unused : Min(unassigned) \in trucks[i].feasable}
<1>1. /\ pc = "assign" /\ problem' = problem
      /\ UNCHANGED <<problem, trucks, unassigned, fleet, best, at, copies>>
      /\ \/ pc' = "failed" /\ UNCHANGED <<unused, truck, left>>
         \/ /\ able # {} /\ pc' = "fill"
            /\ unused' = UnusedAfter(Min(able))
            /\ truck' = trucks[Min(able)]
            /\ left' \subseteq unassigned
  BY DEF TakeTruck
<1>2. Orders' = Orders
  BY <1>1 DEF Orders
<1>3. truck = NoVehicle /\ fleet \in Seq(ToSet(fleet)) /\ Carries(Append(fleet, truck), Orders \ unassigned)
  BY <1>1 DEF IInv, FillingInv, Filling
<1>4. HasOrders(truck', {})
  <2>1. CASE truck' = truck
    BY <2>1, <1>3, NoVehicleIsEmpty
  <2>2. CASE able # {} /\ truck' = trucks[Min(able)]
    <3>1. able \in SUBSET Nat /\ able \subseteq DOMAIN trucks
      BY DEF IInv, TypeOK
    <3> HIDE DEF able
    <3>2. Min(able) \in DOMAIN trucks
      BY <3>1, <2>2, MinOfOrders
    <3>3. QED
      BY <2>2, <3>2 DEF IInv, TypeOK
  <2>3. QED
    BY <2>1, <2>2, <1>1
<1>5. /\ LoadsOf(Append(fleet, truck')) = LoadsOf(fleet) /\ LoadsOf(Append(fleet, truck)) = LoadsOf(fleet)
      /\ Carries(Append(fleet, truck'), Orders \ unassigned)
  BY <1>3, <1>4, NoVehicleIsEmpty, EmptyAtTheEnd
<1>6. TypeOK'
  <2>1. UnusedAfter(Min(able)) \subseteq unused
    BY DEF UnusedAfter
  <2> HIDE DEF able
  <2>2. unused' \subseteq unused
    BY <1>1, <2>1
  <2>3. QED
    BY <1>1, <2>2 DEF IInv, TypeOK, Filling, Optimizing
<1>7. FillingInv'
  BY <1>1, <1>2, <1>3, <1>5 DEF IInv, FillingInv, Filling
<1>8. OptimizingInv' /\ LoopInv'
  BY <1>1 DEF OptimizingInv, LoopInv, Optimizing
<1>9. Mapped
  BY <1>1, <1>5, StutterMaps DEF Loads
<1>10. QED
  BY <1>6, <1>7, <1>8, <1>9 DEF IInv

\* The vehicle at the end of the fleet is replaced by one with the same orders, or
\* with one order more.
LEMMA LastReplaced ==
  ASSUME NEW f, f \in Seq(ToSet(f)), NEW v, NEW S, Carries(Append(f, v), S), NEW w
  PROVE  /\ HasOrders(v, v.orders)
         /\ v.orders \subseteq S
         /\ HasOrders(w, v.orders) =>
              Carries(Append(f, w), S) /\ LoadsOf(Append(f, w)) = LoadsOf(Append(f, v))
         /\ \A o : HasOrders(w, v.orders \cup {o}) /\ o \notin S =>
              /\ Carries(Append(f, w), S \cup {o})
              /\ LoadsOf(Append(f, w)) = (LoadsOf(Append(f, v)) \ {v.orders}) \cup {v.orders \cup {o}}
<1> DEFINE g == Append(f, v)
           h == Append(f, w)
           m == Len(f) + 1
<1>1. /\ g \in Seq(ToSet(g)) /\ h \in Seq(ToSet(h))
      /\ \A i \in DOMAIN f : i \in DOMAIN g /\ i \in DOMAIN h /\ g[i] = f[i] /\ h[i] = f[i] /\ i # m
      /\ m \in DOMAIN g /\ m \in DOMAIN h /\ g[m] = v /\ h[m] = w
      /\ \A i \in DOMAIN g : i = m \/ i \in DOMAIN f
      /\ \A i \in DOMAIN h : i = m \/ i \in DOMAIN f
  <2>1. /\ g \in Seq(ToSet(g)) /\ Len(f) \in Nat /\ DOMAIN f = 1..Len(f) /\ DOMAIN g = 1..m
        /\ \A i \in DOMAIN f : g[i] = f[i]
        /\ g[m] = v
    BY Appended
  <2>2. /\ h \in Seq(ToSet(h)) /\ DOMAIN h = 1..m
        /\ \A i \in DOMAIN f : h[i] = f[i]
        /\ h[m] = w
    BY Appended
  <2> HIDE DEF g, h
  <2>3. QED
    BY <2>1, <2>2
<1>2. Carries(g, S)
  OBVIOUS
<1> HIDE DEF g, h
<1>3. HasOrders(v, v.orders) /\ v.orders \subseteq S
  BY <1>1, <1>2 DEF Carries, IsFleet, HasOrders, Carried
<1>4. ASSUME HasOrders(w, v.orders) PROVE Carries(h, S) /\ LoadsOf(h) = LoadsOf(g)
  <2>1. \A i \in DOMAIN f : h[i].orders = g[i].orders
    BY <1>1
  <2>2. DOMAIN h = DOMAIN g /\ \A i \in DOMAIN h : h[i].orders = g[i].orders /\ HasOrders(h[i], h[i].orders)
    BY <1>1, <1>2, <1>4, <2>1 DEF HasOrders, Carries, IsFleet
  <2>3. IsFleet(h) /\ IsApart(h) /\ Carried(h) = S
    BY <2>2, <1>1, <1>2 DEF Carries, IsFleet, IsApart, Carried
  <2>4. \A L : L \in LoadsOf(h) <=> L \in LoadsOf(g)
    BY <2>2, LoadOf
  <2>5. QED
    BY <2>3, <2>4 DEF Carries
<1>5. ASSUME NEW o, HasOrders(w, v.orders \cup {o}), o \notin S
      PROVE  /\ Carries(h, S \cup {o})
             /\ LoadsOf(h) = (LoadsOf(g) \ {v.orders}) \cup {v.orders \cup {o}}
  <2>1. /\ \A i \in DOMAIN f : h[i].orders = g[i].orders /\ o \notin g[i].orders
        /\ h[m].orders = g[m].orders \cup {o} /\ o \notin g[m].orders
    BY <1>1, <1>2, <1>5 DEF HasOrders, Carries, Carried
  <2>2. IsFleet(h)
    BY <1>1, <1>2, <1>5 DEF Carries, IsFleet, HasOrders
  <2>3. IsApart(h)
    <3>1. SUFFICES ASSUME NEW i \in DOMAIN h, NEW j \in DOMAIN h, i # j
                   PROVE  h[i].orders \cap h[j].orders = {}
      BY DEF IsApart
    <3>2. g[i].orders \cap g[j].orders = {}
      BY <1>1, <1>2, <3>1 DEF Carries, IsApart
    <3>3. CASE i \in DOMAIN f /\ j \in DOMAIN f
      BY <3>2, <3>3, <2>1
    <3>4. CASE i = m /\ j \in DOMAIN f
      BY <3>2, <3>4, <2>1
    <3>5. CASE i \in DOMAIN f /\ j = m
      BY <3>2, <3>5, <2>1
    <3>6. QED
      BY <3>1, <3>3, <3>4, <3>5, <1>1
  <2>4. Carried(h) = S \cup {o}
    <3>1. \A p : p \in Carried(h) <=> \E i \in DOMAIN h : p \in h[i].orders
      BY DEF Carried
    <3>2. \A p : p \in S <=> \E i \in DOMAIN g : p \in g[i].orders
      BY <1>2 DEF Carries, Carried
    <3>3. ASSUME NEW p \in Carried(h) PROVE p \in S \cup {o}
      <4>1. PICK i \in DOMAIN h : p \in h[i].orders
        BY <3>1
      <4>2. p = o \/ (i \in DOMAIN g /\ p \in g[i].orders)
        BY <4>1, <1>1, <2>1
      <4>3. QED
        BY <4>2, <3>2
    <3>4. ASSUME NEW p \in S PROVE p \in Carried(h)
      <4>1. PICK i \in DOMAIN g : p \in g[i].orders
        BY <3>2
      <4>2. i \in DOMAIN h /\ p \in h[i].orders
        BY <4>1, <1>1, <2>1
      <4>3. QED
        BY <4>2, <3>1
    <3>5. o \in Carried(h)
      BY <1>1, <2>1, <3>1
    <3>6. QED
      BY <3>3, <3>4, <3>5
  <2>5. ASSUME NEW L, L \in LoadsOf(h)
        PROVE  L \in (LoadsOf(g) \ {v.orders}) \cup {v.orders \cup {o}}
    <3>1. PICK i \in DOMAIN h : L # {} /\ L = h[i].orders
      BY <2>5, LoadOf
    <3>2. CASE i = m
      BY <3>1, <3>2, <2>1, <1>1
    <3>3. CASE i \in DOMAIN f
      <4>1. i \in DOMAIN g /\ L = g[i].orders
        BY <3>1, <3>3, <2>1, <1>1
      <4>2. L \in LoadsOf(g)
        BY <4>1, <3>1, LoadOf
      <4>3. L \cap v.orders = {}
        BY <4>1, <3>3, <1>1, <1>2 DEF Carries, IsApart
      <4>4. QED
        BY <4>2, <4>3, <3>1
    <3>4. QED
      BY <3>2, <3>3, <1>1
  <2>6. ASSUME NEW L, L \in (LoadsOf(g) \ {v.orders}) \cup {v.orders \cup {o}}
        PROVE  L \in LoadsOf(h)
    <3>1. CASE L = v.orders \cup {o}
      <4>1. L # {} /\ L = h[m].orders
        BY <3>1, <2>1, <1>1
      <4>2. QED
        BY <4>1, <1>1, LoadOf
    <3>2. CASE L \in LoadsOf(g) /\ L # v.orders
      <4>1. PICK i \in DOMAIN g : L # {} /\ L = g[i].orders
        BY <3>2, LoadOf
      <4>2. i \in DOMAIN f
        BY <4>1, <3>2, <1>1
      <4>3. i \in DOMAIN h /\ L = h[i].orders
        BY <4>1, <4>2, <2>1, <1>1
      <4>4. QED
        BY <4>1, <4>3, LoadOf
    <3>3. QED
      BY <2>6, <3>1, <3>2
  <2>7. QED
    BY <2>2, <2>3, <2>4, <2>5, <2>6 DEF Carries
<1>6. QED
  BY <1>3, <1>4, <1>5 DEF g, h

\* An order from those waiting to the vehicle in hand is a Load of OrderAssignment.
LEMMA LoadMaps ==
  ASSUME problem' = problem, NEW o \in unassigned, unassigned' = unassigned \ {o},
         Loads' = (Loads \ {truck.orders}) \cup {truck.orders \cup {o}},
         truck.orders \in Loads \cup {{}}, best' = best
  PROVE  Mapped
BY DEF Mapped, Assignment!Next, Assignment!Load, Loads, Orders

\* One turn of do_while_feasable.
LEMMA PlaceOrderKeeps ==
  ASSUME IInv, PlaceOrder
  PROVE  IInv' /\ Mapped
<1>0. /\ Orders \in SUBSET Nat /\ IsFiniteSet(Orders) /\ pc = "fill" /\ left # {}
      /\ left \subseteq unassigned /\ unassigned \subseteq Orders
      /\ fleet \in Seq(ToSet(fleet)) /\ Carries(Append(fleet, truck), Orders \ unassigned)
  BY OrdersAreNumbers DEF IInv, TypeOK, FillingInv, Filling, PlaceOrder
<1>1. PICK o : o = NextOrder
  OBVIOUS
<1>2. PICK v : v = Filled(o)
  OBVIOUS
<1>3. /\ UNCHANGED <<problem, trucks, unused, fleet, best, at, copies>>
      /\ IF ~ IsFeasable(v.path)
         THEN /\ pc' = IF Cardinality(v.orders) = 1 THEN "failed" ELSE pc
              /\ truck' = EraseOrder(v, o) /\ left' = left \ {o} /\ UNCHANGED unassigned
         ELSE IF o \in v.orders
         THEN /\ truck' = v /\ left' = LeftAfter(o) /\ unassigned' = unassigned \ {o}
              /\ UNCHANGED pc
         ELSE left' = left \ {o} /\ UNCHANGED <<pc, truck, unassigned>>
  BY <1>1, <1>2 DEF PlaceOrder
<1>4. o \in left /\ o \in unassigned
  <2>1. left \in SUBSET Nat /\ IsFiniteSet(left)
    BY <1>0, FS_Subset
  <2>2. QED
    BY <1>0, <1>1, <2>1, NextOrderIsLeft
<1>5. HasOrders(truck, truck.orders) /\ truck.orders \subseteq Orders \ unassigned
  BY <1>0, LastReplaced
<1>6. Takes(v, truck, o)
  BY <1>2, <1>5, FilledTakes
<1>7. Orders' = Orders
  BY <1>3 DEF Orders
<1>8. TypeOK'
  BY <1>0, <1>3 DEF IInv, TypeOK, Filling, Optimizing
<1>9. pc' \in {"fill", "failed"}
  BY <1>0, <1>3
<1>10. OptimizingInv' /\ LoopInv'
  BY <1>9 DEF OptimizingInv, LoopInv, Optimizing
<1>11. CASE unassigned' = unassigned /\ HasOrders(truck', truck.orders) /\ left' \subseteq left
  <2>1. /\ Carries(Append(fleet, truck'), Orders \ unassigned)
        /\ LoadsOf(Append(fleet, truck')) = LoadsOf(Append(fleet, truck))
    BY <1>0, <1>11, LastReplaced
  <2>2. FillingInv'
    BY <1>0, <1>3, <1>7, <1>9, <1>11, <2>1 DEF FillingInv
  <2>3. Mapped
    BY <1>3, <1>11, <2>1, StutterMaps DEF Loads
  <2>4. QED
    BY <1>8, <1>10, <2>2, <2>3 DEF IInv
<1>12. CASE /\ unassigned' = unassigned \ {o} /\ HasOrders(truck', truck.orders \cup {o})
            /\ left' \subseteq left \ {o}
  <2>1. /\ Carries(Append(fleet, truck'), (Orders \ unassigned) \cup {o})
        /\ LoadsOf(Append(fleet, truck')) = (Loads \ {truck.orders}) \cup {truck.orders \cup {o}}
    <3>1. o \notin Orders \ unassigned
      BY <1>4
    <3> DEFINE S == Orders \ unassigned
    <3>2. o \notin S /\ Carries(Append(fleet, truck), S) /\ fleet \in Seq(ToSet(fleet))
      BY <3>1, <1>0
    <3>3. HasOrders(truck', truck.orders \cup {o})
      BY <1>12
    <3> HIDE DEF S
    <3>4. /\ Carries(Append(fleet, truck'), S \cup {o})
          /\ LoadsOf(Append(fleet, truck'))
               = (LoadsOf(Append(fleet, truck)) \ {truck.orders}) \cup {truck.orders \cup {o}}
      BY <3>2, <3>3, LastReplaced
    <3>5. QED
      BY <3>4 DEF S, Loads
  <2>2. (Orders \ unassigned) \cup {o} = Orders \ unassigned'
    BY <1>0, <1>4, <1>12
  <2>3. FillingInv'
    BY <1>0, <1>3, <1>7, <1>9, <1>12, <2>1, <2>2 DEF FillingInv
  <2>4. truck.orders \in Loads \cup {{}}
    <3>1. /\ Len(fleet) + 1 \in DOMAIN Append(fleet, truck)
          /\ Append(fleet, truck)[Len(fleet) + 1] = truck
      BY <1>0, Appended
    <3>2. truck.orders # {} => truck.orders \in LoadsOf(Append(fleet, truck))
      BY <3>1, LoadOf
    <3>3. QED
      BY <3>2 DEF Loads
  <2>5. Mapped
    <3>1. Loads' = (Loads \ {truck.orders}) \cup {truck.orders \cup {o}}
      BY <2>1, <1>3 DEF Loads
    <3>2. QED
      BY <3>1, <1>3, <1>4, <1>12, <2>4, LoadMaps
  <2>6. QED
    BY <1>8, <1>10, <2>3, <2>5 DEF IInv
<1>13. CASE ~ IsFeasable(v.path)
  <2>1. HasOrders(v, v.orders) /\ v.orders \ {o} = truck.orders
    BY <1>4, <1>5, <1>6 DEF Takes, HasOrders
  <2>2. HasOrders(truck', truck.orders)
    BY <1>3, <1>13, <2>1, EraseDrops
  <2>3. QED
    BY <1>3, <1>11, <1>13, <2>2
<1>14. CASE IsFeasable(v.path) /\ o \in v.orders
  <2>1. HasOrders(v, truck.orders \cup {o})
    BY <1>4, <1>5, <1>6, <1>14 DEF Takes, HasOrders
  <2>2. LeftAfter(o) \subseteq left \ {o}
    BY <1>4, LeftAfterIsLeft
  <2>3. QED
    BY <1>3, <1>12, <1>14, <2>1, <2>2
<1>15. CASE IsFeasable(v.path) /\ o \notin v.orders
  BY <1>3, <1>5, <1>11, <1>15
<1>16. QED
  BY <1>13, <1>14, <1>15

\* The vehicle that takes no more is put into the solution.
LEMMA ParkTruckKeeps ==
  ASSUME IInv, ParkTruck
  PROVE  IInv' /\ Mapped
<1>1. /\ pc = "fill" /\ left = {} /\ truck' = NoVehicle
      /\ UNCHANGED <<problem, trucks, unused, unassigned, left, best, at, copies>>
      /\ IF truck.orders = {} THEN pc' = "failed" /\ UNCHANGED fleet
                              ELSE pc' = "assign" /\ fleet' = Append(fleet, truck)
  BY DEF ParkTruck
<1>2. /\ unassigned \subseteq Orders /\ fleet \in Seq(ToSet(fleet))
      /\ Carries(Append(fleet, truck), Orders \ unassigned)
  BY <1>1 DEF IInv, FillingInv, Filling
<1>3. Orders' = Orders
  BY <1>1 DEF Orders
<1>4. /\ fleet' \in Seq(ToSet(fleet'))
      /\ LoadsOf(fleet') = Loads /\ Carries(fleet', Orders \ unassigned)
  <2>1. CASE truck.orders = {}
    <3>1. HasOrders(truck, {})
      BY <1>2, <2>1, LastReplaced
    <3>2. QED
      BY <1>1, <1>2, <2>1, <3>1, EmptyAtTheEnd DEF Loads
  <2>2. CASE truck.orders # {}
    <3>1. fleet' = Append(fleet, truck)
      BY <1>1, <2>2
    <3>2. Append(fleet, truck) \in Seq(ToSet(Append(fleet, truck)))
      BY <1>2, Appended
    <3>3. QED
      BY <3>1, <3>2, <1>2 DEF Loads
  <2>3. QED
    BY <2>1, <2>2
<1>5. Loads' = Loads /\ Carries(Append(fleet', truck'), Orders \ unassigned)
  BY <1>1, <1>4, NoVehicleIsEmpty, EmptyAtTheEnd DEF Loads
<1>6. TypeOK'
  BY <1>1 DEF IInv, TypeOK, Filling, Optimizing
<1>7. FillingInv'
  BY <1>1, <1>2, <1>3, <1>4, <1>5 DEF FillingInv, Filling
<1>8. OptimizingInv' /\ LoopInv'
  BY <1>1 DEF OptimizingInv, LoopInv, Optimizing
<1>9. Mapped
  BY <1>1, <1>5, StutterMaps
<1>10. QED
  BY <1>6, <1>7, <1>8, <1>9 DEF IInv

\* A vehicle carries something as long as there are orders.
LEMMA FleetIsNotEmpty ==
  ASSUME NEW f, Carries(f, Orders), problem \in Problems
  PROVE  Len(f) \in Nat /\ Len(f) > 0 /\ DOMAIN f = 1..Len(f) /\ 1 \in DOMAIN f
<1>1. f \in Seq(ToSet(f)) /\ Carried(f) # {}
  BY OrdersAreNumbers DEF Carries, IsFleet
<1>2. Len(f) \in Nat /\ DOMAIN f = 1..Len(f)
  BY <1>1
<1>3. Len(f) # 0
  BY <1>1, <1>2 DEF Carried
<1>4. QED
  BY <1>2, <1>3

\* The optimiser is called with the solution.
LEMMA OptimizeKeeps ==
  ASSUME IInv, Optimize
  PROVE  IInv' /\ Mapped
<1>1. /\ pc = "assign" /\ unassigned = {} /\ best' = fleet /\ fleet' \in SortedBySize(fleet)
      /\ at' = [from |-> 1, to |-> 0] /\ pc' = "decrease"
      /\ UNCHANGED <<problem, trucks, unused, unassigned, truck, left, copies>>
  BY DEF Optimize
<1>2. /\ truck = NoVehicle /\ left = {} /\ fleet \in Seq(ToSet(fleet))
      /\ Carries(Append(fleet, truck), Orders)
  BY <1>1 DEF IInv, FillingInv, Filling
<1>3. Carries(fleet, Orders) /\ Loads = LoadsOf(fleet)
  BY <1>2, NoVehicleIsEmpty, EmptyAtTheEnd DEF Loads
<1>4. Carries(fleet', Orders) /\ LoadsOf(fleet') = Loads
  BY <1>1, <1>3, SortedCarries
<1>5. Orders' = Orders /\ problem' \in Problems
  BY <1>1 DEF Orders, IInv, TypeOK
<1>6. Loads' = Loads
  BY <1>1, <1>2, <1>4, <1>5, OptimizingLoadsNext
<1>7. TypeOK'
  BY <1>1 DEF IInv, TypeOK, Filling, Optimizing
<1>8. FillingInv' /\ OptimizingInv'
  BY <1>1, <1>2, <1>3, <1>4, <1>5 DEF FillingInv, OptimizingInv, Filling, Optimizing
<1>9. 1 \in DOMAIN fleet'
  <2>1. problem \in Problems
    BY DEF IInv, TypeOK
  <2>2. QED
    BY <1>4, <2>1, FleetIsNotEmpty
<1>10. LoopInv'
  BY <1>1, <1>2, <1>9 DEF LoopInv
<1>11. Mapped
  BY <1>1, <1>3, <1>6, KeepMaps
<1>12. QED
  BY <1>7, <1>8, <1>10, <1>11 DEF IInv

\* A vehicle of the fleet carries orders of the request and no other vehicle does.
LEMMA VehicleOfFleet ==
  ASSUME IInv, pc \in Optimizing, NEW i \in DOMAIN fleet
  PROVE  /\ HasOrders(fleet[i], fleet[i].orders)
         /\ fleet[i].orders \subseteq Orders
         /\ fleet[i].orders \in Loads \cup {{}}
         /\ Carries(fleet, Orders) /\ Carries(best, Orders) /\ problem \in Problems
         /\ DOMAIN fleet \subseteq Nat \ {0}
<1>1. Carries(fleet, Orders) /\ Carries(best, Orders) /\ problem \in Problems
  BY DEF IInv, OptimizingInv, TypeOK
<1>2. fleet[i].orders \subseteq Orders /\ HasOrders(fleet[i], fleet[i].orders)
  BY <1>1 DEF Carries, Carried, IsFleet
<1>3. Loads = LoadsOf(fleet) /\ fleet \in Seq(ToSet(fleet))
  BY OptimizingLoads
<1>4. fleet[i].orders # {} => fleet[i].orders \in Loads
  BY <1>3, LoadOf
<1>5. QED
  BY <1>1, <1>2, <1>3, <1>4

\* One order changes from the vehicle at i to the one at j.
LEMMA OrderMoves ==
  ASSUME IInv, pc \in Optimizing, NEW i \in DOMAIN fleet, NEW j \in DOMAIN fleet, i # j,
         NEW o \in fleet[i].orders, NEW x, NEW y,
         HasOrders(x, fleet[i].orders \ {o}), HasOrders(y, fleet[j].orders \cup {o}),
         IsRewritten(fleet', fleet, i, j, x, y),
         UNCHANGED <<problem, unassigned, truck, best>>
  PROVE  Carries(fleet', Orders) /\ DOMAIN fleet' = DOMAIN fleet /\ Mapped
<1> DEFINE a == fleet[i].orders
           b == fleet[j].orders
<1>1. Carries(fleet, Orders) /\ a \in Loads /\ b \in Loads \cup {{}}
  BY VehicleOfFleet
<1>2. a \cap b = {}
  BY <1>1 DEF Carries, IsApart
<1>3. (a \ {o}) \cup (b \cup {o}) = a \cup b /\ (a \ {o}) \cap (b \cup {o}) = {} /\ a # b
  BY <1>2
<1>4. Loads = LoadsOf(fleet) /\ unassigned = {} /\ truck' = NoVehicle
  BY OptimizingLoads
<1>5. /\ Carries(fleet', Orders) /\ DOMAIN fleet' = DOMAIN fleet
      /\ LoadsOf(fleet') = Exchange(Loads, a, b, a \ {o}, b \cup {o})
  BY <1>1, <1>3, <1>4, Rewritten
<1>6. Loads' = Exchange(Loads, a, b, a \ {o}, b \cup {o})
  <2>1. Orders' = Orders
    BY DEF Orders
  <2>2. Loads' = LoadsOf(fleet')
    BY <2>1, <1>4, <1>5, OptimizingLoadsNext
  <2>3. QED
    BY <2>2, <1>5
<1>7. Assignment!Move
  <2>1. a \in Loads /\ b \in Loads \cup {{}} /\ o \in a /\ a # b
    BY <1>1, <1>3
  <2> HIDE DEF a, b
  <2>2. /\ \E p \in Loads, q \in Loads \cup {{}} : \E r \in p :
             p # q /\ Loads' = Exchange(Loads, p, q, p \ {r}, q \cup {r})
    BY <2>1, <1>6
  <2>3. QED
    BY <2>2, <1>4 DEF Assignment!Move, Assignment!Exchanged, Exchange, Loads, Orders
<1>8. QED
  BY <1>5, <1>7 DEF Mapped, Assignment!Next

\* decrease_truck moves one order to the first vehicle that takes it.
LEMMA DecreaseOrderKeeps ==
  ASSUME IInv, DecreaseOrder
  PROVE  IInv' /\ Mapped
<1>0. /\ pc = "decrease" /\ pc \in Optimizing /\ left # {}
      /\ at.from \in DOMAIN fleet /\ left \subseteq fleet[at.from].orders
  BY DEF DecreaseOrder, IInv, LoopInv, Optimizing
<1> DEFINE i == at.from
           o == Min(left)
           takers == {j \in 1..i - 1 : o \in Insert(fleet[j], o).orders}
<1>3. /\ left' = left \ {o}
      /\ UNCHANGED <<problem, pc, trucks, unused, unassigned, truck, best, at, copies>>
      /\ IF takers = {} THEN UNCHANGED fleet
         ELSE fleet' = [fleet EXCEPT ![Min(takers)] = Insert(@, o), ![i] = EraseOrder(@, o)]
  <2>1. /\ UNCHANGED <<problem, pc, trucks, unused, unassigned, truck, best, at, copies>>
        /\ left' = left \ {o}
        /\ \E t \in {takers} :
             IF t = {} THEN UNCHANGED fleet
             ELSE fleet' = [fleet EXCEPT ![Min(t)] = Insert(@, o), ![i] = EraseOrder(@, o)]
    BY ZenonT(60) DEF DecreaseOrder
  <2> HIDE DEF takers, o, i
  <2>2. QED
    BY <2>1
<1>4. /\ Orders \in SUBSET Nat /\ Carries(fleet, Orders) /\ Carries(best, Orders)
      /\ i \in DOMAIN fleet /\ i \in Nat /\ HasOrders(fleet[i], fleet[i].orders)
      /\ left \subseteq Orders /\ DOMAIN fleet = 1..Len(fleet) /\ Len(fleet) \in Nat
  <2>1. Carries(fleet, Orders)
    BY <1>0, VehicleOfFleet
  <2>2. DOMAIN fleet = 1..Len(fleet) /\ Len(fleet) \in Nat
    BY <2>1 DEF Carries, IsFleet
  <2>3. QED
    BY <2>2, <1>0, VehicleOfFleet, OrdersAreNumbers
<1>5. o \in left /\ o \in fleet[i].orders
  <2>1. left \in SUBSET Nat
    BY <1>4
  <2>2. QED
    BY <2>1, <1>0, MinOfOrders
<1>i. i = at.from
  OBVIOUS
<1> HIDE DEF i, o
<1>6. Orders' = Orders
  BY <1>3 DEF Orders
<1>7. TypeOK' /\ FillingInv'
  BY <1>0, <1>3 DEF IInv, TypeOK, FillingInv, Filling, Optimizing
<1>8. CASE takers = {}
  <2>1. OptimizingInv'
    BY <1>0, <1>3, <1>6, <1>8 DEF IInv, OptimizingInv
  <2>2. LoopInv'
    BY <1>0, <1>i, <1>3, <1>8 DEF IInv, LoopInv
  <2>3. Mapped
    BY <1>3, <1>8, StutterMaps DEF Loads
  <2>4. QED
    BY <1>7, <2>1, <2>2, <2>3 DEF IInv
<1>9. CASE takers # {}
  <2>1. PICK j : j = Min(takers)
    OBVIOUS
  <2>2. j \in 1..i - 1 /\ o \in Insert(fleet[j], o).orders
    <3>1. takers \in SUBSET Nat
      BY <1>4
    <3>2. j \in takers
      BY <2>1, <3>1, <1>9, MinOfOrders
    <3>3. QED
      BY <3>2
  <2>3. j \in DOMAIN fleet /\ i # j
    BY <2>2, <1>4
  <2>4. HasOrders(fleet[j], fleet[j].orders) /\ o \notin fleet[j].orders
    <3>1. HasOrders(fleet[j], fleet[j].orders)
      BY <2>3, <1>0, VehicleOfFleet
    <3>2. fleet[i].orders \cap fleet[j].orders = {}
      BY <1>4, <2>3 DEF Carries, IsApart
    <3>3. QED
      BY <3>1, <3>2, <1>5
  <2>5. Takes(Insert(fleet[j], o), fleet[j], o)
    BY <2>4, InsertTakes
  <2>6. HasOrders(Insert(fleet[j], o), fleet[j].orders \cup {o})
    BY <2>2, <2>4, <2>5 DEF Takes, HasOrders
  <2>7. HasOrders(EraseOrder(fleet[i], o), fleet[i].orders \ {o})
    BY <1>4, EraseDrops
  <2>8. IsRewritten(fleet', fleet, i, j, EraseOrder(fleet[i], o), Insert(fleet[j], o))
    <3>1. fleet' = [fleet EXCEPT ![j] = Insert(@, o), ![i] = EraseOrder(@, o)]
      BY <1>3, <1>9, <2>1
    <3>2. fleet' = [fleet EXCEPT ![i] = EraseOrder(fleet[i], o), ![j] = Insert(fleet[j], o)]
      BY <3>1, <2>3
    <3>3. QED
      BY <3>2 DEF IsRewritten
  <2>9. Carries(fleet', Orders) /\ DOMAIN fleet' = DOMAIN fleet /\ Mapped
    BY <1>0, <1>3, <1>4, <1>5, <2>3, <2>6, <2>7, <2>8, OrderMoves
  <2>10. OptimizingInv'
    BY <1>0, <1>3, <1>6, <2>9 DEF IInv, OptimizingInv
  <2>11. fleet'[i].orders = fleet[i].orders \ {o}
    BY <2>7, <2>8, <2>3, <1>4 DEF IsRewritten, HasOrders
  <2>12. LoopInv'
    BY <1>0, <1>i, <1>3, <2>9, <2>11 DEF LoopInv
  <2>13. QED
    BY <1>7, <2>9, <2>10, <2>12 DEF IInv
<1>10. QED
  BY <1>8, <1>9

\* A step that only turns loops.
LEMMA LoopsOnly ==
  ASSUME IInv, pc \in Optimizing, pc' \in Optimizing, LoopInv', at' \in [from : Nat, to : Nat],
         UNCHANGED <<problem, trucks, unused, unassigned, truck, fleet, best>>
  PROVE  IInv' /\ Mapped
<1>1. Orders' = Orders
  BY DEF Orders
<1>2. TypeOK'
  BY DEF IInv, TypeOK
<1>3. FillingInv' /\ OptimizingInv'
  BY <1>1 DEF IInv, FillingInv, OptimizingInv, Filling, Optimizing
<1>4. Mapped
  BY StutterMaps DEF Loads
<1>5. QED
  BY <1>2, <1>3, <1>4 DEF IInv

\* A step that puts the vehicles in another order or leaves out the empty ones.
LEMMA RearrangedOnly ==
  ASSUME IInv, pc \in Optimizing, pc' \in Optimizing, LoopInv', at' \in [from : Nat, to : Nat],
         UNCHANGED <<problem, trucks, unused, unassigned, truck>>,
         Carries(fleet', Orders), LoadsOf(fleet') = LoadsOf(fleet),
         Carries(best', Orders), LoadsOf(best') \in {LoadsOf(best), LoadsOf(fleet)}
  PROVE  IInv' /\ Mapped
<1>1. Orders' = Orders
  BY DEF Orders
<1>2. TypeOK'
  BY DEF IInv, TypeOK
<1>3. Loads = LoadsOf(fleet) /\ unassigned = {} /\ truck = NoVehicle
  BY OptimizingLoads
<1>4. FillingInv' /\ OptimizingInv'
  BY <1>1, <1>3 DEF FillingInv, OptimizingInv, Filling, Optimizing
<1>5. Loads' = Loads
  BY <1>1, <1>3, OptimizingLoadsNext
<1>6. Mapped
  <2>1. CASE LoadsOf(best') = LoadsOf(best)
    BY <1>5, <2>1, StutterMaps
  <2>2. CASE LoadsOf(best') = LoadsOf(fleet)
    BY <1>3, <1>5, <2>2, KeepMaps
  <2>3. QED
    BY <2>1, <2>2
<1>7. QED
  BY <1>2, <1>4, <1>6 DEF IInv

\* The vehicles are fewer or in another order, and the solution may be the best one.
LEMMA BestCarries ==
  ASSUME NEW f, Carries(f, Orders), LoadsOf(f) = LoadsOf(fleet), Carries(best, Orders)
  PROVE  /\ Carries(BestAfter(f, best), Orders)
         /\ LoadsOf(BestAfter(f, best)) \in {LoadsOf(best), LoadsOf(fleet)}
BY BestIsOneOfTwo

\* decrease_truck turns to the next vehicle.
LEMMA DecreaseTruckKeeps ==
  ASSUME IInv, DecreaseTruck
  PROVE  IInv' /\ Mapped
<1>1. /\ pc = "decrease" /\ at.from < Len(fleet)
      /\ at' = [at EXCEPT !.from = @ + 1]
      /\ left' = fleet[at.from + 1].orders
      /\ UNCHANGED <<problem, pc, trucks, unused, unassigned, truck, fleet, best>>
  BY DEF DecreaseTruck
<1>2. at \in [from : Nat, to : Nat] /\ at.from \in DOMAIN fleet
  BY <1>1 DEF IInv, TypeOK, LoopInv
<1>3. DOMAIN fleet = 1..Len(fleet) /\ Len(fleet) \in Nat
  BY <1>1 DEF IInv, OptimizingInv, Optimizing, Carries, IsFleet
<1>4. at'.from = at.from + 1 /\ at' \in [from : Nat, to : Nat] /\ at.from + 1 \in DOMAIN fleet
  BY <1>1, <1>2, <1>3
<1>5. LoopInv'
  BY <1>1, <1>4 DEF LoopInv
<1>6. QED
  BY <1>1, <1>4, <1>5, LoopsOnly DEF Optimizing

\* decrease_truck is through.
LEMMA DecreasedKeeps ==
  ASSUME IInv, Decreased
  PROVE  IInv' /\ Mapped
<1>1. /\ pc = "decrease" /\ left = {} /\ at' = [at EXCEPT !.from = 1]
      /\ \/ DeleteEmpty /\ UNCHANGED pc
         \/ /\ fleet' \in SortedBySize(fleet)
            /\ best' = BestAfter(fleet, best)
            /\ pc' = "cycle"
      /\ UNCHANGED <<problem, trucks, unused, unassigned, truck, left>>
  BY DEF Decreased
<1>2. /\ Carries(fleet, Orders) /\ Carries(best, Orders) /\ problem \in Problems
      /\ at \in [from : Nat, to : Nat]
  BY <1>1 DEF IInv, TypeOK, OptimizingInv, Optimizing
<1>3. /\ Carries(WithoutEmpty(fleet), Orders) /\ LoadsOf(WithoutEmpty(fleet)) = LoadsOf(fleet)
  BY <1>2, WithoutEmptyCarries
<1>4. /\ Carries(fleet', Orders) /\ LoadsOf(fleet') = LoadsOf(fleet)
      /\ Carries(best', Orders) /\ LoadsOf(best') \in {LoadsOf(best), LoadsOf(fleet)}
  <2>1. CASE DeleteEmpty
    BY <2>1, <1>2, <1>3, BestCarries DEF DeleteEmpty
  <2>2. CASE fleet' \in SortedBySize(fleet) /\ best' = BestAfter(fleet, best)
    BY <2>2, <1>2, SortedCarries, BestCarries
  <2>3. QED
    BY <1>1, <2>1, <2>2
<1>5. at'.from = 1 /\ at' \in [from : Nat, to : Nat] /\ 1 \in DOMAIN fleet'
  BY <1>1, <1>2, <1>4, FleetIsNotEmpty
<1>6. LoopInv'
  BY <1>1, <1>5 DEF LoopInv
<1>7. QED
  BY <1>1, <1>4, <1>5, <1>6, RearrangedOnly DEF Optimizing

\* inter_swap begins a pass.
LEMMA InterSwapKeeps ==
  ASSUME IInv, InterSwap
  PROVE  IInv' /\ Mapped
<1>1. /\ pc = "cycle" /\ pc' = "pair" /\ at' = [from |-> 1, to |-> 1]
      /\ fleet' = WithoutEmpty(fleet) /\ best' = BestAfter(WithoutEmpty(fleet), best)
      /\ UNCHANGED <<problem, trucks, unused, unassigned, truck>>
  BY DEF InterSwap, DeleteEmpty
<1>2. Carries(fleet, Orders) /\ Carries(best, Orders) /\ problem \in Problems
  BY <1>1 DEF IInv, TypeOK, OptimizingInv, Optimizing
<1>3. /\ Carries(fleet', Orders) /\ LoadsOf(fleet') = LoadsOf(fleet)
      /\ Carries(best', Orders) /\ LoadsOf(best') \in {LoadsOf(best), LoadsOf(fleet)}
  BY <1>1, <1>2, WithoutEmptyCarries, BestCarries
<1>4. at'.from = 1 /\ at'.to = 1 /\ at' \in [from : Nat, to : Nat] /\ 1 \in DOMAIN fleet'
  BY <1>1, <1>2, <1>3, FleetIsNotEmpty
<1>5. LoopInv'
  BY <1>1, <1>4 DEF LoopInv
<1>6. QED
  BY <1>1, <1>3, <1>4, <1>5, RearrangedOnly DEF Optimizing

\* inter_swap turns to the next pair of vehicles.
LEMMA NextPairKeeps ==
  ASSUME IInv, NextPair
  PROVE  IInv' /\ Mapped
<1>1. /\ pc = "pair" /\ at.from < Len(fleet)
      /\ at' = [from |-> at.from + 1, to |-> 1]
      /\ UNCHANGED <<problem, pc, trucks, unused, unassigned, truck, fleet, best>>
  BY DEF NextPair
<1>2. at.from \in DOMAIN fleet /\ DOMAIN fleet = 1..Len(fleet) /\ Len(fleet) \in Nat
  BY <1>1 DEF IInv, LoopInv, OptimizingInv, Optimizing, Carries, IsFleet
<1>3. at'.from \in DOMAIN fleet /\ at'.to = 1 /\ at' \in [from : Nat, to : Nat]
  BY <1>1, <1>2
<1>4. LoopInv'
  BY <1>1, <1>3 DEF LoopInv
<1>5. QED
  BY <1>1, <1>3, <1>4, LoopsOnly DEF Optimizing

\* swap_worse makes copies of the two vehicles.
LEMMA SwapWorseKeeps ==
  ASSUME IInv, SwapWorse
  PROVE  IInv' /\ Mapped
<1>1. /\ pc = "pair" /\ pc' = "swap" /\ at.to < at.from
      /\ copies' = [from |-> fleet[at.from], to |-> fleet[at.to]]
      /\ left' = fleet[at.from].orders
      /\ UNCHANGED <<problem, trucks, unused, unassigned, truck, fleet, best, at>>
  BY DEF SwapWorse
<1>2. at.from \in DOMAIN fleet /\ at.to > 0 /\ at \in [from : Nat, to : Nat]
  BY <1>1 DEF IInv, LoopInv, TypeOK
<1>3. copies'.from = fleet[at.from] /\ copies'.to = fleet[at.to]
  BY <1>1
<1>4. LoopInv'
  BY <1>1, <1>2, <1>3 DEF LoopInv
<1>5. QED
  BY <1>1, <1>2, <1>4, LoopsOnly DEF Optimizing

\* An order stays in its vehicle.
LEMMA KeepOrderKeeps ==
  ASSUME IInv, KeepOrder
  PROVE  IInv' /\ Mapped
<1>1. /\ pc = "exchange" /\ pc' = "swap" /\ left' = left \ {Min(left)}
      /\ UNCHANGED <<problem, trucks, unused, unassigned, truck, fleet, best, at, copies>>
  BY DEF KeepOrder
<1>2. at \in [from : Nat, to : Nat]
  BY DEF IInv, TypeOK
<1>3. LoopInv'
  BY <1>1 DEF IInv, LoopInv
<1>4. QED
  BY <1>1, <1>2, <1>3, LoopsOnly DEF Optimizing

\* The two vehicles of swap_worse, which the copies are.
LEMMA SwapFacts ==
  ASSUME IInv, pc \in {"swap", "exchange"}
  PROVE  /\ pc \in Optimizing /\ Orders \in SUBSET Nat /\ at \in [from : Nat, to : Nat]
         /\ at.from \in DOMAIN fleet /\ at.to \in DOMAIN fleet /\ at.to # at.from
         /\ copies.from = fleet[at.from] /\ copies.to = fleet[at.to]
         /\ HasOrders(fleet[at.from], fleet[at.from].orders)
         /\ HasOrders(fleet[at.to], fleet[at.to].orders)
         /\ fleet[at.from].orders \cap fleet[at.to].orders = {}
         /\ left \subseteq fleet[at.from].orders /\ left \in SUBSET Nat
         /\ Carries(fleet, Orders) /\ Carries(best, Orders)
<1>1. pc \in Optimizing /\ at.from \in DOMAIN fleet
  BY DEF IInv, LoopInv, Optimizing
<1>2. /\ at \in [from : Nat, to : Nat] /\ at.to > 0 /\ at.to < at.from
      /\ copies.from = fleet[at.from] /\ copies.to = fleet[at.to]
      /\ left \subseteq fleet[at.from].orders
  BY DEF IInv, LoopInv, TypeOK
<1>3. Carries(fleet, Orders) /\ Carries(best, Orders) /\ problem \in Problems
  BY <1>1 DEF IInv, OptimizingInv, TypeOK
<1>4. DOMAIN fleet = 1..Len(fleet) /\ Len(fleet) \in Nat
  BY <1>3 DEF Carries, IsFleet
<1>5. at.to \in DOMAIN fleet /\ at.to # at.from
  BY <1>1, <1>2, <1>4
<1>6. /\ HasOrders(fleet[at.from], fleet[at.from].orders)
      /\ HasOrders(fleet[at.to], fleet[at.to].orders)
      /\ fleet[at.from].orders \subseteq Orders
  BY <1>1, <1>5, VehicleOfFleet
<1>7. fleet[at.from].orders \cap fleet[at.to].orders = {}
  BY <1>1, <1>3, <1>5 DEF Carries, IsApart
<1>8. QED
  BY <1>1, <1>2, <1>3, <1>5, <1>6, <1>7, OrdersAreNumbers

\* move_order moves one order or rolls back.
LEMMA MoveOrderKeeps ==
  ASSUME IInv, MoveOrder
  PROVE  IInv' /\ Mapped
<1> DEFINE o == Min(left)
           i == at.from
           j == at.to
           x == EraseOrder(copies.from, o)
           y == Put(copies.to, o)
<1>1. /\ pc = "swap" /\ left # {}
      /\ UNCHANGED <<problem, trucks, unused, unassigned, truck, best, at>>
      /\ \/ /\ o \in y.orders
            /\ fleet' = [fleet EXCEPT ![i] = x, ![j] = y]
            /\ copies' = [from |-> x, to |-> y]
            /\ left' = left \ {o} /\ UNCHANGED pc
         \/ pc' = "exchange" /\ UNCHANGED <<fleet, copies, left>>
  BY DEF MoveOrder, WriteBack
<1>2. /\ pc \in Optimizing /\ Orders \in SUBSET Nat /\ at \in [from : Nat, to : Nat]
      /\ i \in DOMAIN fleet /\ j \in DOMAIN fleet /\ j # i
      /\ copies.from = fleet[i] /\ copies.to = fleet[j]
      /\ HasOrders(fleet[i], fleet[i].orders) /\ HasOrders(fleet[j], fleet[j].orders)
      /\ fleet[i].orders \cap fleet[j].orders = {}
      /\ left \subseteq fleet[i].orders /\ left \in SUBSET Nat
      /\ Carries(fleet, Orders) /\ Carries(best, Orders)
  BY <1>1, SwapFacts
<1>3. o \in left /\ o \in fleet[i].orders /\ o \notin fleet[j].orders
  BY <1>1, <1>2, MinOfOrders
<1>4. HasOrders(x, fleet[i].orders \ {o}) /\ Takes(y, fleet[j], o)
  BY <1>2, EraseDrops, PutTakes
<1>5. Orders' = Orders
  BY <1>1 DEF Orders
<1>6. at.to < at.from /\ at.to > 0
  BY <1>1 DEF IInv, LoopInv
<1>7. CASE pc' = "exchange" /\ UNCHANGED <<fleet, copies, left>>
  <2>1. LoopInv'
    BY <1>1, <1>2, <1>6, <1>7 DEF LoopInv
  <2>2. QED
    BY <1>1, <1>2, <1>7, <2>1, LoopsOnly DEF Optimizing
<1>8. CASE /\ o \in y.orders
           /\ fleet' = [fleet EXCEPT ![i] = x, ![j] = y]
           /\ copies' = [from |-> x, to |-> y]
           /\ left' = left \ {o} /\ UNCHANGED pc
  <2> HIDE DEF x, y, o
  <2>1. HasOrders(y, fleet[j].orders \cup {o})
    BY <1>3, <1>4, <1>8 DEF Takes, HasOrders
  <2>2. IsRewritten(fleet', fleet, i, j, x, y)
    BY <1>8 DEF IsRewritten
  <2>3. Carries(fleet', Orders) /\ DOMAIN fleet' = DOMAIN fleet /\ Mapped
    BY <1>1, <1>2, <1>3, <1>4, <2>1, <2>2, OrderMoves
  <2>4. fleet'[i] = x /\ fleet'[j] = y /\ x.orders = fleet[i].orders \ {o}
    BY <2>2, <1>2, <1>4 DEF IsRewritten, HasOrders
  <2>5. LoopInv'
    BY <1>1, <1>2, <1>6, <1>8, <2>3, <2>4 DEF LoopInv
  <2>6. TypeOK' /\ FillingInv'
    BY <1>1, <1>8 DEF IInv, TypeOK, FillingInv, Filling, Optimizing
  <2>7. OptimizingInv'
    BY <1>1, <1>2, <1>5, <1>8, <2>3 DEF IInv, OptimizingInv
  <2>8. QED
    BY <2>3, <2>5, <2>6, <2>7 DEF IInv
<1>9. QED
  BY <1>1, <1>7, <1>8

\* Two orders change vehicles, or neither does.
LEMMA ExchangeOrdersKeeps ==
  ASSUME IInv, ExchangeOrders
  PROVE  IInv' /\ Mapped
<1> DEFINE o == Min(left)
           p == Min(others)
           i == at.from
           j == at.to
           x == Put(EraseOrder(copies.from, o), p)
           y == Put(EraseOrder(copies.to, p), o)
           a == fleet[i].orders
           b == fleet[j].orders
<1>1. /\ pc = "exchange"
      /\ UNCHANGED <<problem, trucks, unused, unassigned, truck, best, at>>
      /\ \/ UNCHANGED <<pc, fleet, copies, left>>
         \/ /\ p \in copies.to.orders /\ o \in y.orders /\ p \in x.orders
            /\ fleet' = [fleet EXCEPT ![i] = x, ![j] = y]
            /\ copies' = [from |-> x, to |-> y]
            /\ left' = left \ {o} /\ pc' = "swap"
         \/ /\ copies' = [from |-> fleet[i], to |-> fleet[j]]
            /\ UNCHANGED <<pc, fleet, left>>
  BY DEF ExchangeOrders, WriteBack, IsWanted
<1>2. /\ pc \in Optimizing /\ Orders \in SUBSET Nat /\ at \in [from : Nat, to : Nat]
      /\ i \in DOMAIN fleet /\ j \in DOMAIN fleet /\ j # i
      /\ copies.from = fleet[i] /\ copies.to = fleet[j]
      /\ HasOrders(fleet[i], a) /\ HasOrders(fleet[j], b) /\ a \cap b = {}
      /\ left \subseteq a /\ left \in SUBSET Nat
      /\ Carries(fleet, Orders) /\ Carries(best, Orders)
  BY <1>1, SwapFacts
<1>3. at.to < at.from /\ at.to > 0 /\ left # {}
  BY <1>1 DEF IInv, LoopInv
<1>4. o \in left /\ o \in a /\ o \notin b
  BY <1>2, <1>3, MinOfOrders
<1>5. Orders' = Orders
  BY <1>1 DEF Orders
<1>6. CASE UNCHANGED <<pc, fleet, left>> /\ copies'.from = fleet[i] /\ copies'.to = fleet[j]
  <2>1. LoopInv'
    BY <1>1, <1>2, <1>3, <1>6 DEF LoopInv
  <2>2. QED
    BY <1>1, <1>2, <1>6, <2>1, LoopsOnly DEF Optimizing
<1>7. CASE /\ p \in copies.to.orders /\ o \in y.orders /\ p \in x.orders
           /\ fleet' = [fleet EXCEPT ![i] = x, ![j] = y]
           /\ copies' = [from |-> x, to |-> y]
           /\ left' = left \ {o} /\ pc' = "swap"
  <2> DEFINE c == (a \ {o}) \cup {p}
             d == (b \ {p}) \cup {o}
             e == EraseOrder(copies.from, o)
             h == EraseOrder(copies.to, p)
  <2>1. p \in b /\ p \notin a
    BY <1>2, <1>7
  <2>2. HasOrders(e, a \ {o}) /\ HasOrders(h, b \ {p})
    BY <1>2, EraseDrops
  <2>3. Takes(x, e, p) /\ Takes(y, h, o)
    <3>1. HasOrders(e, e.orders) /\ HasOrders(h, h.orders)
      BY <2>2 DEF HasOrders
    <3>2. QED
      BY <3>1, PutTakes
  <2> HIDE DEF x, y, o, p, e, h
  <2>4. HasOrders(x, c) /\ HasOrders(y, d)
    BY <1>4, <1>7, <2>1, <2>2, <2>3 DEF Takes, HasOrders
  <2>5. IsRewritten(fleet', fleet, i, j, x, y)
    BY <1>7 DEF IsRewritten
  <2>6. c \cup d = a \cup b /\ c \cap d = {} /\ a # b
    BY <1>2, <1>4, <2>1
  <2>7. Loads = LoadsOf(fleet) /\ unassigned = {} /\ truck' = NoVehicle
    BY <1>1, <1>2, OptimizingLoads
  <2>8. /\ Carries(fleet', Orders) /\ DOMAIN fleet' = DOMAIN fleet
        /\ LoadsOf(fleet') = Exchange(Loads, a, b, c, d)
    <3> HIDE DEF c, d
    <3>1. QED
      BY <1>2, <2>4, <2>5, <2>6, <2>7, Rewritten
  <2>9. Loads' = Exchange(Loads, a, b, c, d)
    <3>1. Loads' = LoadsOf(fleet')
      BY <1>5, <2>7, <2>8, OptimizingLoadsNext
    <3>2. QED
      BY <3>1, <2>8
  <2>10. a \in Loads /\ b \in Loads
    <3>1. a \in Loads \cup {{}} /\ b \in Loads \cup {{}}
      BY <1>2, VehicleOfFleet
    <3>2. QED
      BY <3>1, <1>4, <2>1
  <2>11. Assignment!Swap
    <3> HIDE DEF a, b
    <3>1. \E u, v \in Loads : \E q \in u, r \in v :
            u # v /\ Loads' = Exchange(Loads, u, v, (u \ {q}) \cup {r}, (v \ {r}) \cup {q})
      BY <2>9, <2>10, <2>6, <1>4, <2>1
    <3>2. QED
      BY <3>1, <1>1, <1>5, <2>7 DEF Assignment!Swap, Assignment!Exchanged, Exchange, Loads
  <2>12. Mapped
    BY <2>11 DEF Mapped, Assignment!Next
  <2>13. fleet'[i] = x /\ fleet'[j] = y /\ x.orders = c
    BY <2>5, <1>2, <2>4 DEF IsRewritten, HasOrders
  <2>14. LoopInv'
    BY <1>1, <1>2, <1>3, <1>7, <2>8, <2>13 DEF LoopInv
  <2>15. TypeOK' /\ FillingInv'
    BY <1>1, <1>7 DEF IInv, TypeOK, FillingInv, Filling, Optimizing
  <2>16. OptimizingInv'
    BY <1>1, <1>2, <1>5, <1>7, <2>7, <2>8 DEF OptimizingInv
  <2>17. QED
    BY <2>12, <2>14, <2>15, <2>16 DEF IInv
<1>8. QED
  BY <1>1, <1>2, <1>6, <1>7

\* move_reduce_cost ends the pass over the pairs.
LEMMA MoveReduceCostKeeps ==
  ASSUME IInv, MoveReduceCost
  PROVE  IInv' /\ Mapped
<1> DEFINE f == fleet[at.from]
           t == fleet[at.to]
           c == [from |-> f, to |-> t, best |-> best]
<1>1. /\ pc = "swap" /\ pc' = "pair" /\ at' = [at EXCEPT !.to = @ + 1]
      /\ best' = IF IsRefused(f, t) THEN best ELSE AllReduced(c, f.orders).best
      /\ UNCHANGED <<problem, trucks, unused, unassigned, truck, left, fleet>>
  BY DEF MoveReduceCost
<1>2. /\ pc \in Optimizing /\ at \in [from : Nat, to : Nat] /\ at.from \in DOMAIN fleet
      /\ Carries(fleet, Orders) /\ Carries(best, Orders) /\ at.to > 0
  BY <1>1, SwapFacts DEF IInv, LoopInv
<1>3. f.orders \in SUBSET Nat /\ IsFiniteSet(f.orders)
  <2>1. f.orders \subseteq Orders /\ problem \in Problems
    BY <1>2, VehicleOfFleet
  <2>2. QED
    BY <2>1, OrdersAreNumbers, FS_Subset
<1>4. Keeps(c)
  BY DEF Keeps
<1>5. best' \in {best, fleet}
  <2> HIDE DEF f, t, c
  <2>1. AllReduced(c, f.orders).best \in {best, fleet}
    BY <1>3, <1>4, AllReducedKeeps
  <2>2. QED
    BY <1>1, <2>1
<1>6. at'.from = at.from /\ at'.to = at.to + 1 /\ at' \in [from : Nat, to : Nat]
  BY <1>1, <1>2
<1>7. LoopInv'
  BY <1>1, <1>2, <1>6 DEF LoopInv
<1>8. QED
  BY <1>1, <1>2, <1>5, <1>6, <1>7, RearrangedOnly DEF Optimizing

\* inter_swap is through with a cycle.
LEMMA EndCycleKeeps ==
  ASSUME IInv, EndCycle
  PROVE  IInv' /\ Mapped
<1> DEFINE f == WithoutEmpty(fleet)
<1>1. /\ pc = "pair" /\ pc' = "cycle" /\ fleet' = Append(Tail(f), Head(f))
      /\ best' = BestAfter(f, best)
      /\ UNCHANGED <<problem, trucks, unused, unassigned, truck, at>>
  BY DEF EndCycle
<1>2. /\ Carries(fleet, Orders) /\ Carries(best, Orders) /\ problem \in Problems
      /\ at \in [from : Nat, to : Nat]
  BY <1>1 DEF IInv, TypeOK, OptimizingInv, Optimizing
<1>3. Carries(f, Orders) /\ LoadsOf(f) = LoadsOf(fleet)
  BY <1>2, WithoutEmptyCarries
<1> HIDE DEF f
<1>4. Carries(fleet', Orders) /\ LoadsOf(fleet') = LoadsOf(fleet)
  <2>1. Len(f) > 0
    BY <1>2, <1>3, FleetIsNotEmpty
  <2>2. QED
    BY <2>1, <1>1, <1>3, RotatedCarries
<1>5. Carries(best', Orders) /\ LoadsOf(best') \in {LoadsOf(best), LoadsOf(fleet)}
  BY <1>1, <1>2, <1>3, BestCarries
<1>6. LoopInv'
  BY <1>1 DEF LoopInv
<1>7. QED
  BY <1>1, <1>2, <1>4, <1>5, <1>6, RearrangedOnly DEF Optimizing

\* The best solution is the answer.
LEMMA FinishKeeps ==
  ASSUME IInv, Finish
  PROVE  IInv' /\ Mapped
<1>1. /\ pc = "cycle" /\ pc' = "done" /\ fleet' \in SortedBySize(best)
      /\ UNCHANGED <<problem, trucks, unused, unassigned, truck, best, at>>
  BY DEF Finish
<1>2. /\ Carries(best, Orders) /\ problem \in Problems /\ unassigned = {} /\ truck = NoVehicle
      /\ at \in [from : Nat, to : Nat]
  BY <1>1 DEF IInv, TypeOK, OptimizingInv, Optimizing
<1>3. Carries(fleet', Orders) /\ LoadsOf(fleet') = LoadsOf(best)
  BY <1>1, <1>2, SortedCarries
<1>4. Orders' = Orders
  BY <1>1 DEF Orders
<1>5. Loads' = LoadsOf(best)
  BY <1>1, <1>2, <1>3, <1>4, OptimizingLoadsNext
<1>6. LoadsOf(best) # {}
  <2>1. PICK o : o \in Orders
    BY <1>2, OrdersAreNumbers
  <2>2. PICK i \in DOMAIN best : o \in best[i].orders
    BY <2>1, <1>2 DEF Carries, Carried
  <2>3. best[i].orders \in LoadsOf(best)
    BY <2>2, LoadOf
  <2>4. QED
    BY <2>3
<1>7. Mapped
  BY <1>1, <1>4, <1>5, <1>6 DEF Mapped, Assignment!Next, Assignment!Restore, Loads
<1>8. TypeOK' /\ FillingInv' /\ OptimizingInv' /\ LoopInv'
  BY <1>1, <1>2, <1>3, <1>4
     DEF IInv, TypeOK, FillingInv, OptimizingInv, LoopInv, Filling, Optimizing
<1>9. QED
  BY <1>7, <1>8 DEF IInv

\* Nothing happens.
LEMMA StutterKeeps ==
  ASSUME IInv, UNCHANGED vars
  PROVE  IInv' /\ Mapped
<1>1. IInv'
  BY DEF IInv, TypeOK, FillingInv, OptimizingInv, LoopInv, Orders, vars
<1>2. Mapped
  BY StutterMaps DEF vars, Loads
<1>3. QED
  BY <1>1, <1>2

\* The initial states.
LEMMA InitialState ==
  ASSUME Init
  PROVE  IInv /\ Assignment!Init
<1>1. fleet = <<>> /\ best = <<>> /\ truck = NoVehicle /\ unassigned = Orders
  BY DEF Init
<1>2. fleet \in Seq(ToSet(fleet)) /\ LoadsOf(fleet) = {} /\ LoadsOf(best) = {} /\ Carries(fleet, {})
  BY <1>1 DEF LoadsOf, ToSet, Carries, IsFleet, IsApart, Carried
<1>3. Carries(Append(fleet, truck), {}) /\ LoadsOf(Append(fleet, truck)) = {}
  BY <1>1, <1>2, NoVehicleIsEmpty, EmptyAtTheEnd
<1>4. Orders \ unassigned = {}
  BY <1>1
<1>5. TypeOK
  <2>1. trucks = <<>> /\ trucks \in Seq(ToSet(trucks)) /\ DOMAIN trucks = {}
    BY DEF Init
  <2>2. QED
    BY <2>1 DEF Init, TypeOK, Filling
<1>6. FillingInv /\ OptimizingInv /\ LoopInv
  BY <1>1, <1>2, <1>3, <1>4 DEF Init, FillingInv, OptimizingInv, LoopInv, Optimizing
<1>7. Assignment!Init
  BY <1>1, <1>2, <1>3 DEF Assignment!Init
<1>8. QED
  BY <1>5, <1>6, <1>7 DEF IInv

\* Every step keeps the invariant and is a step of OrderAssignment.
LEMMA StepKeeps ==
  ASSUME IInv, [Next]_vars
  PROVE  IInv' /\ Mapped
<1>1. CASE UNCHANGED vars
  BY <1>1, StutterKeeps
<1>2. CASE Done
  BY <1>2, StutterKeeps DEF Done
<1>3. CASE Construct
  BY <1>3, ConstructKeeps
<1>4. CASE TakeTruck
  BY <1>4, TakeTruckKeeps
<1>5. CASE PlaceOrder
  BY <1>5, PlaceOrderKeeps
<1>6. CASE ParkTruck
  BY <1>6, ParkTruckKeeps
<1>7. CASE Optimize
  BY <1>7, OptimizeKeeps
<1>8. CASE DecreaseOrder
  BY <1>8, DecreaseOrderKeeps
<1>9. CASE DecreaseTruck
  BY <1>9, DecreaseTruckKeeps
<1>10. CASE Decreased
  BY <1>10, DecreasedKeeps
<1>11. CASE InterSwap
  BY <1>11, InterSwapKeeps
<1>12. CASE NextPair
  BY <1>12, NextPairKeeps
<1>13. CASE SwapWorse
  BY <1>13, SwapWorseKeeps
<1>14. CASE MoveOrder
  BY <1>14, MoveOrderKeeps
<1>15. CASE ExchangeOrders
  BY <1>15, ExchangeOrdersKeeps
<1>16. CASE KeepOrder
  BY <1>16, KeepOrderKeeps
<1>17. CASE MoveReduceCost
  BY <1>17, MoveReduceCostKeeps
<1>18. CASE EndCycle
  BY <1>18, EndCycleKeeps
<1>19. CASE Finish
  BY <1>19, FinishKeeps
<1>20. QED
  BY <1>1, <1>2, <1>3, <1>4, <1>5, <1>6, <1>7, <1>8, <1>9, <1>10, <1>11, <1>12, <1>13,
     <1>14, <1>15, <1>16, <1>17, <1>18, <1>19 DEF Next, Step

----------------------------------------------------------------------------
(***************************************************************************)
(* The theorems.                                                           *)
(***************************************************************************)
\* The orders, the positions and the copies stay in step throughout
\* inter_swap, swap_worse and decrease_truck (optimize.cpp:77-253 and 431-478).
THEOREM PickDeliverInvariant == Spec => []IInv
<1>1. Init => IInv
  BY InitialState
<1>2. IInv /\ [Next]_vars => IInv'
  BY StepKeeps
<1>3. QED
  BY <1>1, <1>2, PTL DEF Spec

\* Whatever moves, exchanges and roll backs there were (optimize.cpp:123-253),
\* every order of the call is in exactly one vehicle of the solution that is
\* returned, and in exactly one of the best solution that is kept aside.
EveryOrderIsServedOnce ==
  pc \in Optimizing => Carries(fleet, Orders) /\ Carries(best, Orders)

\* No order is lost or served twice while the solution is improved (optimize.cpp:77-253
\* and 431-478).
THEOREM OrdersAreServedOnce == Spec => []EveryOrderIsServedOnce
<1>1. IInv => EveryOrderIsServedOnce
  BY DEF IInv, OptimizingInv, EveryOrderIsServedOnce
<1>2. QED
  BY <1>1, PickDeliverInvariant, PTL

\* The solver (optimize.cpp, initial_solution.cpp) implements OrderAssignment:
\* orders are loaded one by one, moved one by one or exchanged in pairs, and what
\* is restored in the end is an assignment that was kept.
THEOREM ReassignmentTheorem == Spec => OrdersAreReassigned
<1>1. Init => Assignment!Init
  BY InitialState
<1>2. IInv /\ [Next]_vars => [Assignment!Next]_Assignment!vars
  BY StepKeeps DEF Mapped
<1>3. QED
  BY <1>1, <1>2, PickDeliverInvariant, PTL DEF Spec, OrdersAreReassigned, Assignment!Spec

----------------------------------------------------------------------------
(***************************************************************************)
(* Lemmas: sequences with one element more or less.                        *)
(***************************************************************************)
\* How q is p with x at the position a.
IsInserted(q, p, a, x) ==
  /\ q \in Seq(ToSet(q)) /\ Len(q) = Len(p) + 1
  /\ \A i \in 1..a - 1 : q[i] = p[i]
  /\ q[a] = x
  /\ \A i \in a..Len(p) : q[i + 1] = p[i]

\* How q is p without what is at the position a.
IsRemoved(q, p, a) ==
  /\ q \in Seq(ToSet(q)) /\ Len(q) = Len(p) - 1
  /\ \A i \in 1..a - 1 : q[i] = p[i]
  /\ \A i \in a..Len(p) - 1 : q[i] = p[i + 1]

\* Two sequences after one another.
IsConcat(q, s, t) ==
  /\ Len(q) = Len(s) + Len(t)
  /\ \A i \in 1..Len(s) : q[i] = s[i]
  /\ \A i \in 1..Len(t) : q[Len(s) + i] = t[i]

LEMMA ConcatFacts ==
  ASSUME NEW X, NEW s \in Seq(X), NEW t \in Seq(X)
  PROVE  s \o t \in Seq(X) /\ IsConcat(s \o t, s, t)
<1>1. Len(s) \in Nat /\ Len(t) \in Nat
  OBVIOUS
<1>2. s \o t \in Seq(X) /\ Len(s \o t) = Len(s) + Len(t)
  OBVIOUS
<1>3. ASSUME NEW i \in 1..Len(s) PROVE (s \o t)[i] = s[i]
  <2>1. i \in 1..Len(s) + Len(t) /\ i <= Len(s)
    BY <1>1
  <2>2. QED
    BY <2>1
<1>4. ASSUME NEW i \in 1..Len(t) PROVE (s \o t)[Len(s) + i] = t[i]
  <2>1. Len(s) + i \in 1..Len(s) + Len(t) /\ ~ (Len(s) + i <= Len(s)) /\ Len(s) + i - Len(s) = i
    BY <1>1
  <2>2. QED
    BY <2>1
<1>5. QED
  BY <1>2, <1>3, <1>4 DEF IsConcat

\* std::deque::insert.
LEMMA InsertAtInserts ==
  ASSUME NEW p, p \in Seq(ToSet(p)), NEW a \in 1..Len(p) + 1, NEW x
  PROVE  IsInserted(InsertAt(p, a, x), p, a, x)
<1> DEFINE X == ToSet(p) \cup {x}
           l == SubSeq(p, 1, a - 1)
           m == <<x>>
           r == SubSeq(p, a, Len(p))
<1>1. p \in Seq(X) /\ x \in X /\ Len(p) \in Nat /\ DOMAIN p = 1..Len(p) /\ a \in Nat
  <2>1. Len(p) \in Nat /\ DOMAIN p = 1..Len(p)
    OBVIOUS
  <2>2. \A i \in 1..Len(p) : p[i] \in X
    BY <2>1 DEF ToSet
  <2>3. p \in Seq(X)
    BY <2>1, <2>2
  <2>4. QED
    BY <2>1, <2>3
<1> HIDE DEF X
<1>2. /\ l \in Seq(X) /\ Len(l) = a - 1 /\ \A i \in 1..a - 1 : l[i] = p[i]
  BY <1>1
<1>3. /\ m \in Seq(X) /\ Len(m) = 1 /\ m[1] = x
  BY <1>1
<1>4. /\ r \in Seq(X) /\ Len(r) = Len(p) - a + 1 /\ \A i \in 1..Len(p) - a + 1 : r[i] = p[a + i - 1]
  BY <1>1
<1> HIDE DEF l, m, r
<1>5. /\ l \o m \in Seq(X) /\ Len(l \o m) = a
      /\ \A i \in 1..a - 1 : (l \o m)[i] = p[i]
      /\ (l \o m)[a] = x
  <2> DEFINE n == l \o m
  <2>1. n \in Seq(X) /\ IsConcat(n, l, m)
    BY <1>2, <1>3, ConcatFacts
  <2> HIDE DEF n
  <2>2. n \in Seq(X) /\ Len(n) = a /\ n[a - 1 + 1] = x /\ a - 1 + 1 = a
    BY <2>1, <1>3, <1>2, <1>1 DEF IsConcat
  <2>3. \A i \in 1..a - 1 : n[i] = p[i]
    BY <2>1, <1>2 DEF IsConcat
  <2>4. QED
    BY <2>2, <2>3 DEF n
<1> DEFINE lm == l \o m
           q == lm \o r
<1> HIDE DEF lm
<1>6. /\ q \in Seq(X) /\ Len(q) = Len(p) + 1
      /\ \A i \in 1..a : q[i] = lm[i]
      /\ \A i \in 1..Len(p) - a + 1 : q[a + i] = r[i]
  <2>1. lm \in Seq(X) /\ Len(lm) = a
    BY <1>5 DEF lm
  <2>2. q \in Seq(X) /\ IsConcat(q, lm, r)
    BY <2>1, <1>4, ConcatFacts
  <2>3. a + (Len(p) - a + 1) = Len(p) + 1
    BY <1>1
  <2> HIDE DEF q
  <2>4. QED
    BY <2>1, <2>2, <2>3, <1>4 DEF IsConcat
<1> HIDE DEF q
<1>7. \A i \in a..Len(p) : q[i + 1] = p[i]
  <2>1. SUFFICES ASSUME NEW i \in a..Len(p) PROVE q[i + 1] = p[i]
    OBVIOUS
  <2>2. PICK k : k = i - a + 1
    OBVIOUS
  <2>3. k \in 1..Len(p) - a + 1 /\ a + k = i + 1 /\ a + k - 1 = i
    BY <1>1, <2>2
  <2>4. q[i + 1] = r[k]
    BY <2>3, <1>6
  <2>5. r[k] = p[i]
    BY <2>3, <1>4
  <2>6. QED
    BY <2>4, <2>5
<1>8. \A i \in 1..a - 1 : q[i] = p[i]
  BY <1>1, <1>5, <1>6 DEF lm
<1>9. q[a] = x
  BY <1>1, <1>5, <1>6 DEF lm
<1>10. q \in Seq(ToSet(q))
  <2>1. DOMAIN q = 1..Len(q) /\ Len(q) \in Nat
    BY <1>6
  <2>2. \A i \in 1..Len(q) : q[i] \in ToSet(q)
    BY <2>1 DEF ToSet
  <2>3. QED
    BY <1>6, <2>1, <2>2
<1>11. InsertAt(p, a, x) = q
  BY DEF InsertAt, q, lm, l, m, r
<1>12. QED
  BY <1>6, <1>7, <1>8, <1>9, <1>10, <1>11 DEF IsInserted

\* std::deque::erase.
LEMMA RemoveAtRemoves ==
  ASSUME NEW p, p \in Seq(ToSet(p)), NEW a \in 1..Len(p)
  PROVE  IsRemoved(RemoveAt(p, a), p, a)
<1> DEFINE X == ToSet(p)
           l == SubSeq(p, 1, a - 1)
           r == SubSeq(p, a + 1, Len(p))
           q == l \o r
<1>1. p \in Seq(X) /\ Len(p) \in Nat /\ a \in Nat
  OBVIOUS
<1> HIDE DEF X
<1>2. l \in Seq(X) /\ Len(l) = a - 1 /\ \A i \in 1..a - 1 : l[i] = p[i]
  BY <1>1
<1>3. r \in Seq(X) /\ Len(r) = Len(p) - a /\ \A i \in 1..Len(p) - a : r[i] = p[a + i]
  BY <1>1
<1> HIDE DEF l, r
<1>4. /\ q \in Seq(X) /\ Len(q) = Len(p) - 1
      /\ \A i \in 1..a - 1 : q[i] = l[i]
      /\ \A i \in 1..Len(p) - a : q[a - 1 + i] = r[i]
  <2>1. q \in Seq(X) /\ IsConcat(q, l, r)
    BY <1>2, <1>3, ConcatFacts
  <2>2. (a - 1) + (Len(p) - a) = Len(p) - 1
    BY <1>1
  <2> HIDE DEF q
  <2>3. QED
    BY <2>1, <2>2, <1>2, <1>3 DEF IsConcat
<1> HIDE DEF q
<1>5. \A i \in a..Len(p) - 1 : q[i] = p[i + 1]
  <2>1. SUFFICES ASSUME NEW i \in a..Len(p) - 1 PROVE q[i] = p[i + 1]
    OBVIOUS
  <2> DEFINE k == i - a + 1
  <2>2. k \in 1..Len(p) - a /\ a - 1 + k = i /\ a + k = i + 1
    BY <1>1
  <2> HIDE DEF k
  <2>3. q[a - 1 + k] = r[k] /\ r[k] = p[a + k]
    BY <2>2, <1>3, <1>4
  <2>4. QED
    BY <2>2, <2>3
<1>6. q \in Seq(ToSet(q))
  <2>1. DOMAIN q = 1..Len(q) /\ Len(q) \in Nat
    BY <1>4
  <2>2. \A i \in 1..Len(q) : q[i] \in ToSet(q)
    BY <2>1 DEF ToSet
  <2>3. QED
    BY <1>4, <2>1, <2>2
<1>7. RemoveAt(p, a) = q
  BY DEF RemoveAt, q, l, r
<1>8. QED
  BY <1>2, <1>4, <1>5, <1>6, <1>7 DEF IsRemoved
----------------------------------------------------------------------------
(***************************************************************************)
(* Lemmas: the evaluation of a path.                                       *)
(***************************************************************************)
\* The values that stop i caches are those that follow from the stop before.
IsEvaluatedAt(p, i, v) ==
  p[i] = IF i = 1 THEN StartStop(p[1].node, v) ELSE StopAfter(p[i - 1], p[i].node, v)

IsEvaluated(p, v) == \A i \in 1..Len(p) : IsEvaluatedAt(p, i, v)

\* The same stops up to n.
SameNodes(q, p, n) == \A i \in 1..n : q[i].node = p[i].node

\* What evaluate has done up to n: the sites are those of the path, what was
\* before the position is as it was, and the rest follows.
IsEvaluatedUpTo(q, p, from, v, n) ==
  /\ q \in Seq(ToSet(q)) /\ Len(q) = n
  /\ SameNodes(q, p, n)
  /\ \A i \in 1..n : i < from => q[i] = p[i]
  /\ \A i \in 1..n : IsEvaluatedAt(q, i, v)

Evaluating == INSTANCE Recursion WITH
  Start <- LAMBDA c : SubSeq(c.path, 1, c.from - 1), Pick <- LAMBDA c, S : S,
  Step  <- LAMBDA c, i, s :
    The({IF done = <<>> THEN <<StartStop(c.path[1].node, c.v)>>
         ELSE Append(done, StopAfter(Last(done), c.path[i].node, c.v)) : done \in {s}}),
  Claim <- LAMBDA c, i, s : IsEvaluatedUpTo(s, c.path, c.from, c.v, i)

\* One stop more is evaluated.
Further(c, i, s) ==
  IF s = <<>> THEN <<StartStop(c.path[1].node, c.v)>>
  ELSE Append(s, StopAfter(Last(s), c.path[i].node, c.v))

\* Vehicle_node::evaluate sets the values of one stop (vehicle_node.cpp:51 and 70).
LEMMA FurtherIsEvaluated ==
  ASSUME NEW c, c.from \in Nat, NEW i \in Nat, i >= c.from, i > 0, NEW s,
         IsEvaluatedUpTo(s, c.path, c.from, c.v, i - 1)
  PROVE  IsEvaluatedUpTo(Further(c, i, s), c.path, c.from, c.v, i)
<1> DEFINE q == Further(c, i, s)
           X == ToSet(s) \cup {q[i]}
<1>1. /\ s \in Seq(ToSet(s)) /\ Len(s) = i - 1 /\ DOMAIN s = 1..i - 1
      /\ SameNodes(s, c.path, i - 1)
      /\ \A j \in 1..i - 1 : j < c.from => s[j] = c.path[j]
      /\ \A j \in 1..i - 1 : IsEvaluatedAt(s, j, c.v)
  BY DEF IsEvaluatedUpTo
<1>2. CASE i = 1
  <2>1. s = <<>>
    BY <1>1, <1>2
  <2>2. q = <<StartStop(c.path[1].node, c.v)>>
    BY <2>1 DEF Further
  <2> DEFINE e == StartStop(c.path[1].node, c.v)
  <2>3. e.node = c.path[1].node
    BY DEF StartStop
  <2> HIDE DEF e
  <2>4. q = <<e>>
    BY <2>2 DEF e
  <2>5. q[1] = e /\ Len(q) = 1 /\ q \in Seq(ToSet(q))
    BY <2>4 DEF ToSet
  <2>6. IsEvaluatedAt(q, 1, c.v)
    BY <2>5, <2>3 DEF IsEvaluatedAt, e
  <2> HIDE DEF q
  <2>7. \A j \in 1..i : j = 1
    BY <1>2
  <2>8. SameNodes(q, c.path, i)
    BY <2>7, <2>5, <2>3 DEF SameNodes
  <2>9. \A j \in 1..i : ~ (j < c.from)
    BY <2>7, <1>2
  <2>10. QED
    BY <2>5, <2>6, <2>7, <2>8, <2>9, <1>2 DEF IsEvaluatedUpTo, q
<1>3. CASE i # 1
  <2> DEFINE e == StopAfter(s[i - 1], c.path[i].node, c.v)
  <2>1. s # <<>> /\ Last(s) = s[i - 1]
    BY <1>1, <1>3 DEF Last
  <2>2. q = Append(s, e)
    BY <2>1 DEF Further
  <2>3. e.node = c.path[i].node
    BY DEF StopAfter
  <2> HIDE DEF e
  <2>4. /\ q \in Seq(ToSet(q)) /\ DOMAIN q = 1..i
        /\ \A j \in 1..i - 1 : q[j] = s[j]
        /\ q[i] = e
    <3>1. i - 1 + 1 = i
      OBVIOUS
    <3> HIDE DEF q
    <3>2. QED
      BY <1>1, <2>2, <3>1, Appended
  <2> HIDE DEF q
  <2>5. Len(q) = i
    BY <2>4
  <2>6. \A j \in 1..i : j = i \/ j \in 1..i - 1
    OBVIOUS
  <2>7. SameNodes(q, c.path, i)
    BY <2>4, <2>6, <2>3, <1>1 DEF SameNodes
  <2>8. IsEvaluatedAt(q, i, c.v)
    <3>1. i - 1 \in 1..i - 1
      BY <1>3
    <3>2. q[i - 1] = s[i - 1]
      BY <3>1, <2>4
    <3>3. QED
      BY <2>3, <2>4, <3>2, <1>3 DEF IsEvaluatedAt, e
  <2>9. ASSUME NEW j \in 1..i - 1 PROVE IsEvaluatedAt(q, j, c.v)
    <3>1. q[j] = s[j] /\ IsEvaluatedAt(s, j, c.v)
      BY <2>4, <1>1
    <3>2. CASE j = 1
      BY <3>1, <3>2 DEF IsEvaluatedAt
    <3>3. CASE j # 1
      <4>1. j - 1 \in 1..i - 1
        BY <3>3
      <4>2. q[j - 1] = s[j - 1]
        BY <4>1, <2>4
      <4>3. QED
        BY <3>1, <3>3, <4>2 DEF IsEvaluatedAt
    <3>4. QED
      BY <3>2, <3>3
  <2>10. \A j \in 1..i : j < c.from => q[j] = c.path[j]
    <3>1. ~ (i < c.from)
      OBVIOUS
    <3>2. QED
      BY <2>4, <2>6, <1>1, <3>1
  <2>11. QED
    BY <2>4, <2>5, <2>6, <2>7, <2>8, <2>9, <2>10 DEF IsEvaluatedUpTo, q
<1>4. QED
  BY <1>2, <1>3

\* What is before the position is evaluated already.
IsEvaluatedBefore(p, from, v) == \A i \in 1..from - 1 : IsEvaluatedAt(p, i, v)

\* evaluate leaves the sites alone and brings all the values up to date, when those
\* before the position were.
LEMMA EvaluateEvaluates ==
  ASSUME NEW p, p \in Seq(ToSet(p)), NEW from \in 1..Len(p) + 1, NEW v,
         IsEvaluatedBefore(p, from, v)
  PROVE  IsEvaluatedUpTo(Evaluate(p, from, v), p, from, v, Len(p))
<1> DEFINE c == [path |-> p, from |-> from, v |-> v]
           n == Len(p)
           first == SubSeq(p, 1, from - 1)
<1>1. n \in Nat /\ from \in Nat /\ from > 0 /\ from <= n + 1 /\ DOMAIN p = 1..n
  OBVIOUS
<1>2. Evaluate(p, from, v) = Evaluated(p, from, v)
  <2>1. {Evaluated(q, from, v) : q \in {p}} = {Evaluated(p, from, v)}
    OBVIOUS
  <2>2. QED
    BY <2>1, TheOne DEF Evaluate
<1>3. Evaluated(p, from, v) = Evaluating!Counted(c, from - 1, n)[n]
  BY DEF Evaluated, Evaluating!Counted, Evaluating!IsCounted
<1>4. IsEvaluatedUpTo(first, p, from, v, from - 1)
  <2>1. /\ first \in Seq(ToSet(p)) /\ Len(first) = from - 1
        /\ \A i \in 1..from - 1 : first[i] = p[i]
    BY <1>1
  <2> HIDE DEF first
  <2>2. first \in Seq(ToSet(first))
    <3>1. \A i \in 1..from - 1 : first[i] \in ToSet(first)
      BY <2>1 DEF ToSet
    <3>2. QED
      BY <2>1, <3>1
  <2>3. ASSUME NEW i \in 1..from - 1 PROVE IsEvaluatedAt(first, i, v)
    <3>1. IsEvaluatedAt(p, i, v) /\ first[i] = p[i]
      BY <2>1 DEF IsEvaluatedBefore
    <3>2. CASE i = 1
      BY <3>1, <3>2 DEF IsEvaluatedAt
    <3>3. CASE i # 1
      <4>1. i - 1 \in 1..from - 1
        BY <3>3, <1>1
      <4>2. first[i - 1] = p[i - 1]
        BY <4>1, <2>1
      <4>3. QED
        BY <3>1, <3>3, <4>2 DEF IsEvaluatedAt
    <3>4. QED
      BY <3>2, <3>3
  <2>4. QED
    BY <2>1, <2>2, <2>3 DEF IsEvaluatedUpTo, SameNodes
<1>5. ASSUME NEW i \in (from - 1) + 1..n, NEW s, IsEvaluatedUpTo(s, p, from, v, i - 1)
      PROVE  IsEvaluatedUpTo(Further(c, i, s), p, from, v, i)
  <2>1. i \in Nat /\ i >= from /\ i > 0
    BY <1>1
  <2>2. c.path = p /\ c.from = from /\ c.v = v /\ c.from \in Nat
    BY <1>1
  <2> HIDE DEF c
  <2>3. QED
    BY <2>1, <2>2, <1>5, FurtherIsEvaluated
<1>6. \A i : \A s : The({IF done = <<>> THEN <<StartStop(c.path[1].node, c.v)>>
                         ELSE Append(done, StopAfter(Last(done), c.path[i].node, c.v)) : done \in {s}})
                      = Further(c, i, s)
  <2>1. SUFFICES ASSUME NEW i, NEW s
        PROVE The({IF done = <<>> THEN <<StartStop(c.path[1].node, c.v)>>
                   ELSE Append(done, StopAfter(Last(done), c.path[i].node, c.v)) : done \in {s}})
                = Further(c, i, s)
    OBVIOUS
  <2> DEFINE One(done) == IF done = <<>> THEN <<StartStop(c.path[1].node, c.v)>>
                          ELSE Append(done, StopAfter(Last(done), c.path[i].node, c.v))
  <2>2. {One(done) : done \in {s}} = {One(s)}
    OBVIOUS
  <2> HIDE DEF One
  <2>3. The({One(s)}) = One(s)
    BY TheOne
  <2>4. One(s) = Further(c, i, s)
    BY DEF Further, One
  <2>5. QED
    BY <2>2, <2>3, <2>4 DEF One
<1> DEFINE Next1(i, s) == The({IF done = <<>> THEN <<StartStop(c.path[1].node, c.v)>>
                         ELSE Append(done, StopAfter(Last(done), c.path[i].node, c.v)) : done \in {s}})
<1>7. \A i \in (from - 1) + 1..n : \A s :
        IsEvaluatedUpTo(s, c.path, c.from, c.v, i - 1) => IsEvaluatedUpTo(Next1(i, s), c.path, c.from, c.v, i)
  <2>1. c.path = p /\ c.from = from /\ c.v = v
    OBVIOUS
  <2>2. \A i : \A s : Next1(i, s) = Further(c, i, s)
    BY <1>6
  <2> HIDE DEF c, Next1
  <2>3. QED
    BY <2>1, <2>2, <1>5
<1>8. IsEvaluatedUpTo(SubSeq(c.path, 1, c.from - 1), c.path, c.from, c.v, from - 1)
  BY <1>4
<1>9. from - 1 \in Int /\ n \in Int
  BY <1>1
<1>10. \A i \in from - 1..n : IsEvaluatedUpTo(Evaluating!Counted(c, from - 1, n)[i], c.path, c.from, c.v, i)
  <2> HIDE DEF c, n
  <2>1. QED
    BY ONLY <1>7, <1>8, <1>9, Evaluating!CountedClaim, Zenon DEF Next1
<1>11. n \in from - 1..n
  BY <1>1
<1>12. IsEvaluatedUpTo(Evaluating!Counted(c, from - 1, n)[n], p, from, v, n)
  BY <1>10, <1>11
<1>13. QED
  BY <1>2, <1>3, <1>12

\* Two paths with the same sites and up to date values are the same.
LEMMA EvaluatedIsUnique ==
  ASSUME NEW p, NEW q, p \in Seq(ToSet(p)), q \in Seq(ToSet(q)), NEW v,
         IsEvaluated(p, v), IsEvaluated(q, v), Len(p) = Len(q), SameNodes(q, p, Len(p))
  PROVE  p = q
<1> DEFINE Bad == {i \in 1..Len(p) : p[i] # q[i]}
<1>1. Len(p) \in Nat /\ DOMAIN p = 1..Len(p) /\ DOMAIN q = 1..Len(p)
  OBVIOUS
<1>2. Bad = {}
  <2>1. SUFFICES ASSUME Bad # {} PROVE FALSE
    OBVIOUS
  <2>2. Bad \in SUBSET Nat
    BY <1>1
  <2>3. PICK i \in Bad : \A j \in Bad : i <= j
    BY <2>1, <2>2, Rest!LeastElement
  <2>4. i \in 1..Len(p) /\ IsEvaluatedAt(p, i, v) /\ IsEvaluatedAt(q, i, v) /\ q[i].node = p[i].node
    BY <2>3 DEF IsEvaluated, SameNodes
  <2>5. CASE i = 1
    <3>1. p[i] = q[i]
      BY <2>4, <2>5 DEF IsEvaluatedAt
    <3>2. QED
      BY <2>3, <3>1
  <2>6. CASE i # 1
    <3>1. i - 1 \in 1..Len(p) /\ i - 1 \notin Bad
      BY <2>3, <2>4, <2>6
    <3>2. p[i - 1] = q[i - 1]
      BY <3>1
    <3>3. p[i] = q[i]
      BY <2>4, <2>6, <3>2 DEF IsEvaluatedAt
    <3>4. QED
      BY <2>3, <3>3
  <2>7. QED
    BY <2>5, <2>6
<1>3. \A i \in 1..Len(p) : p[i] = q[i]
  BY <1>2
<1>4. QED
  BY <1>1, <1>3
----------------------------------------------------------------------------
(***************************************************************************)
(* Lemmas: stops that are inserted and erased.                             *)
(***************************************************************************)
\* q is p with a stop at n in the position a, and up to date.
IsInsertion(q, p, a, n, v) ==
  /\ q \in Seq(ToSet(q)) /\ Len(q) = Len(p) + 1
  /\ \A i \in 1..a - 1 : q[i].node = p[i].node
  /\ q[a].node = n
  /\ \A i \in a..Len(p) : q[i + 1].node = p[i].node
  /\ IsEvaluated(q, v)

\* q is p without the stop in the position a, and up to date.
IsErasure(q, p, a, v) ==
  /\ q \in Seq(ToSet(q)) /\ Len(q) = Len(p) - 1
  /\ \A i \in 1..a - 1 : q[i] = p[i]
  /\ \A i \in a..Len(p) - 1 : q[i].node = p[i + 1].node
  /\ IsEvaluated(q, v)

\* What agrees with an evaluated path up to a position is evaluated up to there.
LEMMA SamePrefix ==
  ASSUME NEW p, NEW q, NEW v, NEW n \in Nat, n <= Len(p), Len(p) \in Nat, IsEvaluated(p, v),
         \A i \in 1..n : q[i] = p[i]
  PROVE  IsEvaluatedBefore(q, n + 1, v)
<1>1. SUFFICES ASSUME NEW i \in 1..n PROVE IsEvaluatedAt(q, i, v)
  BY DEF IsEvaluatedBefore
<1>2. IsEvaluatedAt(p, i, v) /\ q[i] = p[i]
  BY DEF IsEvaluated
<1>3. CASE i = 1
  BY <1>2, <1>3 DEF IsEvaluatedAt
<1>4. CASE i # 1
  <2>1. i - 1 \in 1..n
    BY <1>4
  <2>2. q[i - 1] = p[i - 1]
    BY <2>1
  <2>3. QED
    BY <1>2, <1>4, <2>2 DEF IsEvaluatedAt
<1>5. QED
  BY <1>3, <1>4

\* Vehicle::insert_node (vehicle.cpp): an insertion, and the evaluation from there.
LEMMA InsertionEvaluated ==
  ASSUME NEW p, p \in Seq(ToSet(p)), NEW v, IsEvaluated(p, v), NEW a \in 1..Len(p) + 1, NEW n,
         NEW r, IsInserted(r, p, a, Stop(n))
  PROVE  IsInsertion(Evaluate(r, a, v), p, a, n, v)
<1> DEFINE q == Evaluate(r, a, v)
<1>1. Len(p) \in Nat /\ r \in Seq(ToSet(r)) /\ Len(r) = Len(p) + 1 /\ a \in Nat /\ a > 0
  BY DEF IsInserted
<1>2. IsEvaluatedBefore(r, a, v)
  <2>1. a - 1 \in Nat /\ a - 1 <= Len(p) /\ a - 1 + 1 = a
    BY <1>1
  <2>2. \A i \in 1..a - 1 : r[i] = p[i]
    BY DEF IsInserted
  <2>3. IsEvaluatedBefore(r, a - 1 + 1, v)
    BY <2>1, <2>2, <1>1, SamePrefix
  <2>4. QED
    BY <2>1, <2>3
<1>3. IsEvaluatedUpTo(q, r, a, v, Len(r))
  <2>1. a \in 1..Len(r) + 1
    BY <1>1
  <2>2. QED
    BY <2>1, <1>1, <1>2, EvaluateEvaluates
<1> HIDE DEF q
<1>4. q \in Seq(ToSet(q)) /\ Len(q) = Len(p) + 1 /\ IsEvaluated(q, v)
  BY <1>1, <1>3 DEF IsEvaluatedUpTo, IsEvaluated
<1>5. \A i \in 1..Len(p) + 1 : q[i].node = r[i].node
  BY <1>1, <1>3 DEF IsEvaluatedUpTo, SameNodes
<1>6. /\ \A i \in 1..a - 1 : i \in 1..Len(p) + 1 /\ r[i] = p[i]
      /\ a \in 1..Len(p) + 1 /\ r[a] = Stop(n)
      /\ \A i \in a..Len(p) : i + 1 \in 1..Len(p) + 1 /\ r[i + 1] = p[i]
  BY <1>1 DEF IsInserted
<1>7. Stop(n).node = n
  BY DEF Stop
<1>8. QED
  BY <1>4, <1>5, <1>6, <1>7 DEF IsInsertion, q

LEMMA InsertNodeInserts ==
  ASSUME NEW p, p \in Seq(ToSet(p)), NEW v, IsEvaluated(p, v), NEW a \in 1..Len(p) + 1, NEW n
  PROVE  IsInsertion(InsertNode(p, a, n, v), p, a, n, v)
BY InsertAtInserts, InsertionEvaluated DEF InsertNode

\* push_back and push_front evaluate once, after both stops are inserted.
LEMMA TwoInserted ==
  ASSUME NEW p, p \in Seq(ToSet(p)), NEW v, IsEvaluated(p, v), NEW a \in 1..Len(p) + 1, NEW m, NEW n,
         NEW r, IsInserted(r, p, a, Stop(m)), NEW s, IsInserted(s, r, a + 1, Stop(n)),
         NEW mid, IsInsertion(mid, p, a, m, v)
  PROVE  IsInsertion(Evaluate(s, a, v), mid, a + 1, n, v)
<1> DEFINE q == Evaluate(s, a, v)
<1>1. /\ Len(p) \in Nat /\ r \in Seq(ToSet(r)) /\ Len(r) = Len(p) + 1 /\ a \in Nat /\ a > 0 /\ a <= Len(p) + 1
      /\ s \in Seq(ToSet(s)) /\ Len(s) = Len(p) + 2 /\ Len(mid) = Len(p) + 1
  BY DEF IsInserted, IsInsertion
<1>2. \A i \in 1..a - 1 : s[i] = p[i] /\ r[i] = p[i]
  BY <1>1 DEF IsInserted
<1>3. IsEvaluatedBefore(s, a, v)
  <2>1. a - 1 \in Nat /\ a - 1 <= Len(p) /\ a - 1 + 1 = a
    BY <1>1
  <2>2. IsEvaluatedBefore(s, a - 1 + 1, v)
    BY <2>1, <1>2, <1>1, SamePrefix
  <2>3. QED
    BY <2>1, <2>2
<1>4. IsEvaluatedUpTo(q, s, a, v, Len(s))
  <2>1. a \in 1..Len(s) + 1
    BY <1>1
  <2>2. QED
    BY <2>1, <1>1, <1>3, EvaluateEvaluates
<1> HIDE DEF q
<1>5. q \in Seq(ToSet(q)) /\ Len(q) = Len(mid) + 1 /\ IsEvaluated(q, v)
  BY <1>1, <1>4 DEF IsEvaluatedUpTo, IsEvaluated
<1>6. \A i \in 1..Len(p) + 2 : q[i].node = s[i].node
  BY <1>1, <1>4 DEF IsEvaluatedUpTo, SameNodes
<1>7. \A i \in 1..Len(p) + 1 : r[i].node = mid[i].node
  <2>1. SUFFICES ASSUME NEW i \in 1..Len(p) + 1 PROVE r[i].node = mid[i].node
    OBVIOUS
  <2>2. CASE i < a
    <3>1. i \in 1..a - 1
      BY <2>2, <1>1
    <3>2. QED
      BY <3>1, <1>2 DEF IsInsertion
  <2>3. CASE i = a
    BY <2>3 DEF IsInserted, IsInsertion, Stop
  <2>4. CASE i > a
    <3>1. i - 1 \in a..Len(p) /\ (i - 1) + 1 = i
      BY <2>4, <1>1
    <3>2. QED
      BY <3>1 DEF IsInserted, IsInsertion
  <2>5. QED
    BY <2>2, <2>3, <2>4, <1>1
<1>8. \A i \in 1..a : q[i].node = mid[i].node
  <2>1. \A i \in 1..a : i \in 1..(a + 1) - 1 /\ i \in 1..Len(p) + 1 /\ i \in 1..Len(p) + 2
    BY <1>1
  <2>2. \A i \in 1..a : s[i] = r[i]
    BY <2>1 DEF IsInserted
  <2>3. QED
    BY <2>1, <2>2, <1>6, <1>7
<1>9. q[a + 1].node = n
  <2>1. a + 1 \in 1..Len(p) + 2 /\ s[a + 1].node = n
    BY <1>1 DEF IsInserted, Stop
  <2>2. QED
    BY <2>1, <1>6
<1>10. \A i \in a + 1..Len(mid) : q[i + 1].node = mid[i].node
  <2>1. SUFFICES ASSUME NEW i \in a + 1..Len(mid) PROVE q[i + 1].node = mid[i].node
    OBVIOUS
  <2>2. i \in a + 1..Len(r) /\ i \in 1..Len(p) + 1 /\ i + 1 \in 1..Len(p) + 2
    BY <1>1
  <2>3. s[i + 1] = r[i]
    BY <2>2 DEF IsInserted
  <2>4. QED
    BY <2>2, <2>3, <1>6, <1>7
<1>11. \A i \in 1..(a + 1) - 1 : q[i].node = mid[i].node
  <2>1. (a + 1) - 1 = a
    BY <1>1
  <2>2. QED
    BY <2>1, <1>8
<1>12. QED
  BY <1>5, <1>9, <1>10, <1>11 DEF IsInsertion, q

\* Vehicle::erase (vehicle.cpp): the evaluation starts where the erased stop was.
LEMMA EraseAtErases ==
  ASSUME NEW p, p \in Seq(ToSet(p)), NEW v, IsEvaluated(p, v), NEW a \in 1..Len(p)
  PROVE  IsErasure(EraseAt(p, a, v), p, a, v)
<1> DEFINE r == RemoveAt(p, a)
           q == Evaluate(r, a, v)
<1>1. IsRemoved(r, p, a) /\ Len(p) \in Nat /\ a \in Nat /\ a > 0 /\ a <= Len(p)
  BY RemoveAtRemoves
<1> HIDE DEF r
<1>2. r \in Seq(ToSet(r)) /\ Len(r) = Len(p) - 1 /\ \A i \in 1..a - 1 : r[i] = p[i]
  BY <1>1 DEF IsRemoved
<1>3. IsEvaluatedBefore(r, a, v)
  <2>1. a - 1 \in Nat /\ a - 1 <= Len(p) /\ a - 1 + 1 = a
    BY <1>1
  <2>2. IsEvaluatedBefore(r, a - 1 + 1, v)
    BY <2>1, <1>1, <1>2, SamePrefix
  <2>3. QED
    BY <2>1, <2>2
<1>4. IsEvaluatedUpTo(q, r, a, v, Len(r))
  <2>1. a \in 1..Len(r) + 1
    BY <1>1, <1>2
  <2>2. QED
    BY <2>1, <1>2, <1>3, EvaluateEvaluates
<1> HIDE DEF q
<1>5. q \in Seq(ToSet(q)) /\ Len(q) = Len(p) - 1 /\ IsEvaluated(q, v)
  BY <1>2, <1>4 DEF IsEvaluatedUpTo, IsEvaluated
<1>6. \A i \in 1..a - 1 : q[i] = p[i]
  <2>1. \A i \in 1..a - 1 : i \in 1..Len(r) /\ i < a
    BY <1>1, <1>2
  <2>2. QED
    BY <2>1, <1>2, <1>4 DEF IsEvaluatedUpTo
<1>7. \A i \in a..Len(p) - 1 : q[i].node = p[i + 1].node
  <2>1. \A i \in a..Len(p) - 1 : i \in 1..Len(r) /\ r[i] = p[i + 1]
    BY <1>1, <1>2 DEF IsRemoved
  <2>2. \A i \in 1..Len(r) : q[i].node = r[i].node
    BY <1>4 DEF IsEvaluatedUpTo, SameNodes
  <2>3. QED
    BY <2>1, <2>2
<1>8. EraseAt(p, a, v) = q
  BY DEF EraseAt, q, r
<1>9. QED
  BY <1>5, <1>6, <1>7, <1>8 DEF IsErasure
----------------------------------------------------------------------------
(***************************************************************************)
(* Lemmas: tours, which visit each of a set of sites once between the      *)
(* start and the end of a vehicle.                                         *)
(***************************************************************************)
IsEndless(n) == n.type # "start" /\ n.type # "end"

IsTour(p, N, v) ==
  /\ p \in Seq(ToSet(p)) /\ Len(p) >= 2
  /\ IsEvaluated(p, v)
  /\ p[1].node.type = "start" /\ p[Len(p)].node.type = "end"
  /\ \A i \in 2..Len(p) - 1 : p[i].node \in N
  /\ \A n \in N : IsEndless(n) /\ \E i \in 2..Len(p) - 1 : p[i].node = n
  /\ \A i, j \in 2..Len(p) - 1 : p[i].node = p[j].node => i = j

\* The vehicle comes to n after m.
IsBefore(p, m, n) ==
  \E i, j \in 2..Len(p) - 1 : i < j /\ p[i].node = m /\ p[j].node = n

\* Where the stop i of a path is after something was inserted at a, and where the
\* stops behind a were before.
After(a, i) == IF i < a THEN i ELSE i + 1
Back1(a, i) == IF i < a THEN i ELSE i - 1

\* l is s with a stop at n in the position a.
IsLonger(l, s, a, n) ==
  /\ Len(l) = Len(s) + 1 /\ l[1].node = s[1].node /\ l[Len(l)].node = s[Len(s)].node
  /\ a \in 2..Len(l) - 1 /\ l[a].node = n
  /\ \A i \in 2..Len(s) - 1 : /\ After(a, i) \in 2..Len(l) - 1 /\ After(a, i) # a
                              /\ l[After(a, i)].node = s[i].node
  /\ \A i \in 2..Len(l) - 1 : i # a => /\ Back1(a, i) \in 2..Len(s) - 1
                                       /\ After(a, Back1(a, i)) = i
                                       /\ l[i].node = s[Back1(a, i)].node

LEMMA InsertionIsLonger ==
  ASSUME NEW p, NEW q, NEW n, NEW v, Len(p) \in Nat, NEW a \in 2..Len(p), IsInsertion(q, p, a, n, v)
  PROVE  IsLonger(q, p, a, n)
<1>1. /\ Len(q) = Len(p) + 1
      /\ \A i \in 1..a - 1 : q[i].node = p[i].node
      /\ q[a].node = n
      /\ \A i \in a..Len(p) : q[i + 1].node = p[i].node
  BY DEF IsInsertion
<1>2. q[1].node = p[1].node /\ q[Len(q)].node = p[Len(p)].node /\ a \in 2..Len(q) - 1
  <2>1. 1 \in 1..a - 1 /\ Len(p) \in a..Len(p)
    OBVIOUS
  <2>2. QED
    BY <2>1, <1>1
<1>3. ASSUME NEW i \in 2..Len(p) - 1
      PROVE  After(a, i) \in 2..Len(q) - 1 /\ After(a, i) # a /\ q[After(a, i)].node = p[i].node
  <2>1. CASE i < a
    <3>1. i \in 1..a - 1 /\ After(a, i) = i
      BY <2>1 DEF After
    <3>2. QED
      BY <3>1, <1>1
  <2>2. CASE ~ (i < a)
    <3>1. i \in a..Len(p) /\ After(a, i) = i + 1
      BY <2>2 DEF After
    <3>2. QED
      BY <3>1, <1>1
  <2>3. QED
    BY <2>1, <2>2
<1>4. ASSUME NEW i \in 2..Len(q) - 1, i # a
      PROVE  Back1(a, i) \in 2..Len(p) - 1 /\ After(a, Back1(a, i)) = i /\ q[i].node = p[Back1(a, i)].node
  <2>1. CASE i < a
    <3>1. i \in 1..a - 1 /\ Back1(a, i) = i /\ After(a, i) = i
      BY <2>1 DEF After, Back1
    <3>2. QED
      BY <3>1, <1>1, <2>1
  <2>2. CASE ~ (i < a)
    <3>1. i - 1 \in a..Len(p) /\ (i - 1) + 1 = i /\ Back1(a, i) = i - 1 /\ After(a, i - 1) = i
      BY <2>2, <1>1, <1>4 DEF After, Back1
    <3>2. QED
      BY <3>1, <1>1
  <2>3. QED
    BY <2>1, <2>2
<1>5. QED
  BY <1>1, <1>2, <1>3, <1>4 DEF IsLonger

LEMMA InsertionTours ==
  ASSUME NEW p, NEW q, NEW N, NEW n, NEW v, IsTour(p, N, v), n \notin N, IsEndless(n),
         NEW a \in 2..Len(p), IsInsertion(q, p, a, n, v)
  PROVE  IsTour(q, N \cup {n}, v)
<1>0. Len(p) \in Nat /\ Len(p) >= 2
  BY DEF IsTour
<1>1. /\ Len(q) = Len(p) + 1 /\ q[1].node = p[1].node /\ q[Len(q)].node = p[Len(p)].node
      /\ a \in 2..Len(q) - 1 /\ q[a].node = n
      /\ \A i \in 2..Len(p) - 1 : /\ After(a, i) \in 2..Len(q) - 1 /\ After(a, i) # a
                                  /\ q[After(a, i)].node = p[i].node
      /\ \A i \in 2..Len(q) - 1 : i # a => /\ Back1(a, i) \in 2..Len(p) - 1
                                           /\ After(a, Back1(a, i)) = i
                                           /\ q[i].node = p[Back1(a, i)].node
  <2>1. IsLonger(q, p, a, n)
    BY <1>0, InsertionIsLonger
  <2>2. QED
    BY <2>1 DEF IsLonger
<1>2. /\ \A i \in 2..Len(p) - 1 : p[i].node \in N
      /\ \A m \in N : IsEndless(m) /\ \E i \in 2..Len(p) - 1 : p[i].node = m
      /\ \A i, j \in 2..Len(p) - 1 : p[i].node = p[j].node => i = j
      /\ p[1].node.type = "start" /\ p[Len(p)].node.type = "end"
  BY DEF IsTour
<1>3. ASSUME NEW i \in 2..Len(q) - 1, i # a PROVE q[i].node \in N
  <2>1. PICK k : k = Back1(a, i)
    OBVIOUS
  <2>2. k \in 2..Len(p) - 1 /\ q[i].node = p[k].node
    BY <1>1, <1>3, <2>1
  <2>3. QED
    BY <1>2, <2>2
<1>4. \A i \in 2..Len(q) - 1 : q[i].node \in N \cup {n}
  BY <1>1, <1>3
<1>5. ASSUME NEW m \in N \cup {n} PROVE IsEndless(m) /\ \E i \in 2..Len(q) - 1 : q[i].node = m
  <2>1. CASE m = n
    BY <2>1, <1>1
  <2>2. CASE m \in N
    <3>1. PICK i \in 2..Len(p) - 1 : p[i].node = m
      BY <2>2, <1>2
    <3>2. After(a, i) \in 2..Len(q) - 1 /\ q[After(a, i)].node = m
      BY <3>1, <1>1
    <3>3. QED
      BY <3>2, <2>2, <1>2
  <2>3. QED
    BY <2>1, <2>2
<1>6. ASSUME NEW i \in 2..Len(q) - 1, NEW j \in 2..Len(q) - 1, q[i].node = q[j].node PROVE i = j
  <2>1. CASE i = a /\ j = a
    BY <2>1
  <2>2. CASE i = a /\ j # a
    <3>1. q[j].node \in N
      BY <2>2, <1>3
    <3>2. q[j].node = n
      BY <2>2, <1>1, <1>6
    <3>3. QED
      BY <3>1, <3>2
  <2>3. CASE i # a /\ j = a
    <3>1. q[i].node \in N
      BY <2>3, <1>3
    <3>2. q[i].node = n
      BY <2>3, <1>1, <1>6
    <3>3. QED
      BY <3>1, <3>2
  <2>4. CASE i # a /\ j # a
    <3>1. p[Back1(a, i)].node = p[Back1(a, j)].node
      BY <2>4, <1>1, <1>6
    <3>2. Back1(a, i) = Back1(a, j)
      BY <2>4, <1>1, <1>2, <3>1
    <3>3. QED
      BY <2>4, <3>2, <1>1
  <2>5. QED
    BY <2>1, <2>2, <2>3, <2>4
<1>7. q \in Seq(ToSet(q)) /\ IsEvaluated(q, v) /\ Len(q) >= 2
  BY <1>0, <1>1 DEF IsInsertion
<1>8. QED
  BY <1>1, <1>2, <1>4, <1>5, <1>6, <1>7 DEF IsTour

\* The order of the stops that were there stays.
LEMMA InsertionKeepsOrder ==
  ASSUME NEW p, NEW q, NEW n, NEW v, Len(p) \in Nat, NEW a \in 2..Len(p), IsInsertion(q, p, a, n, v),
         NEW m1, NEW m2, IsBefore(p, m1, m2)
  PROVE  IsBefore(q, m1, m2)
<1>1. PICK i, j \in 2..Len(p) - 1 : i < j /\ p[i].node = m1 /\ p[j].node = m2
  BY DEF IsBefore
<1>2. /\ After(a, i) \in 2..Len(q) - 1 /\ q[After(a, i)].node = m1
      /\ After(a, j) \in 2..Len(q) - 1 /\ q[After(a, j)].node = m2
  <2>1. IsLonger(q, p, a, n)
    BY InsertionIsLonger
  <2>2. QED
    BY <2>1, <1>1 DEF IsLonger
<1>3. After(a, i) < After(a, j)
  BY <1>1 DEF After
<1>4. QED
  BY <1>2, <1>3 DEF IsBefore

LEMMA ErasureIsShorter ==
  ASSUME NEW p, NEW q, NEW v, Len(p) \in Nat, NEW a \in 2..Len(p) - 1, IsErasure(q, p, a, v)
  PROVE  IsLonger(p, q, a, p[a].node)
<1>1. /\ Len(q) = Len(p) - 1
      /\ \A i \in 1..a - 1 : q[i] = p[i]
      /\ \A i \in a..Len(p) - 1 : q[i].node = p[i + 1].node
  BY DEF IsErasure
<1>2. q[1].node = p[1].node /\ q[Len(q)].node = p[Len(p)].node
  <2>1. 1 \in 1..a - 1 /\ Len(p) - 1 \in a..Len(p) - 1 /\ (Len(p) - 1) + 1 = Len(p)
    OBVIOUS
  <2>2. QED
    BY <2>1, <1>1
<1>3. ASSUME NEW i \in 2..Len(q) - 1
      PROVE  After(a, i) \in 2..Len(p) - 1 /\ After(a, i) # a /\ p[After(a, i)].node = q[i].node
  <2>1. CASE i < a
    <3>1. i \in 1..a - 1 /\ After(a, i) = i
      BY <2>1 DEF After
    <3>2. QED
      BY <3>1, <1>1
  <2>2. CASE ~ (i < a)
    <3>1. i \in a..Len(p) - 1 /\ After(a, i) = i + 1
      BY <2>2, <1>1 DEF After
    <3>2. QED
      BY <3>1, <1>1
  <2>3. QED
    BY <2>1, <2>2
<1>4. ASSUME NEW i \in 2..Len(p) - 1, i # a
      PROVE  Back1(a, i) \in 2..Len(q) - 1 /\ After(a, Back1(a, i)) = i /\ p[i].node = q[Back1(a, i)].node
  <2>1. CASE i < a
    <3>1. i \in 1..a - 1 /\ Back1(a, i) = i /\ After(a, i) = i /\ i \in 2..Len(q) - 1
      BY <2>1, <1>1 DEF After, Back1
    <3>2. QED
      BY <3>1, <1>1
  <2>2. CASE ~ (i < a)
    <3>1. i \in Int /\ a \in Int /\ a < i /\ 2 <= a
      BY <2>2, <1>1, <1>4
    <3>2. i - 1 \in a..Len(p) - 1 /\ i - 1 \in 2..Len(q) - 1
      BY <3>1, <1>1, <1>4
    <3>3. (i - 1) + 1 = i /\ ~ (i - 1 < a)
      BY <3>1
    <3>4. Back1(a, i) = i - 1 /\ After(a, i - 1) = i
      BY <3>1, <3>3, <2>2 DEF After, Back1
    <3>5. QED
      BY <3>2, <3>3, <3>4, <1>1
  <2>3. QED
    BY <2>1, <2>2
<1>5. Len(p) = Len(q) + 1
  BY <1>1
<1>6. QED
  BY <1>2, <1>3, <1>4, <1>5 DEF IsLonger

LEMMA ErasureTours ==
  ASSUME NEW p, NEW q, NEW N, NEW v, IsTour(p, N, v), NEW a \in 2..Len(p) - 1, IsErasure(q, p, a, v)
  PROVE  IsTour(q, N \ {p[a].node}, v)
<1> DEFINE n == p[a].node
<1>0. Len(p) \in Nat /\ Len(p) >= 2
  BY DEF IsTour
<1>1. /\ Len(p) = Len(q) + 1 /\ p[1].node = q[1].node /\ p[Len(p)].node = q[Len(q)].node
      /\ \A i \in 2..Len(q) - 1 : /\ After(a, i) \in 2..Len(p) - 1 /\ After(a, i) # a
                                  /\ p[After(a, i)].node = q[i].node
      /\ \A i \in 2..Len(p) - 1 : i # a => /\ Back1(a, i) \in 2..Len(q) - 1
                                           /\ After(a, Back1(a, i)) = i
                                           /\ p[i].node = q[Back1(a, i)].node
  <2>1. IsLonger(p, q, a, p[a].node)
    BY <1>0, ErasureIsShorter
  <2>2. QED
    BY <2>1 DEF IsLonger
<1>2. /\ \A i \in 2..Len(p) - 1 : p[i].node \in N
      /\ \A m \in N : IsEndless(m) /\ \E i \in 2..Len(p) - 1 : p[i].node = m
      /\ \A i, j \in 2..Len(p) - 1 : p[i].node = p[j].node => i = j
      /\ p[1].node.type = "start" /\ p[Len(p)].node.type = "end"
  BY DEF IsTour
<1>3. ASSUME NEW i \in 2..Len(q) - 1 PROVE q[i].node \in N \ {n}
  <2>1. After(a, i) \in 2..Len(p) - 1 /\ After(a, i) # a /\ p[After(a, i)].node = q[i].node
    BY <1>1
  <2>2. p[After(a, i)].node # n
    BY <2>1, <1>2
  <2>3. QED
    BY <2>1, <2>2, <1>2
<1>4. ASSUME NEW m \in N \ {n} PROVE IsEndless(m) /\ \E i \in 2..Len(q) - 1 : q[i].node = m
  <2>1. PICK i \in 2..Len(p) - 1 : p[i].node = m
    BY <1>2
  <2>2. i # a
    BY <2>1
  <2>3. QED
    BY <2>1, <2>2, <1>1, <1>2
<1>5. ASSUME NEW i \in 2..Len(q) - 1, NEW j \in 2..Len(q) - 1, q[i].node = q[j].node PROVE i = j
  <2>1. p[After(a, i)].node = p[After(a, j)].node
    BY <1>1, <1>5
  <2>2. After(a, i) = After(a, j)
    BY <2>1, <1>1, <1>2
  <2>3. QED
    BY <2>2 DEF After
<1>6. q \in Seq(ToSet(q)) /\ IsEvaluated(q, v) /\ Len(q) >= 2
  BY <1>0, <1>1 DEF IsErasure
<1>7. QED
  BY <1>1, <1>2, <1>3, <1>4, <1>5, <1>6 DEF IsTour

\* The order of the stops that are left stays.
LEMMA ErasureKeepsOrder ==
  ASSUME NEW p, NEW q, NEW v, Len(p) \in Nat, NEW a \in 2..Len(p) - 1, IsErasure(q, p, a, v),
         NEW m1, NEW m2, IsBefore(p, m1, m2), p[a].node # m1, p[a].node # m2
  PROVE  IsBefore(q, m1, m2)
<1>1. PICK i, j \in 2..Len(p) - 1 : i < j /\ p[i].node = m1 /\ p[j].node = m2
  BY DEF IsBefore
<1>2. i # a /\ j # a
  BY <1>1
<1>3. /\ Back1(a, i) \in 2..Len(q) - 1 /\ q[Back1(a, i)].node = m1
      /\ Back1(a, j) \in 2..Len(q) - 1 /\ q[Back1(a, j)].node = m2
  <2>1. IsLonger(p, q, a, p[a].node)
    BY ErasureIsShorter
  <2>2. QED
    BY <2>1, <1>1, <1>2 DEF IsLonger
<1>4. Back1(a, i) < Back1(a, j)
  BY <1>1, <1>2 DEF Back1
<1>5. QED
  BY <1>3, <1>4 DEF IsBefore
----------------------------------------------------------------------------
(***************************************************************************)
(* Lemmas: vehicles and the stops of their orders.                         *)
(***************************************************************************)
NodesOf(S) == {Pickup(o) : o \in S} \cup {Delivery(o) : o \in S}

\* What is to be found in every vehicle the solver works on.
HasParts(v) == {"path", "orders", "pace", "capacity", "feasable"} \subseteq DOMAIN v

\* A site of the matrix, with numbers.
IsPlace(n) == n.site \in DOMAIN problem.matrix /\ {n.opens, n.closes, n.service, n.demand} \subseteq Int
IsDepot(n) == IsPlace(n) /\ n.demand = 0

\* The path and the orders of a vehicle agree, and so do the values along the path.
Serves(p, S, v) ==
  /\ S \subseteq Orders /\ IsFiniteSet(S)
  /\ IsTour(p, NodesOf(S), v)
  /\ IsDepot(p[1].node) /\ IsDepot(p[Len(p)].node)
  /\ Len(p) = 2 * Cardinality(S) + 2
  /\ \A o \in S : IsBefore(p, Pickup(o), Delivery(o))

\* The pickup and the delivery of an order were put into a path (vehicle_pickDeliver.cpp).
IsAdded(q, p, o, v) ==
  \E mid : \E a \in 2..Len(p) : \E b \in a + 1..Len(p) + 1 :
    IsInsertion(mid, p, a, Pickup(o), v) /\ IsInsertion(q, mid, b, Delivery(o), v)

\* They were taken out of it.
IsDropped(q, p, o, v) ==
  \E mid : \E a \in 2..Len(p) - 1 : \E b \in 2..Len(mid) - 1 :
    /\ p[a].node = Pickup(o) /\ IsErasure(mid, p, a, v)
    /\ mid[b].node = Delivery(o) /\ IsErasure(q, mid, b, v)

\* Nodes are told apart by their type and their order (vehicle_node.h).
LEMMA NodeFacts ==
  ASSUME NEW o
  PROVE  /\ IsEndless(Pickup(o)) /\ IsEndless(Delivery(o))
         /\ \A x : Pickup(o) # Delivery(x) /\ Delivery(o) # Pickup(x)
         /\ \A x : x # o => Pickup(o) # Pickup(x) /\ Delivery(o) # Delivery(x)
<1>1. /\ Pickup(o).type = "pickup" /\ Pickup(o).order = o
      /\ Delivery(o).type = "delivery" /\ Delivery(o).order = o
  BY DEF Pickup, Delivery, Node
<1>2. \A x : /\ Pickup(x).type = "pickup" /\ Pickup(x).order = x
             /\ Delivery(x).type = "delivery" /\ Delivery(x).order = x
  BY DEF Pickup, Delivery, Node
<1>3. QED
  BY <1>1, <1>2 DEF IsEndless

LEMMA NodesWithOne ==
  ASSUME NEW S, NEW o
  PROVE  /\ NodesOf(S \cup {o}) = (NodesOf(S) \cup {Pickup(o)}) \cup {Delivery(o)}
         /\ NodesOf(S \ {o}) = (NodesOf(S) \ {Pickup(o)}) \ {Delivery(o)}
         /\ o \notin S => Pickup(o) \notin NodesOf(S) /\ Delivery(o) \notin NodesOf(S) \cup {Pickup(o)}
         /\ o \in S => Pickup(o) \in NodesOf(S) /\ Delivery(o) \in NodesOf(S) \ {Pickup(o)}
<1>1. \A x : x # o => Pickup(o) # Pickup(x) /\ Delivery(o) # Delivery(x)
  BY NodeFacts
<1>2. \A x : Pickup(o) # Delivery(x) /\ Delivery(o) # Pickup(x)
  BY NodeFacts
<1>3. NodesOf(S \cup {o}) = (NodesOf(S) \cup {Pickup(o)}) \cup {Delivery(o)}
  BY DEF NodesOf
<1>4. NodesOf(S \ {o}) = (NodesOf(S) \ {Pickup(o)}) \ {Delivery(o)}
  BY <1>1, <1>2 DEF NodesOf
<1>5. QED
  BY <1>1, <1>2, <1>3, <1>4 DEF NodesOf

LEMMA AddedServes ==
  ASSUME NEW p, NEW S, NEW v, Serves(p, S, v), NEW o \in Orders, o \notin S, NEW q, IsAdded(q, p, o, v)
  PROVE  Serves(q, S \cup {o}, v)
<1>1. /\ S \subseteq Orders /\ IsFiniteSet(S) /\ IsTour(p, NodesOf(S), v)
      /\ Len(p) = 2 * Cardinality(S) + 2 /\ Len(p) \in Nat
      /\ \A x \in S : IsBefore(p, Pickup(x), Delivery(x))
  BY DEF Serves, IsTour
<1>2. PICK mid : \E a \in 2..Len(p) : \E b \in a + 1..Len(p) + 1 :
        IsInsertion(mid, p, a, Pickup(o), v) /\ IsInsertion(q, mid, b, Delivery(o), v)
  BY DEF IsAdded
<1>3. PICK a \in 2..Len(p), b \in 3..Len(p) + 1 :
        a < b /\ IsInsertion(mid, p, a, Pickup(o), v) /\ IsInsertion(q, mid, b, Delivery(o), v)
  BY <1>1, <1>2
<1>4. Len(mid) = Len(p) + 1 /\ Len(q) = Len(mid) + 1 /\ b \in 2..Len(mid) /\ Len(mid) \in Nat
  BY <1>1, <1>3 DEF IsInsertion
<1>5. IsEndless(Pickup(o)) /\ IsEndless(Delivery(o))
  BY NodeFacts
<1>6. /\ Pickup(o) \notin NodesOf(S) /\ Delivery(o) \notin NodesOf(S) \cup {Pickup(o)}
      /\ NodesOf(S \cup {o}) = (NodesOf(S) \cup {Pickup(o)}) \cup {Delivery(o)}
  BY NodesWithOne
<1>7. IsTour(mid, NodesOf(S) \cup {Pickup(o)}, v)
  BY <1>1, <1>3, <1>5, <1>6, InsertionTours
<1>8. IsTour(q, NodesOf(S \cup {o}), v)
  <2> DEFINE N == NodesOf(S) \cup {Pickup(o)}
  <2>1. IsTour(mid, N, v) /\ Delivery(o) \notin N
    BY <1>6, <1>7
  <2> HIDE DEF N
  <2>2. IsTour(q, N \cup {Delivery(o)}, v)
    BY <1>3, <1>4, <1>5, <2>1, InsertionTours
  <2>3. QED
    BY <2>2, <1>6 DEF N
<1>9. IsFiniteSet(S \cup {o}) /\ Cardinality(S \cup {o}) = Cardinality(S) + 1 /\ Cardinality(S) \in Nat
  BY <1>1, FS_AddElement, FS_CardinalityType
<1>10. Len(q) = 2 * Cardinality(S \cup {o}) + 2
  BY <1>1, <1>4, <1>9
<1>11. ASSUME NEW x \in S PROVE IsBefore(q, Pickup(x), Delivery(x))
  <2>1. IsBefore(mid, Pickup(x), Delivery(x))
    BY <1>1, <1>3, InsertionKeepsOrder
  <2>2. QED
    BY <2>1, <1>3, <1>4, InsertionKeepsOrder
<1>12. IsBefore(q, Pickup(o), Delivery(o))
  <2>1. q[a].node = Pickup(o) /\ q[b].node = Delivery(o)
    <3>1. mid[a].node = Pickup(o) /\ a \in 1..b - 1
      BY <1>3 DEF IsInsertion
    <3>2. q[a].node = mid[a].node
      BY <3>1, <1>3 DEF IsInsertion
    <3>3. QED
      BY <3>1, <3>2, <1>3 DEF IsInsertion
  <2>2. a \in 2..Len(q) - 1 /\ b \in 2..Len(q) - 1
    BY <1>3, <1>4
  <2>3. QED
    BY <2>1, <2>2, <1>3 DEF IsBefore
<1>13. S \cup {o} \subseteq Orders
  BY <1>1
<1>14. q[1].node = p[1].node /\ q[Len(q)].node = p[Len(p)].node
  <2>1. IsLonger(mid, p, a, Pickup(o)) /\ IsLonger(q, mid, b, Delivery(o))
    BY <1>1, <1>3, <1>4, InsertionIsLonger
  <2>2. QED
    BY <2>1 DEF IsLonger
<1>15. IsDepot(q[1].node) /\ IsDepot(q[Len(q)].node)
  BY <1>14 DEF Serves
<1>16. QED
  BY <1>8, <1>9, <1>10, <1>11, <1>12, <1>13, <1>15 DEF Serves

LEMMA DroppedServes ==
  ASSUME NEW p, NEW S, NEW v, Serves(p, S, v), NEW o \in S, NEW q, IsDropped(q, p, o, v)
  PROVE  Serves(q, S \ {o}, v)
<1>1. /\ S \subseteq Orders /\ IsFiniteSet(S) /\ IsTour(p, NodesOf(S), v)
      /\ Len(p) = 2 * Cardinality(S) + 2 /\ Len(p) \in Nat
      /\ \A x \in S : IsBefore(p, Pickup(x), Delivery(x))
  BY DEF Serves, IsTour
<1>0. PICK mid : \E a \in 2..Len(p) - 1 : \E b \in 2..Len(mid) - 1 :
        /\ p[a].node = Pickup(o) /\ IsErasure(mid, p, a, v)
        /\ mid[b].node = Delivery(o) /\ IsErasure(q, mid, b, v)
  BY DEF IsDropped
<1>2. PICK a \in 2..Len(p) - 1, b \in 2..Len(mid) - 1 :
        /\ p[a].node = Pickup(o) /\ IsErasure(mid, p, a, v)
        /\ mid[b].node = Delivery(o) /\ IsErasure(q, mid, b, v)
  BY <1>0
<1>3. Len(mid) = Len(p) - 1 /\ Len(q) = Len(mid) - 1 /\ Len(mid) \in Nat
  BY <1>1, <1>2 DEF IsErasure
<1>4. IsTour(mid, NodesOf(S) \ {Pickup(o)}, v)
  <2>1. IsTour(mid, NodesOf(S) \ {p[a].node}, v)
    BY <1>1, <1>2, ErasureTours
  <2>2. QED
    BY <2>1, <1>2
<1>5. IsTour(q, NodesOf(S \ {o}), v)
  <2> DEFINE N == NodesOf(S) \ {Pickup(o)}
  <2>1. IsTour(mid, N, v)
    BY <1>4
  <2> HIDE DEF N
  <2>2. IsTour(q, N \ {mid[b].node}, v)
    BY <2>1, <1>2, ErasureTours
  <2>3. mid[b].node = Delivery(o)
    BY <1>2
  <2>4. NodesOf(S \ {o}) = (NodesOf(S) \ {Pickup(o)}) \ {Delivery(o)}
    BY NodesWithOne
  <2>5. QED
    BY <2>2, <2>3, <2>4 DEF N
<1>6. IsFiniteSet(S \ {o}) /\ Cardinality(S \ {o}) = Cardinality(S) - 1 /\ Cardinality(S) \in Nat
  BY <1>1, FS_RemoveElement, FS_CardinalityType
<1>7. Len(q) = 2 * Cardinality(S \ {o}) + 2
  BY <1>1, <1>3, <1>6
<1>8. ASSUME NEW x \in S \ {o} PROVE IsBefore(q, Pickup(x), Delivery(x))
  <2>1. /\ Pickup(o) # Pickup(x) /\ Pickup(o) # Delivery(x)
        /\ Delivery(o) # Pickup(x) /\ Delivery(o) # Delivery(x)
    <3>1. x # o
      OBVIOUS
    <3>2. QED
      BY <3>1, NodeFacts
  <2>2. IsBefore(p, Pickup(x), Delivery(x))
    BY <1>1
  <2>3. IsBefore(mid, Pickup(x), Delivery(x))
    <3>1. p[a].node # Pickup(x) /\ p[a].node # Delivery(x)
      BY <1>2, <2>1
    <3>2. QED
      BY <1>1, <1>2, <2>2, <3>1, ErasureKeepsOrder
  <2>4. mid[b].node # Pickup(x) /\ mid[b].node # Delivery(x)
    BY <1>2, <2>1
  <2>5. QED
    BY <1>2, <1>3, <2>3, <2>4, ErasureKeepsOrder
<1>9. q[1].node = p[1].node /\ q[Len(q)].node = p[Len(p)].node
  <2>1. IsLonger(p, mid, a, p[a].node) /\ IsLonger(mid, q, b, mid[b].node)
    BY <1>1, <1>2, <1>3, ErasureIsShorter
  <2>2. QED
    BY <2>1 DEF IsLonger
<1>10. IsDepot(q[1].node) /\ IsDepot(q[Len(q)].node)
  BY <1>9 DEF Serves
<1>11. QED
  BY <1>1, <1>5, <1>6, <1>7, <1>8, <1>10 DEF Serves
----------------------------------------------------------------------------
(***************************************************************************)
(* Lemmas: the values along a path.                                        *)
(***************************************************************************)
\* The quantities of a vehicle, the pace being that of a vehicle of the call.
IsEquipped(v) ==
  v.pace \in Int /\ v.capacity \in Int /\ \E w \in ToSet(problem.vehicles) : v.pace = w.pace

\* The values at a stop.
HasValues(s) ==
  /\ IsPlace(s.node)
  /\ s.departure \in Int /\ s.cargo \in Int /\ s.twv \in Nat /\ s.cv \in Nat

\* The orders of the call have sites and numbers.
LEMMA OrdersHavePlaces ==
  ASSUME problem \in Problems, NEW o \in Orders
  PROVE  /\ IsPlace(Pickup(o)) /\ IsPlace(Delivery(o))
         /\ Pickup(o).demand = problem.orders[o].demand
         /\ Delivery(o).demand = - problem.orders[o].demand
<1> DEFINE order == problem.orders[o]
<1>1. /\ order.pick.id \in DOMAIN problem.matrix
      /\ {order.pick.opens, order.pick.closes, order.pick.service} \subseteq Int
      /\ order.drop.id \in DOMAIN problem.matrix
      /\ {order.drop.opens, order.drop.closes, order.drop.service} \subseteq Int
      /\ order.demand \in Int
  BY ProblemsAssumption DEF Orders
<1>2. /\ Pickup(o).site = order.pick.id /\ Pickup(o).opens = order.pick.opens
      /\ Pickup(o).closes = order.pick.closes /\ Pickup(o).service = order.pick.service
      /\ Pickup(o).demand = order.demand
  BY DEF Pickup, Node
<1>3. /\ Delivery(o).site = order.drop.id /\ Delivery(o).opens = order.drop.opens
      /\ Delivery(o).closes = order.drop.closes /\ Delivery(o).service = order.drop.service
      /\ Delivery(o).demand = - order.demand
  BY DEF Delivery, Node
<1> HIDE DEF order
<1>4. - order.demand \in Int
  BY <1>1
<1>5. IsPlace(Pickup(o))
  BY <1>1, <1>2 DEF IsPlace
<1>6. IsPlace(Delivery(o))
  BY <1>1, <1>3, <1>4 DEF IsPlace
<1>7. QED
  BY <1>2, <1>3, <1>5, <1>6 DEF order

\* The time between two sites is a number.
LEMMA TravelTimeIsNumber ==
  ASSUME problem \in Problems, NEW m, NEW n, IsPlace(m), IsPlace(n), NEW pace \in Int
  PROVE  TravelTime(m, n, pace) \in Int
<1>1. problem.matrix[m.site][n.site] \in Int
  BY ProblemsAssumption DEF IsPlace
<1>2. QED
  BY <1>1 DEF TravelTime

\* Every site of a path that serves orders is one of the matrix.
LEMMA PathHasPlaces ==
  ASSUME problem \in Problems, NEW p, NEW S, NEW v, Serves(p, S, v), NEW i \in 1..Len(p)
  PROVE  IsPlace(p[i].node)
<1>1. Len(p) \in Nat /\ Len(p) >= 2
  BY DEF Serves, IsTour
<1>2. CASE i = 1 \/ i = Len(p)
  BY <1>2 DEF Serves, IsDepot
<1>3. CASE i # 1 /\ i # Len(p)
  <2>1. i \in 2..Len(p) - 1
    BY <1>1, <1>3
  <2>2. p[i].node \in NodesOf(S)
    BY <2>1 DEF Serves, IsTour
  <2>3. PICK o \in S : p[i].node = Pickup(o) \/ p[i].node = Delivery(o)
    BY <2>2 DEF NodesOf
  <2>4. o \in Orders
    BY DEF Serves
  <2>5. IsPlace(Pickup(o)) /\ IsPlace(Delivery(o))
    BY <2>4, OrdersHavePlaces
  <2>6. QED
    BY <2>3, <2>5
<1>4. QED
  BY <1>2, <1>3

\* The values follow one another (vehicle_node.cpp:51).
LEMMA NextStop ==
  ASSUME NEW p, NEW v, IsEvaluated(p, v), Len(p) \in Nat, NEW i \in 2..Len(p)
  PROVE  /\ i - 1 \in 1..Len(p) /\ i \in 1..Len(p)
         /\ p[i].departure =
              (IF p[i - 1].departure + TravelTime(p[i - 1].node, p[i].node, v.pace) < p[i].node.opens
               THEN p[i].node.opens
               ELSE p[i - 1].departure + TravelTime(p[i - 1].node, p[i].node, v.pace)) + p[i].node.service
         /\ p[i].cargo = p[i - 1].cargo + p[i].node.demand
         /\ p[i].twv = p[i - 1].twv +
              (IF p[i - 1].departure + TravelTime(p[i - 1].node, p[i].node, v.pace) > p[i].node.closes
               THEN 1 ELSE 0)
         /\ p[i].cv = p[i - 1].cv + (IF HasCv(p[i].node, p[i].cargo, v.capacity) THEN 1 ELSE 0)
<1>1. i - 1 \in 1..Len(p) /\ i \in 1..Len(p) /\ i # 1
  OBVIOUS
<1>2. p[i] = StopAfter(p[i - 1], p[i].node, v)
  BY <1>1 DEF IsEvaluated, IsEvaluatedAt
<1> DEFINE n == p[i].node
           m == p[i - 1]
<1>3. p[i] = StopAfter(m, n, v)
  BY <1>2
<1> HIDE DEF n, m
<1>4. /\ p[i].departure =
           (IF m.departure + TravelTime(m.node, n, v.pace) < n.opens
            THEN n.opens ELSE m.departure + TravelTime(m.node, n, v.pace)) + n.service
      /\ p[i].cargo = m.cargo + n.demand
      /\ p[i].twv = m.twv + (IF m.departure + TravelTime(m.node, n, v.pace) > n.closes THEN 1 ELSE 0)
      /\ p[i].cv = m.cv + (IF HasCv(n, m.cargo + n.demand, v.capacity) THEN 1 ELSE 0)
  BY <1>3 DEF StopAfter
<1>5. p[i].cv = m.cv + (IF HasCv(n, p[i].cargo, v.capacity) THEN 1 ELSE 0)
  BY <1>4
<1>6. QED
  BY <1>1, <1>4, <1>5 DEF n, m

\* A path between sites of the matrix.
HasPlaces(p) == Len(p) \in Nat /\ \A i \in 1..Len(p) : IsPlace(p[i].node)

\* The values are numbers.
LEMMA PathHasNumbers ==
  ASSUME problem \in Problems, NEW p, NEW v, IsEvaluated(p, v), HasPlaces(p), IsEquipped(v)
  PROVE  \A i \in 1..Len(p) : HasValues(p[i])
<1>1. Len(p) \in Nat
  BY DEF HasPlaces
<1> DEFINE Bad == {i \in 1..Len(p) : ~ HasValues(p[i])}
<1>2. SUFFICES ASSUME Bad # {} PROVE FALSE
  OBVIOUS
<1>3. Bad \in SUBSET Nat
  BY <1>1
<1>4. PICK i \in Bad : \A j \in Bad : i <= j
  BY <1>2, <1>3, Rest!LeastElement
<1>5. i \in 1..Len(p) /\ ~ HasValues(p[i])
  OBVIOUS
<1>6. IsPlace(p[i].node)
  BY <1>5 DEF HasPlaces
<1>7. CASE i = 1
  <2> DEFINE n == p[1].node
  <2>1. p[1] = StartStop(n, v)
    BY <1>5, <1>7 DEF IsEvaluated, IsEvaluatedAt
  <2>2. IsPlace(n)
    BY <1>6, <1>7
  <2> HIDE DEF n
  <2>3. n.opens + n.service \in Int /\ n.demand \in Int
    BY <2>2 DEF IsPlace
  <2>4. p[1].node = n /\ p[1].departure = n.opens + n.service /\ p[1].cargo = n.demand
        /\ p[1].twv = 0 /\ p[1].cv = IF HasCv(n, n.demand, v.capacity) THEN 1 ELSE 0
    BY <2>1 DEF StartStop
  <2>5. HasValues(p[1])
    BY <2>2, <2>3, <2>4 DEF HasValues
  <2>6. QED
    BY <1>5, <1>7, <2>5
<1>8. CASE i # 1
  <2>1. i \in 2..Len(p)
    BY <1>5, <1>8, <1>1
  <2> DEFINE n == p[i].node
             m == p[i - 1]
             t == TravelTime(m.node, n, v.pace)
  <2>2. HasValues(m)
    <3>1. i - 1 \in 1..Len(p) /\ ~ (i <= i - 1)
      BY <2>1
    <3>2. i - 1 \notin Bad
      BY <3>1, <1>4
    <3>3. QED
      BY <3>1, <3>2
  <2>3. /\ p[i].departure = (IF m.departure + t < n.opens THEN n.opens ELSE m.departure + t) + n.service
        /\ p[i].cargo = m.cargo + n.demand
        /\ p[i].twv = m.twv + (IF m.departure + t > n.closes THEN 1 ELSE 0)
        /\ p[i].cv = m.cv + (IF HasCv(n, p[i].cargo, v.capacity) THEN 1 ELSE 0)
    BY <1>1, <2>1, NextStop
  <2>4. t \in Int
    BY <2>2, <1>6, TravelTimeIsNumber DEF HasValues, IsEquipped
  <2>5. n.opens \in Int /\ n.service \in Int /\ n.demand \in Int
    BY <1>6 DEF IsPlace
  <2>6. m.departure \in Int /\ m.cargo \in Int /\ m.twv \in Nat /\ m.cv \in Nat
    BY <2>2 DEF HasValues
  <2> HIDE DEF m, n, t
  <2>7. p[i].departure \in Int /\ p[i].cargo \in Int
    <3>1. m.departure + t \in Int /\ m.cargo + n.demand \in Int
      BY <2>4, <2>5, <2>6
    <3>2. m.departure + t + n.service \in Int /\ n.opens + n.service \in Int
      BY <3>1, <2>5
    <3>3. CASE m.departure + t < n.opens
      BY <2>3, <3>1, <3>2, <3>3
    <3>4. CASE ~ (m.departure + t < n.opens)
      BY <2>3, <3>1, <3>2, <3>4
    <3>5. QED
      BY <3>3, <3>4
  <2>8. p[i].twv \in Nat /\ p[i].cv \in Nat
    BY <2>3, <2>6
  <2>9. QED
    BY <2>7, <2>8, <1>5, <1>6 DEF HasValues
<1>9. QED
  BY <1>7, <1>8

LEMMA ValuesAreNumbers ==
  ASSUME problem \in Problems, NEW p, NEW S, NEW v, Serves(p, S, v), IsEquipped(v)
  PROVE  \A i \in 1..Len(p) : HasValues(p[i])
<1>1. Len(p) \in Nat /\ IsEvaluated(p, v)
  BY DEF Serves, IsTour
<1>2. HasPlaces(p)
  BY <1>1, PathHasPlaces DEF HasPlaces
<1>3. QED
  BY <1>1, <1>2, PathHasNumbers
----------------------------------------------------------------------------
(***************************************************************************)
(* Lemmas: choosing an insertion.                                          *)
(***************************************************************************)
\* A finite set of numbers that is not empty has a least element.
LEMMA LeastOfFinite ==
  ASSUME NEW S \in SUBSET Int, S # {}, IsFiniteSet(S)
  PROVE  \E x \in S : \A y \in S : x <= y
<1> DEFINE HasMin(X) == \E x \in X : \A y \in X : x <= y
           Lacks(X) == X # {} /\ IsFiniteSet(X) /\ ~ HasMin(X)
           Bad == {k \in Nat : \E X \in SUBSET Int : Lacks(X) /\ Cardinality(X) = k}
<1>1. ASSUME NEW X \in SUBSET Int, Lacks(X)
      PROVE  \E Y \in SUBSET Int : Lacks(Y) /\ Cardinality(Y) < Cardinality(X)
  <2>1. PICK x \in X : TRUE
    BY <1>1
  <2> DEFINE Y == X \ {x}
  <2>2. IsFiniteSet(Y) /\ Cardinality(X) \in Nat /\ Cardinality(Y) = Cardinality(X) - 1
    BY <1>1, FS_RemoveElement, FS_CardinalityType
  <2>3. Y # {}
    <3>1. SUFFICES ASSUME Y = {} PROVE FALSE
      OBVIOUS
    <3>2. \A y \in X : x <= y
      BY <3>1
    <3>3. QED
      BY <3>2, <1>1
  <2>4. ~ HasMin(Y)
    <3>1. SUFFICES ASSUME HasMin(Y) PROVE FALSE
      OBVIOUS
    <3>2. PICK m \in Y : \A y \in Y : m <= y
      BY <3>1
    <3>3. m \in Int /\ x \in Int
      OBVIOUS
    <3>4. (\A y \in X : m <= y) \/ (\A y \in X : x <= y)
      BY <3>2, <3>3
    <3>5. QED
      BY <3>4, <1>1
  <2>5. QED
    BY <2>2, <2>3, <2>4
<1>2. \A X \in SUBSET Int : IsFiniteSet(X) => Cardinality(X) \in Nat
  BY FS_CardinalityType
<1> HIDE DEF HasMin
<1>3. Bad = {}
  <2>1. SUFFICES ASSUME Bad # {} PROVE FALSE
    OBVIOUS
  <2>2. PICK k \in Bad : \A j \in Bad : k <= j
    BY <2>1, Rest!LeastElement
  <2>3. PICK X \in SUBSET Int : Lacks(X) /\ Cardinality(X) = k
    BY <2>2
  <2>4. PICK Y \in SUBSET Int : Lacks(Y) /\ Cardinality(Y) < k
    BY <2>3, <1>1
  <2>5. Cardinality(Y) \in Bad
    BY <2>4, <1>2
  <2>6. QED
    BY <2>5, <2>4, <2>2
<1>4. HasMin(S)
  BY <1>3, <1>2
<1>5. QED
  BY <1>4 DEF HasMin

\* What was tried is at pairs of positions.
IsTried(T) ==
  /\ IsFiniteSet(T)
  /\ \A r \in T : r.at[1] \in Nat /\ r.at[2] \in Nat /\ Duration(r.path) \in Int

\* There is a first one among the shortest.
LEMMA FirstShortestIsOne ==
  ASSUME NEW T, T # {}, IsTried(T)
  PROVE  FirstShortest(T) \in T
<1>0. IsFiniteSet(T) /\ \A r \in T : r.at[1] \in Nat /\ r.at[2] \in Nat /\ Duration(r.path) \in Int
  BY DEF IsTried
<1> DEFINE D == {Duration(r.path) : r \in T}
<1>1. D \in SUBSET Int /\ D # {}
  BY <1>0
<1>2. IsFiniteSet(D)
  <2> DEFINE f == [r \in T |-> Duration(r.path)]
  <2>1. f \in Surjection(T, D)
    BY DEF Surjection
  <2>2. QED
    BY <2>1, <1>0, FS_Surjection
<1>3. PICK r1 \in T : \A q \in T : Duration(r1.path) <= Duration(q.path)
  <2> HIDE DEF D
  <2>1. PICK d \in D : \A e \in D : d <= e
    BY <1>1, <1>2, LeastOfFinite
  <2>2. QED
    BY <2>1 DEF D
<1> DEFINE A == {q \in T : Duration(q.path) = Duration(r1.path)}
           As == {q.at[1] : q \in A}
<1>4. As \in SUBSET Nat /\ As # {}
  BY <1>0
<1>5. PICK r2 \in A : \A q \in A : r2.at[1] <= q.at[1]
  <2> HIDE DEF As
  <2>1. PICK d \in As : \A e \in As : d <= e
    BY <1>4, Rest!LeastElement
  <2>2. QED
    BY <2>1 DEF As
<1> DEFINE B == {q \in A : q.at[1] = r2.at[1]}
           Bs == {q.at[2] : q \in B}
<1>6. Bs \in SUBSET Nat /\ Bs # {}
  BY <1>0
<1>7. PICK r \in B : \A q \in B : r.at[2] <= q.at[2]
  <2> HIDE DEF Bs
  <2>1. PICK d \in Bs : \A e \in Bs : d <= e
    BY <1>6, Rest!LeastElement
  <2>2. QED
    BY <2>1 DEF Bs
<1>8. ASSUME NEW q \in T
      PROVE  \/ Duration(r.path) < Duration(q.path)
             \/ /\ Duration(r.path) = Duration(q.path)
                /\ r.at[1] < q.at[1] \/ (r.at[1] = q.at[1] /\ r.at[2] <= q.at[2])
  <2>1. /\ Duration(r.path) \in Int /\ Duration(q.path) \in Int
        /\ r.at[1] \in Nat /\ q.at[1] \in Nat
    BY <1>0
  <2>2. Duration(r.path) = Duration(r1.path) /\ r.at[1] = r2.at[1]
    OBVIOUS
  <2>3. CASE q \notin A
    BY <2>1, <2>2, <2>3, <1>3
  <2>4. CASE q \in A /\ q \notin B
    <3>1. r2.at[1] <= q.at[1] /\ q.at[1] # r2.at[1] /\ Duration(q.path) = Duration(r1.path)
      BY <2>4, <1>5
    <3>2. QED
      BY <2>1, <2>2, <3>1
  <2>5. CASE q \in B
    BY <2>1, <2>2, <2>5, <1>7
  <2>6. QED
    BY <2>3, <2>4, <2>5
<1>9. r \in T
  OBVIOUS
<1> HIDE DEF A, B
<1>10. QED
  BY <1>8, <1>9 DEF FirstShortest
----------------------------------------------------------------------------
(***************************************************************************)
(* Lemmas: the operations on one vehicle.                                  *)
(***************************************************************************)
\* All the orders have a pickup and a delivery with windows and demands that make
\* sense (Order::is_valid, order.cpp).
ValidOrders == \A o \in Orders : IsType(Pickup(o), "pickup") /\ IsType(Delivery(o), "delivery")

\* What a stop at n may lie between is inside the path (vehicle.cpp, position_limits):
\* nothing is put before the start or behind the end.
LEMMA LimitsAreInside ==
  ASSUME NEW p, NEW N, NEW v, NEW w, IsTour(p, N, w), NEW n
  PROVE  /\ LowLimit(p, n, v) \in Nat /\ LowLimit(p, n, v) >= 2
         /\ HighLimit(p, n, v) \in Nat /\ HighLimit(p, n, v) <= Len(p)
<1> DEFINE A == {i \in DOMAIN p : ~ CompatibleIJ(n, p[i].node, v.pace)}
           B == {i \in DOMAIN p : ~ CompatibleIJ(p[i].node, n, v.pace)}
<1>1. /\ Len(p) \in Nat /\ Len(p) >= 2 /\ DOMAIN p = 1..Len(p)
      /\ p[1].node.type = "start" /\ p[Len(p)].node.type = "end"
  BY DEF IsTour
<1>2. 1 \in A /\ Len(p) \in B
  BY <1>1 DEF CompatibleIJ
<1>3. A \in SUBSET Nat /\ B \in SUBSET Nat
  BY <1>1
<1>4. IsFiniteSet(A)
  <2>1. IsFiniteSet(DOMAIN p)
    BY <1>1, FS_Interval
  <2>2. QED
    BY <2>1, FS_Subset
<1>5. LowLimit(p, n, v) = 1 + Max(A) /\ HighLimit(p, n, v) = Min(B)
  BY DEF LowLimit, HighLimit
<1> HIDE DEF A, B
<1>6. Max(A) \in A /\ 1 <= Max(A) /\ Min(B) \in B /\ Min(B) <= Len(p)
  BY <1>2, <1>3, <1>4, MaxOfOrders, MinOfOrders
<1>7. Max(A) \in Nat /\ Min(B) \in Nat
  BY <1>3, <1>6
<1>8. QED
  <2> DEFINE m == Max(A)
             k == Min(B)
  <2>1. m \in Nat /\ k \in Nat /\ 1 <= m /\ k <= Len(p)
    BY <1>6, <1>7
  <2>2. LowLimit(p, n, v) = 1 + m /\ HighLimit(p, n, v) = k
    BY <1>5
  <2> HIDE DEF m, k
  <2>3. 1 + m \in Nat /\ 1 + m >= 2
    BY <2>1
  <2>4. QED
    BY <2>1, <2>2, <2>3

\* A vehicle that could take the order.
CanTake(v, o) ==
  /\ problem \in Problems
  /\ Serves(v.path, v.orders, v) /\ IsEquipped(v)
  /\ o \in Orders /\ o \notin v.orders

\* The way insert tries a pair of positions (vehicle_pickDeliver.cpp).
TryAt(v, o, a, b) ==
  [at |-> <<a, b>>, path |-> InsertNode(InsertNode(v.path, a, Pickup(o), v), b, Delivery(o), v)]

\* Whatever the positions, both stops are added.
LEMMA TryAdds ==
  ASSUME NEW v, NEW S, Serves(v.path, S, v), NEW o, NEW a \in 2..Len(v.path),
         NEW b \in a + 1..Len(v.path) + 1
  PROVE  IsAdded(TryAt(v, o, a, b).path, v.path, o, v)
<1> DEFINE p == v.path
           mid == InsertNode(p, a, Pickup(o), v)
           q == InsertNode(mid, b, Delivery(o), v)
<1>1. p \in Seq(ToSet(p)) /\ Len(p) \in Nat /\ Len(p) >= 2 /\ IsEvaluated(p, v)
  BY DEF Serves, IsTour
<1>2. TryAt(v, o, a, b).path = q /\ a \in 2..Len(p) /\ b \in a + 1..Len(p) + 1
  BY DEF TryAt
<1> HIDE DEF p
<1>3. IsInsertion(mid, p, a, Pickup(o), v)
  BY <1>1, <1>2, InsertNodeInserts
<1> HIDE DEF mid
<1>4. mid \in Seq(ToSet(mid)) /\ Len(mid) = Len(p) + 1 /\ IsEvaluated(mid, v)
  BY <1>3 DEF IsInsertion
<1>5. IsInsertion(q, mid, b, Delivery(o), v)
  <2>1. b \in 1..Len(mid) + 1
    BY <1>1, <1>2, <1>4
  <2>2. QED
    BY <2>1, <1>4, InsertNodeInserts
<1> HIDE DEF q
<1>6. QED
  BY <1>2, <1>3, <1>5 DEF IsAdded, p

\* The limits keep both stops inside the path, the delivery behind the pickup.
LEMMA InsertionsAreTries ==
  ASSUME NEW v, NEW S, Serves(v.path, S, v), NEW o, NEW r \in Insertions(v, o)
  PROVE  \E a \in 2..Len(v.path) : \E b \in a + 1..Len(v.path) + 1 : r = TryAt(v, o, a, b)
<1> DEFINE p == v.path
<1>1. IsTour(p, NodesOf(S), v) /\ Len(p) \in Nat /\ Len(p) >= 2
  BY DEF Serves, IsTour
<1>2. PICK a \in PickupPlaces(v, o) : r \in {[at |-> <<a, d>>, path |-> InsertNode(picked, d, Delivery(o), v)] :
            d \in DeliveryPlaces(v, o, a), picked \in {InsertNode(v.path, a, Pickup(o), v)}}
  BY DEF Insertions
<1>3. PICK b \in DeliveryPlaces(v, o, a) : r = TryAt(v, o, a, b)
  BY <1>2 DEF TryAt
<1>4. a \in 2..Len(p)
  <2>1. /\ LowLimit(p, Pickup(o), v) \in Nat /\ LowLimit(p, Pickup(o), v) >= 2
        /\ HighLimit(p, Pickup(o), v) \in Nat /\ HighLimit(p, Pickup(o), v) <= Len(p)
    BY <1>1, LimitsAreInside
  <2>2. QED
    BY <2>1, <1>1 DEF PickupPlaces
<1>5. b \in a + 1..Len(p) + 1
  <2>1. /\ LowLimit(p, Delivery(o), v) \in Nat
        /\ HighLimit(p, Delivery(o), v) \in Nat /\ HighLimit(p, Delivery(o), v) <= Len(p)
    BY <1>1, LimitsAreInside
  <2> DEFINE T == {LowLimit(p, Delivery(o), v) + 1, a + 1}
  <2>2. T \in SUBSET Nat /\ T # {} /\ a + 1 \in T
    BY <2>1, <1>4
  <2>3. IsFiniteSet(T)
    <3> DEFINE x == {LowLimit(p, Delivery(o), v) + 1}
               y == {a + 1}
    <3>1. T = x \cup y
      OBVIOUS
    <3>2. IsFiniteSet(x) /\ IsFiniteSet(y)
      BY FS_Singleton
    <3> HIDE DEF x, y, T
    <3>3. IsFiniteSet(x \cup y)
      BY <3>2, FS_Union
    <3>4. QED
      BY <3>1, <3>3
  <2>4. b \in Max(T)..HighLimit(p, Delivery(o), v) + 1
    BY DEF DeliveryPlaces
  <2> HIDE DEF T
  <2>5. Max(T) \in Nat /\ a + 1 <= Max(T)
    BY <2>2, <2>3, MaxOfOrders
  <2>6. QED
    BY <2>1, <2>4, <2>5, <1>1, <1>4
<1>6. QED
  BY <1>3, <1>4, <1>5

\* The duration of a vehicle is a number.
LEMMA DurationIsNumber ==
  ASSUME problem \in Problems, NEW p, NEW S, NEW v, Serves(p, S, v), IsEquipped(v)
  PROVE  Duration(p) \in Int
<1>1. p \in Seq(ToSet(p)) /\ Len(p) \in Nat /\ Len(p) >= 2
  BY DEF Serves, IsTour
<1>2. HasValues(p[Len(p)])
  <2>1. Len(p) \in 1..Len(p)
    BY <1>1
  <2>2. QED
    BY <2>1, ValuesAreNumbers
<1>3. QED
  BY <1>1, <1>2 DEF Duration, Last, HasValues

LEMMA InsertionsAreTried ==
  ASSUME NEW v, NEW o, CanTake(v, o)
  PROVE  IsTried(Insertions(v, o))
<1> DEFINE p == v.path
           T == Insertions(v, o)
           X == (2..Len(p)) \X (3..Len(p) + 1)
           f == [x \in X |-> TryAt(v, o, x[1], x[2])]
           U == {f[x] : x \in X}
<1>1. Serves(p, v.orders, v) /\ Len(p) \in Nat /\ Len(p) >= 2 /\ o \in Orders /\ o \notin v.orders
  BY DEF Serves, IsTour, CanTake
<1>2. IsFiniteSet(U)
  <2>1. IsFiniteSet(2..Len(p)) /\ IsFiniteSet(3..Len(p) + 1)
    <3>1. 2 \in Int /\ 3 \in Int /\ Len(p) \in Int /\ Len(p) + 1 \in Int
      BY <1>1
    <3>2. IsFiniteSet(2..Len(p))
      BY <3>1, FS_Interval, Zenon
    <3>3. IsFiniteSet(3..Len(p) + 1)
      BY <3>1, FS_Interval, Zenon
    <3>4. QED
      BY <3>2, <3>3
  <2>2. IsFiniteSet(X)
    BY <2>1, FS_Product
  <2>3. f \in Surjection(X, U)
    BY DEF Surjection
  <2>4. QED
    BY <2>2, <2>3, FS_Surjection
<1>3. ASSUME NEW r \in T
      PROVE  r \in U /\ r.at[1] \in Nat /\ r.at[2] \in Nat /\ Duration(r.path) \in Int
  <2>1. PICK a \in 2..Len(p) : \E b \in a + 1..Len(p) + 1 : r = TryAt(v, o, a, b)
    BY <1>1, InsertionsAreTries
  <2>2. PICK b \in a + 1..Len(p) + 1 : r = TryAt(v, o, a, b)
    BY <2>1
  <2>3. <<a, b>> \in X /\ <<a, b>>[1] = a /\ <<a, b>>[2] = b /\ a \in Nat /\ b \in Nat
    BY <1>1
  <2>4. r \in U
    BY <2>2, <2>3
  <2>5. r.at[1] = a /\ r.at[2] = b
    BY <2>2 DEF TryAt
  <2>6. IsAdded(r.path, p, o, v)
    BY <1>1, <2>2, TryAdds
  <2>7. Serves(r.path, v.orders \cup {o}, v)
    BY <1>1, <2>6, AddedServes
  <2>8. Duration(r.path) \in Int
    BY <2>7, DurationIsNumber DEF CanTake
  <2>9. QED
    BY <2>3, <2>4, <2>5, <2>8
<1>4. IsFiniteSet(T)
  <2>1. T \subseteq U
    BY <1>3
  <2>2. QED
    BY <2>1, <1>2, FS_Subset
<1>5. QED
  BY <1>3, <1>4 DEF IsTried

\* insert: the vehicle stays as it was, or has the order and keeps to all its windows.
LEMMA InsertAdds ==
  ASSUME NEW v, NEW o, CanTake(v, o)
  PROVE  \/ Insert(v, o) = v
         \/ \E q : IsAdded(q, v.path, o, v) /\ IsFeasable(q) /\ Insert(v, o) = Holding(v, q, o)
<1> DEFINE Taken(tried) == IF tried = {} THEN v ELSE Holding(v, FirstShortest(tried).path, o)
           T == Insertions(v, o)
<1>1. Insert(v, o) = Taken(T)
  <2>1. {Taken(tried) : tried \in {T}} = {Taken(T)}
    OBVIOUS
  <2>2. Insert(v, o) = The({Taken(T)})
    BY <2>1 DEF Insert
  <2> HIDE DEF Taken
  <2>3. QED
    BY <2>2, TheOne
<1>2. CASE T = {}
  BY <1>1, <1>2
<1>3. CASE T # {}
  <2>1. Insert(v, o) = Holding(v, FirstShortest(T).path, o)
    BY <1>1, <1>3
  <2>2. IsTried(T)
    BY InsertionsAreTried
  <2> DEFINE r == FirstShortest(T)
  <2>3. r \in T
    BY <1>3, <2>2, FirstShortestIsOne
  <2> HIDE DEF r
  <2>4. IsFeasable(r.path)
    BY <2>3 DEF Insertions
  <2>5. Serves(v.path, v.orders, v)
    BY DEF CanTake
  <2>6. PICK a \in 2..Len(v.path) : \E b \in a + 1..Len(v.path) + 1 : r = TryAt(v, o, a, b)
    BY <2>3, <2>5, InsertionsAreTries
  <2>7. PICK b \in a + 1..Len(v.path) + 1 : r = TryAt(v, o, a, b)
    BY <2>6
  <2>8. IsAdded(r.path, v.path, o, v)
    BY <2>5, <2>7, TryAdds
  <2>9. QED
    BY <2>1, <2>4, <2>8 DEF r
<1>4. QED
  BY <1>2, <1>3

\* Behind every pickup, that of the order included, and before the end (semiLIFO,
\* vehicle_pickDeliver.cpp).
LEMMA LIFOPlaces ==
  ASSUME NEW v, NEW o, CanTake(v, o), ValidOrders, NEW picked,
         IsInsertion(picked, v.path, 2, Pickup(o), v),
         NEW d \in DropLowLimit(picked, Delivery(o), v)..HighLimit(picked, Delivery(o), v)
  PROVE  d \in 3..Len(v.path) + 1
<1>1. /\ IsTour(v.path, NodesOf(v.orders), v) /\ Len(v.path) \in Nat /\ Len(v.path) >= 2
      /\ o \in Orders /\ o \notin v.orders
  BY DEF CanTake, Serves, IsTour
<1> DEFINE N == NodesOf(v.orders) \cup {Pickup(o)}
<1>2. IsTour(picked, N, v)
  <2>1. Pickup(o) \notin NodesOf(v.orders) /\ IsEndless(Pickup(o))
    BY <1>1, NodesWithOne, NodeFacts
  <2>2. 2 \in 2..Len(v.path)
    BY <1>1
  <2>3. QED
    BY <1>1, <2>1, <2>2, InsertionTours
<1>3. Len(picked) = Len(v.path) + 1 /\ picked[2].node = Pickup(o) /\ DOMAIN picked = 1..Len(picked)
  BY <1>1 DEF IsInsertion
<1> DEFINE low == LowLimit(picked, Delivery(o), v)
           high == HighLimit(picked, Delivery(o), v)
           P == {j \in DOMAIN picked : IsType(picked[j].node, "pickup")}
           Q == {i + 1 : i \in P}
           A == {low} \cup Q
<1>4. low \in Nat /\ high \in Nat /\ high <= Len(picked)
  BY <1>2, LimitsAreInside
<1>5. 3 \in Q
  <2>1. IsType(Pickup(o), "pickup")
    BY <1>1 DEF ValidOrders
  <2>2. 2 \in P
    BY <2>1, <1>3, <1>1
  <2>3. QED
    BY <2>2
<1>6. A \in SUBSET Nat /\ A # {} /\ 3 \in A
  BY <1>1, <1>3, <1>4, <1>5
<1>7. IsFiniteSet(A)
  <2>1. Q \in SUBSET Nat /\ Len(picked) + 1 \in Nat /\ \A q \in Q : q <= Len(picked) + 1
    BY <1>1, <1>3
  <2> HIDE DEF Q, low
  <2>2. IsFiniteSet(Q)
    BY <2>1, FS_BoundedSetOfNaturals
  <2>3. IsFiniteSet({low})
    BY FS_Singleton
  <2>4. QED
    BY <2>2, <2>3, FS_Union
<1>8. DropLowLimit(picked, Delivery(o), v) = Max(A)
  BY DEF DropLowLimit
<1> HIDE DEF A, low
<1>9. Max(A) \in Nat /\ 3 <= Max(A)
  BY <1>6, <1>7, MaxOfOrders
<1> DEFINE m == Max(A)
<1>10. d \in m..high /\ m \in Nat /\ 3 <= m
  BY <1>8, <1>9
<1> HIDE DEF m, high
<1>11. QED
  BY <1>1, <1>3, <1>4, <1>10

LEMMA SemiLIFOAdds ==
  ASSUME NEW v, NEW o, CanTake(v, o), ValidOrders
  PROVE  \/ SemiLIFO(v, o) = v
         \/ \E q : IsAdded(q, v.path, o, v) /\ IsFeasable(q) /\ SemiLIFO(v, o) = Holding(v, q, o)
<1> DEFINE p == v.path
           picked == InsertNode(p, 2, Pickup(o), v)
           T == LIFOInsertions(v, o, picked)
           Latest(tried) == CHOOSE r \in tried : \A q \in tried : q.at <= r.at
           Taken(tried) == IF tried = {} THEN v ELSE Holding(v, Latest(tried).path, o)
<1>1. Serves(p, v.orders, v) /\ p \in Seq(ToSet(p)) /\ Len(p) \in Nat /\ Len(p) >= 2 /\ IsEvaluated(p, v)
  BY DEF CanTake, Serves, IsTour
<1>2. SemiLIFO(v, o) = Taken(T)
  <2>1. {Taken(tried) : tried \in {T}} = {Taken(T)}
    OBVIOUS
  <2>2. {LIFOInsertions(v, o, x) : x \in {picked}} = {T}
    OBVIOUS
  <2>3. SemiLIFO(v, o) = The({Taken(tried) : tried \in {T}})
    BY <2>2 DEF SemiLIFO
  <2> HIDE DEF Taken, T
  <2>4. QED
    BY <2>1, <2>3, TheOne
<1>3. IsInsertion(picked, p, 2, Pickup(o), v)
  <2>1. 2 \in 1..Len(p) + 1
    BY <1>1
  <2> HIDE DEF p
  <2>2. QED
    BY <1>1, <2>1, InsertNodeInserts
<1>4. CASE T = {}
  BY <1>2, <1>4
<1>5. CASE T # {}
  <2>1. \A r \in T : /\ r.at \in DropLowLimit(picked, Delivery(o), v)..HighLimit(picked, Delivery(o), v)
                     /\ r.path = InsertNode(picked, r.at, Delivery(o), v) /\ IsFeasable(r.path)
    BY DEF LIFOInsertions
  <2> HIDE DEF picked, T
  <2>2. \A r \in T : r.at \in 3..Len(p) + 1
    BY <2>1, <1>3, LIFOPlaces
  <2> DEFINE A == {r.at : r \in T}
  <2>3. A \in SUBSET Nat /\ A # {} /\ Len(p) + 1 \in Nat /\ \A x \in A : x <= Len(p) + 1
    BY <1>1, <1>5, <2>2
  <2> HIDE DEF A
  <2>4. IsFiniteSet(A)
    BY <2>3, FS_BoundedSetOfNaturals
  <2>5. Max(A) \in A /\ \A x \in A : x <= Max(A)
    BY <2>3, <2>4, MaxOfOrders
  <2>6. \E r \in T : \A q \in T : q.at <= r.at
    BY <2>5 DEF A
  <2> DEFINE r == Latest(T)
  <2>7. r \in T
    BY <2>6
  <2>8. SemiLIFO(v, o) = Holding(v, r.path, o)
    BY <1>2, <1>5
  <2> HIDE DEF r, Latest
  <2>9. r.at \in 2 + 1..Len(p) + 1 /\ r.path = InsertNode(picked, r.at, Delivery(o), v) /\ IsFeasable(r.path)
    BY <2>1, <2>2, <2>7
  <2>10. IsInsertion(r.path, picked, r.at, Delivery(o), v)
    <3>1. picked \in Seq(ToSet(picked)) /\ Len(picked) = Len(p) + 1 /\ IsEvaluated(picked, v)
      BY <1>3 DEF IsInsertion
    <3>2. r.at \in 1..Len(picked) + 1
      BY <3>1, <2>9, <1>1
    <3>3. QED
      BY <2>9, <3>1, <3>2, InsertNodeInserts
  <2>11. IsAdded(r.path, p, o, v)
    <3>1. 2 \in 2..Len(p)
      BY <1>1
    <3> HIDE DEF p
    <3>2. QED
      BY <3>1, <2>9, <2>10, <1>3 DEF IsAdded
  <2>12. QED
    BY <2>8, <2>9, <2>11
<1>6. QED
  BY <1>4, <1>5

\* push_back and push_front.
LEMMA PushBackAdds ==
  ASSUME NEW v, NEW o, CanTake(v, o)
  PROVE  \E q : IsAdded(q, v.path, o, v) /\ PushBack(v, o) = Holding(v, q, o)
<1> DEFINE p == v.path
           n == Len(p)
           r == InsertAt(p, n, Stop(Pickup(o)))
           s == InsertAt(r, n + 1, Stop(Delivery(o)))
           mid == InsertNode(p, n, Pickup(o), v)
           q == Evaluate(s, n, v)
<1>1. p \in Seq(ToSet(p)) /\ n \in Nat /\ n >= 2 /\ IsEvaluated(p, v)
  BY DEF CanTake, Serves, IsTour
<1>2. PushBack(v, o) = Holding(v, q, o)
  BY DEF PushBack
<1>3. n \in 1..Len(p) + 1 /\ n \in 2..Len(p) /\ n + 1 \in n + 1..Len(p) + 1
  BY <1>1
<1> HIDE DEF p
<1>4. IsInserted(r, p, n, Stop(Pickup(o)))
  BY <1>1, <1>3, InsertAtInserts
<1>5. IsInsertion(mid, p, n, Pickup(o), v)
  BY <1>1, <1>3, InsertNodeInserts
<1> HIDE DEF r, mid
<1>6. IsInserted(s, r, n + 1, Stop(Delivery(o)))
  <2>1. r \in Seq(ToSet(r)) /\ Len(r) = Len(p) + 1
    BY <1>4 DEF IsInserted
  <2>2. n + 1 \in 1..Len(r) + 1
    BY <2>1, <1>1
  <2>3. QED
    BY <2>1, <2>2, InsertAtInserts
<1> HIDE DEF s
<1>7. IsInsertion(q, mid, n + 1, Delivery(o), v)
  BY <1>1, <1>3, <1>4, <1>5, <1>6, TwoInserted
<1> HIDE DEF q
<1>8. IsAdded(q, p, o, v)
  <2> HIDE DEF n
  <2>1. QED
    BY <1>3, <1>5, <1>7 DEF IsAdded
<1>9. QED
  BY <1>2, <1>8 DEF p

LEMMA PushFrontAdds ==
  ASSUME NEW v, NEW o, CanTake(v, o)
  PROVE  \E q : IsAdded(q, v.path, o, v) /\ PushFront(v, o) = Holding(v, q, o)
<1> DEFINE p == v.path
           P == Stop(Pickup(o))
           D == Stop(Delivery(o))
           r == InsertAt(p, 2, P)
           t == InsertAt(p, 2, D)
           s == InsertAt(t, 2, P)
           mid == InsertNode(p, 2, Pickup(o), v)
           q == Evaluate(s, 2, v)
<1>1. p \in Seq(ToSet(p)) /\ Len(p) \in Nat /\ Len(p) >= 2 /\ IsEvaluated(p, v)
  BY DEF CanTake, Serves, IsTour
<1>2. PushFront(v, o) = Holding(v, q, o)
  BY DEF PushFront
<1>3. 2 \in 1..Len(p) + 1 /\ 2 \in 2..Len(p) /\ 3 \in 2 + 1..Len(p) + 1
  BY <1>1
<1> HIDE DEF p, P, D
<1>4. IsInserted(r, p, 2, P) /\ IsInserted(t, p, 2, D)
  BY <1>1, <1>3, InsertAtInserts
<1>5. IsInsertion(mid, p, 2, Pickup(o), v)
  BY <1>1, <1>3, InsertNodeInserts
<1> HIDE DEF r, mid, t
<1>6. IsInserted(s, t, 2, P) /\ Len(t) = Len(p) + 1
  <2>1. t \in Seq(ToSet(t)) /\ Len(t) = Len(p) + 1
    BY <1>4 DEF IsInserted
  <2>2. 2 \in 1..Len(t) + 1
    BY <2>1, <1>1
  <2>3. QED
    BY <2>1, <2>2, InsertAtInserts
<1> HIDE DEF s
<1>7. IsInserted(s, r, 3, D)
  <2>1. /\ s \in Seq(ToSet(s)) /\ Len(s) = Len(t) + 1 /\ Len(r) = Len(p) + 1
        /\ s[2] = P /\ r[2] = P /\ t[2] = D
    BY <1>4, <1>6 DEF IsInserted
  <2>2. s[1] = t[1] /\ t[1] = p[1] /\ r[1] = p[1]
    <3>1. 1 \in 1..2 - 1
      OBVIOUS
    <3>2. QED
      BY <3>1, <1>4, <1>6 DEF IsInserted
  <2>3. s[3] = D
    <3>1. 2 \in 2..Len(t) /\ 2 + 1 = 3
      BY <1>1, <1>6
    <3>2. s[2 + 1] = t[2]
      BY <3>1, <1>6 DEF IsInserted
    <3>3. QED
      BY <3>1, <3>2, <2>1
  <2>4. \A i \in 1..3 - 1 : s[i] = r[i]
    <3>1. \A i \in 1..3 - 1 : i = 1 \/ i = 2
      OBVIOUS
    <3>2. QED
      BY <3>1, <2>1, <2>2
  <2>5. \A i \in 3..Len(r) : s[i + 1] = r[i]
    <3>1. SUFFICES ASSUME NEW i \in 3..Len(r) PROVE s[i + 1] = r[i]
      OBVIOUS
    <3>2. i \in 2..Len(t) /\ i - 1 \in 2..Len(p) /\ (i - 1) + 1 = i
      BY <2>1, <1>1, <1>6
    <3>3. s[i + 1] = t[i]
      BY <3>2, <1>6 DEF IsInserted
    <3>4. t[(i - 1) + 1] = p[i - 1] /\ r[(i - 1) + 1] = p[i - 1]
      BY <3>2, <1>4 DEF IsInserted
    <3>5. QED
      BY <3>2, <3>3, <3>4
  <2>6. Len(s) = Len(r) + 1
    BY <2>1, <1>6
  <2>7. QED
    BY <2>1, <2>3, <2>4, <2>5, <2>6 DEF IsInserted
<1>8. IsInsertion(q, mid, 2 + 1, Delivery(o), v)
  <2>1. IsInserted(s, r, 2 + 1, Stop(Delivery(o))) /\ IsInserted(r, p, 2, Stop(Pickup(o)))
    BY <1>4, <1>7 DEF P, D
  <2>2. QED
    BY <1>1, <1>3, <1>5, <2>1, TwoInserted
<1> HIDE DEF q
<1>9. IsAdded(q, p, o, v)
  <2>1. 2 + 1 \in 2 + 1..Len(p) + 1
    BY <1>1
  <2>2. QED
    BY <1>3, <1>5, <1>8, <2>1 DEF IsAdded
<1>10. QED
  BY <1>2, <1>9 DEF p

\* Vehicle::erase(node): the stop at the node, which there is one of.
LEMMA EraseNodeErases ==
  ASSUME NEW p, NEW N, NEW v, IsTour(p, N, v), NEW n \in N
  PROVE  \E a \in 2..Len(p) - 1 : p[a].node = n /\ IsErasure(EraseNode(p, n, v), p, a, v)
<1> DEFINE a == CHOOSE i \in DOMAIN p : p[i].node = n
<1>1. /\ p \in Seq(ToSet(p)) /\ Len(p) \in Nat /\ Len(p) >= 2 /\ DOMAIN p = 1..Len(p) /\ IsEvaluated(p, v)
      /\ p[1].node.type = "start" /\ p[Len(p)].node.type = "end"
      /\ IsEndless(n) /\ \E i \in 2..Len(p) - 1 : p[i].node = n
  BY DEF IsTour
<1>2. \E i \in DOMAIN p : p[i].node = n
  BY <1>1
<1>3. a \in 1..Len(p) /\ p[a].node = n
  BY <1>1, <1>2
<1>4. EraseNode(p, n, v) = EraseAt(p, a, v)
  BY DEF EraseNode
<1> HIDE DEF a
<1>5. a # 1 /\ a # Len(p)
  BY <1>1, <1>3 DEF IsEndless
<1>6. a \in 2..Len(p) - 1
  <2>1. Len(p) \in Nat /\ a \in 1..Len(p)
    BY <1>1, <1>3
  <2> DEFINE l == Len(p)
  <2>2. l \in Nat /\ a \in 1..l /\ a # 1 /\ a # l
    BY <2>1, <1>5
  <2> HIDE DEF l
  <2>3. a \in 2..l - 1
    BY <2>2
  <2>4. QED
    BY <2>3 DEF l
<1>7. IsErasure(EraseAt(p, a, v), p, a, v)
  BY <1>1, <1>3, EraseAtErases
<1>8. QED
  BY <1>3, <1>4, <1>6, <1>7

\* erase(order), vehicle_pickDeliver.cpp: both stops leave the path.
LEMMA DropsBothStops ==
  ASSUME NEW p, NEW S, NEW v, Serves(p, S, v), NEW o \in S
  PROVE  IsDropped(EraseNode(EraseNode(p, Pickup(o), v), Delivery(o), v), p, o, v)
<1> DEFINE mid == EraseNode(p, Pickup(o), v)
           N == NodesOf(S)
<1>1. IsTour(p, N, v)
  BY DEF Serves
<1>2. Pickup(o) \in N /\ Delivery(o) \in N \ {Pickup(o)}
  BY NodesWithOne
<1> HIDE DEF N
<1>3. PICK a \in 2..Len(p) - 1 : p[a].node = Pickup(o) /\ IsErasure(mid, p, a, v)
  BY <1>1, <1>2, EraseNodeErases
<1> HIDE DEF mid
<1>4. IsTour(mid, N \ {Pickup(o)}, v)
  <2>1. IsTour(mid, N \ {p[a].node}, v)
    BY <1>1, <1>3, ErasureTours
  <2>2. QED
    BY <2>1, <1>3
<1>5. PICK b \in 2..Len(mid) - 1 :
        mid[b].node = Delivery(o) /\ IsErasure(EraseNode(mid, Delivery(o), v), mid, b, v)
  BY <1>2, <1>4, EraseNodeErases
<1>6. IsDropped(EraseNode(mid, Delivery(o), v), p, o, v)
  BY <1>3, <1>5 DEF IsDropped
<1>7. QED
  BY <1>6 DEF mid

\* An order that is put in and taken out again leaves the path as it was
\* (initial_solution.cpp:81-93).
LEMMA AddedAndDropped ==
  ASSUME NEW p, NEW S, NEW v, Serves(p, S, v), NEW o \in Orders, o \notin S,
         NEW q, IsAdded(q, p, o, v), NEW r, IsDropped(r, q, o, v)
  PROVE  r = p
<1>1. Serves(q, S \cup {o}, v)
  BY AddedServes
<1>2. /\ p \in Seq(ToSet(p)) /\ Len(p) \in Nat /\ Len(p) >= 2 /\ IsEvaluated(p, v)
      /\ IsTour(q, NodesOf(S \cup {o}), v) /\ Len(q) \in Nat
      /\ \A i, j \in 2..Len(q) - 1 : q[i].node = q[j].node => i = j
  <2>1. IsTour(p, NodesOf(S), v) /\ IsTour(q, NodesOf(S \cup {o}), v)
    BY <1>1 DEF Serves
  <2> DEFINE N == NodesOf(S)
             L == NodesOf(S \cup {o})
  <2> HIDE DEF N, L
  <2>2. IsTour(p, N, v) /\ IsTour(q, L, v)
    BY <2>1 DEF N, L
  <2>3. p \in Seq(ToSet(p)) /\ Len(p) \in Nat /\ Len(p) >= 2 /\ IsEvaluated(p, v)
    BY <2>2 DEF IsTour
  <2>4. Len(q) \in Nat /\ \A i, j \in 2..Len(q) - 1 : q[i].node = q[j].node => i = j
    BY <2>2 DEF IsTour
  <2>5. QED
    BY <2>1, <2>3, <2>4
<1>3. PICK up : \E a \in 2..Len(p) : \E b \in a + 1..Len(p) + 1 :
        IsInsertion(up, p, a, Pickup(o), v) /\ IsInsertion(q, up, b, Delivery(o), v)
  BY DEF IsAdded
<1>4. PICK a \in 2..Len(p), b \in 3..Len(p) + 1 :
        a < b /\ IsInsertion(up, p, a, Pickup(o), v) /\ IsInsertion(q, up, b, Delivery(o), v)
  BY <1>2, <1>3
<1>5. PICK down : \E c \in 2..Len(q) - 1 : \E d \in 2..Len(down) - 1 :
        /\ q[c].node = Pickup(o) /\ IsErasure(down, q, c, v)
        /\ down[d].node = Delivery(o) /\ IsErasure(r, down, d, v)
  BY DEF IsDropped
<1>6. PICK c \in 2..Len(q) - 1, d \in 2..Len(down) - 1 :
        /\ q[c].node = Pickup(o) /\ IsErasure(down, q, c, v)
        /\ down[d].node = Delivery(o) /\ IsErasure(r, down, d, v)
  BY <1>5
<1>7. /\ Len(up) = Len(p) + 1 /\ Len(q) = Len(p) + 2 /\ Len(down) = Len(p) + 1 /\ Len(r) = Len(p)
      /\ r \in Seq(ToSet(r)) /\ IsEvaluated(r, v)
  BY <1>2, <1>4, <1>6 DEF IsInsertion, IsErasure
<1>8. /\ \A i \in 1..a - 1 : up[i].node = p[i].node
      /\ up[a].node = Pickup(o)
      /\ \A i \in a..Len(p) : up[i + 1].node = p[i].node
  BY <1>4 DEF IsInsertion
<1>9. /\ \A i \in 1..b - 1 : q[i].node = up[i].node
      /\ q[b].node = Delivery(o)
      /\ \A i \in b..Len(up) : q[i + 1].node = up[i].node
  BY <1>4 DEF IsInsertion
<1>10. c = a
  <2>1. a \in 2..Len(q) - 1 /\ a \in 1..b - 1
    BY <1>4, <1>7
  <2>2. q[a].node = Pickup(o)
    BY <2>1, <1>8, <1>9
  <2>3. QED
    BY <2>1, <2>2, <1>2, <1>6
<1>11. /\ \A i \in 1..a - 1 : down[i].node = q[i].node
       /\ \A i \in a..Len(q) - 1 : down[i].node = q[i + 1].node
  BY <1>6, <1>10 DEF IsErasure
<1>12. d = b - 1
  <2>1. IsTour(down, NodesOf(S \cup {o}) \ {q[c].node}, v)
    BY <1>2, <1>6, ErasureTours
  <2>2. \A i, j \in 2..Len(down) - 1 : down[i].node = down[j].node => i = j
    BY <2>1 DEF IsTour
  <2>3. b - 1 \in 2..Len(down) - 1 /\ b - 1 \in a..Len(q) - 1 /\ (b - 1) + 1 = b
    BY <1>4, <1>7
  <2>4. down[b - 1].node = Delivery(o)
    BY <2>3, <1>9, <1>11
  <2>5. QED
    BY <2>2, <2>3, <2>4, <1>6
<1>13. /\ \A i \in 1..b - 2 : r[i].node = down[i].node
       /\ \A i \in b - 1..Len(p) : r[i].node = down[i + 1].node
  <2>1. /\ \A i \in 1..d - 1 : r[i] = down[i]
        /\ \A i \in d..Len(down) - 1 : r[i].node = down[i + 1].node
    BY <1>6 DEF IsErasure
  <2>2. d - 1 = b - 2 /\ Len(down) - 1 = Len(p)
    BY <1>7, <1>12, <1>4
  <2>3. QED
    BY <2>1, <2>2, <1>12
<1>14. ASSUME NEW i \in 1..Len(p) PROVE r[i].node = p[i].node
  <2>1. CASE i < a
    <3>1. i \in 1..a - 1 /\ i \in 1..b - 1 /\ i \in 1..b - 2
      BY <2>1, <1>4
    <3>2. QED
      BY <3>1, <1>8, <1>9, <1>11, <1>13
  <2>2. CASE i >= a /\ i < b - 1
    <3>1. i \in a..Len(p) /\ i + 1 \in 1..b - 1 /\ i \in a..Len(q) - 1 /\ i \in 1..b - 2
      BY <2>2, <1>4, <1>7
    <3>2. QED
      BY <3>1, <1>8, <1>9, <1>11, <1>13
  <2>3. CASE i >= b - 1
    <3>1. /\ i \in a..Len(p) /\ i + 1 \in b..Len(up) /\ i + 1 \in a..Len(q) - 1 /\ i \in b - 1..Len(p)
          /\ (i + 1) + 1 = i + 2
      BY <2>3, <1>4, <1>7
    <3>2. r[i].node = down[i + 1].node /\ down[i + 1].node = q[(i + 1) + 1].node
      BY <3>1, <1>11, <1>13
    <3>3. q[(i + 1) + 1].node = up[i + 1].node /\ up[i + 1].node = p[i].node
      BY <3>1, <1>8, <1>9
    <3>4. QED
      BY <3>2, <3>3
  <2>4. QED
    BY <2>1, <2>2, <2>3, <1>4
<1>15. SameNodes(r, p, Len(p))
  BY <1>14 DEF SameNodes
<1>16. QED
  BY <1>2, <1>7, <1>15, EvaluatedIsUnique
----------------------------------------------------------------------------
(***************************************************************************)
(* Lemmas: time windows and loads.                                         *)
(***************************************************************************)
IsOnTime(p, i, v) == p[i - 1].departure + TravelTime(p[i - 1].node, p[i].node, v.pace) <= p[i].node.closes

IsPunctual(p, v) == \A i \in 2..Len(p) : IsOnTime(p, i, v)

IsLight(p, v) == \A i \in 1..Len(p) : ~ HasCv(p[i].node, p[i].cargo, v.capacity)

\* twvTot and cvTot of the last stop count what is violated before it
\* (vehicle_node.cpp:51).
LEMMA FeasableMeans ==
  ASSUME problem \in Problems, NEW p, NEW S, NEW v, Serves(p, S, v), IsEquipped(v)
  PROVE  IsFeasable(p) <=> IsPunctual(p, v) /\ IsLight(p, v)
<1>1. p \in Seq(ToSet(p)) /\ Len(p) \in Nat /\ Len(p) >= 2 /\ IsEvaluated(p, v)
  BY DEF Serves, IsTour
<1>2. \A i \in 1..Len(p) : HasValues(p[i])
  BY ValuesAreNumbers
<1> DEFINE Late(i) == p[i].twv = 0 <=> \A j \in 2..i : IsOnTime(p, j, v)
           Heavy(i) == p[i].cv = 0 <=> \A j \in 1..i : ~ HasCv(p[j].node, p[j].cargo, v.capacity)
           Bad == {i \in 1..Len(p) : ~ (Late(i) /\ Heavy(i))}
<1>3. Late(1) /\ Heavy(1)
  <2> DEFINE n == p[1].node
  <2>1. p[1] = StartStop(n, v)
    <3>1. 1 \in 1..Len(p)
      BY <1>1
    <3>2. QED
      BY <1>1, <3>1 DEF IsEvaluated, IsEvaluatedAt
  <2> HIDE DEF n
  <2>2. /\ p[1].node = n /\ p[1].cargo = n.demand /\ p[1].twv = 0
        /\ p[1].cv = IF HasCv(n, n.demand, v.capacity) THEN 1 ELSE 0
    BY <2>1 DEF StartStop
  <2>3. 2..1 = {} /\ 1..1 = {1}
    OBVIOUS
  <2>4. QED
    BY <2>2, <2>3
<1>4. ASSUME NEW i \in 2..Len(p), Late(i - 1), Heavy(i - 1) PROVE Late(i) /\ Heavy(i)
  <2>1. /\ i - 1 \in 1..Len(p) /\ i \in 1..Len(p)
        /\ p[i].twv = p[i - 1].twv +
              (IF p[i - 1].departure + TravelTime(p[i - 1].node, p[i].node, v.pace) > p[i].node.closes
               THEN 1 ELSE 0)
        /\ p[i].cv = p[i - 1].cv + (IF HasCv(p[i].node, p[i].cargo, v.capacity) THEN 1 ELSE 0)
    BY <1>1, NextStop
  <2>2. /\ p[i - 1].twv \in Nat /\ p[i - 1].cv \in Nat /\ p[i - 1].departure \in Int
        /\ p[i].node.closes \in Int /\ IsPlace(p[i - 1].node) /\ IsPlace(p[i].node)
    BY <2>1, <1>2 DEF HasValues, IsPlace
  <2>3. TravelTime(p[i - 1].node, p[i].node, v.pace) \in Int
    BY <2>2, TravelTimeIsNumber DEF IsEquipped
  <2>4. 2..i = (2..i - 1) \cup {i} /\ 1..i = (1..i - 1) \cup {i}
    OBVIOUS
  <2>5. Late(i)
    <3> DEFINE t == TravelTime(p[i - 1].node, p[i].node, v.pace)
               arrival == p[i - 1].departure + t
               w == p[i - 1].twv
    <3>1. IsOnTime(p, i, v) <=> arrival <= p[i].node.closes
      BY DEF IsOnTime
    <3>2. arrival \in Int /\ p[i].node.closes \in Int /\ w \in Nat
      BY <2>2, <2>3
    <3>3. p[i].twv = w + (IF arrival > p[i].node.closes THEN 1 ELSE 0)
      BY <2>1
    <3>4. w = 0 <=> \A j \in 2..i - 1 : IsOnTime(p, j, v)
      BY <1>4
    <3> HIDE DEF arrival, w
    <3>5. p[i].twv = 0 <=> w = 0 /\ arrival <= p[i].node.closes
      BY <3>2, <3>3
    <3>6. QED
      BY <3>1, <3>4, <3>5, <2>4
  <2>6. Heavy(i)
    <3> DEFINE w == p[i - 1].cv
               H(j) == HasCv(p[j].node, p[j].cargo, v.capacity)
    <3>1. w = 0 <=> \A j \in 1..i - 1 : ~ H(j)
      BY <1>4
    <3>2. p[i].cv = w + (IF H(i) THEN 1 ELSE 0) /\ w \in Nat
      BY <2>1, <2>2
    <3> HIDE DEF w, H
    <3>3. p[i].cv = 0 <=> w = 0 /\ ~ H(i)
      BY <3>2
    <3>4. p[i].cv = 0 <=> \A j \in 1..i : ~ H(j)
      BY <3>1, <3>3, <2>4
    <3>5. QED
      BY <3>4 DEF H
  <2>7. QED
    BY <2>5, <2>6
<1> HIDE DEF Late, Heavy
<1>5. Bad = {}
  <2>1. SUFFICES ASSUME Bad # {} PROVE FALSE
    OBVIOUS
  <2>2. Bad \in SUBSET Nat
    BY <1>1
  <2>3. PICK i \in Bad : \A j \in Bad : i <= j
    BY <2>1, <2>2, Rest!LeastElement
  <2>4. i # 1 /\ i \in 1..Len(p) /\ ~ (Late(i) /\ Heavy(i))
    BY <1>3
  <2>5. i \in 2..Len(p) /\ i - 1 \in 1..Len(p) /\ ~ (i <= i - 1)
    BY <2>4, <1>1
  <2>6. i - 1 \notin Bad
    BY <2>3, <2>5
  <2>7. Late(i - 1) /\ Heavy(i - 1)
    BY <2>5, <2>6
  <2>8. QED
    BY <1>4, <2>4, <2>5, <2>7
<1>6. Late(Len(p)) /\ Heavy(Len(p))
  <2>1. Len(p) \in 1..Len(p)
    BY <1>1
  <2>2. QED
    BY <2>1, <1>5
<1>7. Last(p) = p[Len(p)]
  BY <1>1 DEF Last
<1>8. QED
  BY <1>6, <1>7 DEF Late, Heavy, IsFeasable, IsPunctual, IsLight

\* The sites of a path from which a stop was erased.
LEMMA ErasedHasPlaces ==
  ASSUME NEW p, HasPlaces(p), NEW v, NEW a \in 2..Len(p) - 1, NEW q, IsErasure(q, p, a, v)
  PROVE  HasPlaces(q)
<1>1. /\ Len(q) = Len(p) - 1 /\ Len(p) \in Nat
      /\ \A i \in 1..a - 1 : q[i] = p[i]
      /\ \A i \in a..Len(p) - 1 : q[i].node = p[i + 1].node
  BY DEF IsErasure, HasPlaces
<1>2. ASSUME NEW i \in 1..Len(q) PROVE IsPlace(q[i].node)
  <2>1. CASE i < a
    <3>1. i \in 1..a - 1 /\ i \in 1..Len(p)
      BY <2>1, <1>1
    <3>2. QED
      BY <3>1, <1>1 DEF HasPlaces
  <2>2. CASE i >= a
    <3>1. i \in a..Len(p) - 1 /\ i + 1 \in 1..Len(p)
      BY <2>2, <1>1
    <3>2. QED
      BY <3>1, <1>1 DEF HasPlaces
  <2>3. QED
    BY <2>1, <2>2, <1>1
<1>3. Len(q) \in Nat
  BY <1>1
<1>4. QED
  BY <1>2, <1>3 DEF HasPlaces

\* Behind an erased stop the load is smaller by what was picked up there.
LEMMA ErasureShiftsCargo ==
  ASSUME problem \in Problems, NEW p, HasPlaces(p), NEW v, IsEvaluated(p, v), IsEquipped(v),
         NEW a \in 2..Len(p) - 1, NEW q, IsErasure(q, p, a, v)
  PROVE  \A i \in a..Len(p) - 1 : q[i].cargo = p[i + 1].cargo - p[a].node.demand
<1>1. /\ Len(q) = Len(p) - 1 /\ Len(p) \in Nat /\ Len(q) \in Nat /\ a \in Nat
      /\ \A i \in 1..a - 1 : q[i] = p[i]
      /\ \A i \in a..Len(p) - 1 : q[i].node = p[i + 1].node
      /\ IsEvaluated(q, v)
  BY DEF IsErasure, HasPlaces
<1>2. /\ \A i \in 1..Len(p) : HasValues(p[i])
      /\ \A i \in 1..Len(q) : HasValues(q[i])
  BY <1>1, ErasedHasPlaces, PathHasNumbers
<1>3. /\ \A i \in 1..Len(p) : p[i].cargo \in Int /\ p[i].node.demand \in Int
      /\ \A i \in 1..Len(q) : q[i].cargo \in Int /\ q[i].node.demand \in Int
  BY <1>2 DEF HasValues, IsPlace
<1>4. /\ \A i \in 2..Len(p) : p[i].cargo = p[i - 1].cargo + p[i].node.demand
      /\ \A i \in 2..Len(q) : q[i].cargo = q[i - 1].cargo + q[i].node.demand
  BY <1>1, NextStop
<1> DEFINE d == p[a].node.demand
           Bad == {i \in a..Len(p) - 1 : q[i].cargo # p[i + 1].cargo - d}
<1>5. d \in Int
  <2>1. a \in 1..Len(p)
    BY <1>1
  <2>2. QED
    BY <2>1, <1>3
<1> HIDE DEF d
<1>6. Bad = {}
  <2>1. SUFFICES ASSUME Bad # {} PROVE FALSE
    OBVIOUS
  <2>2. Bad \in SUBSET Nat
    BY <1>1
  <2>3. PICK i \in Bad : \A j \in Bad : i <= j
    BY <2>1, <2>2, Rest!LeastElement
  <2>4. i \in a..Len(p) - 1 /\ q[i].cargo # p[i + 1].cargo - d
    OBVIOUS
  <2>5. /\ i \in 2..Len(q) /\ i + 1 \in 2..Len(p) /\ i - 1 \in 1..Len(q) /\ i \in 1..Len(p)
        /\ (i + 1) - 1 = i /\ i + 1 \in 1..Len(p) /\ i \in 1..Len(q)
    BY <2>4, <1>1
  <2> DEFINE e == p[i + 1].node.demand
  <2>6. q[i].cargo = q[i - 1].cargo + e /\ p[i + 1].cargo = p[i].cargo + e
    <3>1. q[i].node = p[i + 1].node
      BY <2>4, <1>1
    <3>2. q[i].cargo = q[i - 1].cargo + q[i].node.demand
      BY <2>5, <1>4
    <3>3. p[i + 1].cargo = p[(i + 1) - 1].cargo + p[i + 1].node.demand
      BY <2>5, <1>4
    <3>4. QED
      BY <3>1, <3>2, <3>3, <2>5
  <2>7. /\ q[i - 1].cargo \in Int /\ p[i].cargo \in Int /\ e \in Int
    BY <2>5, <1>3
  <2> HIDE DEF e
  <2>8. q[i - 1].cargo = p[i].cargo - d
    <3>1. CASE i = a
      <4>1. a - 1 \in 1..a - 1 /\ a \in 2..Len(p) /\ a - 1 \in 1..Len(p)
        BY <1>1
      <4>2. q[a - 1] = p[a - 1] /\ p[a].cargo = p[a - 1].cargo + d /\ p[a - 1].cargo \in Int
        BY <4>1, <1>1, <1>3, <1>4 DEF d
      <4>3. QED
        BY <3>1, <4>2, <1>5
    <3>2. CASE i # a
      <4>1. i - 1 \in a..Len(p) - 1 /\ ~ (i <= i - 1) /\ (i - 1) + 1 = i
        BY <3>2, <2>4, <1>1
      <4>2. i - 1 \notin Bad
        BY <4>1, <2>3
      <4>3. QED
        BY <4>1, <4>2
    <3>3. QED
      BY <3>1, <3>2
  <2>9. QED
    BY <2>4, <2>6, <2>7, <2>8, <1>5
<1>7. QED
  BY <1>6 DEF d

\* No detour is a short cut at the pace of a vehicle.
LEMMA Detours ==
  ASSUME IsMetric, NEW v, IsEquipped(v), NEW m, NEW n, NEW l, IsPlace(m), IsPlace(n), IsPlace(l)
  PROVE  TravelTime(m, l, v.pace) <= TravelTime(m, n, v.pace) + TravelTime(n, l, v.pace)
<1>1. PICK w \in ToSet(problem.vehicles) : v.pace = w.pace
  BY DEF IsEquipped
<1>2. /\ m.site \in DOMAIN problem.matrix /\ n.site \in DOMAIN problem.matrix
      /\ l.site \in DOMAIN problem.matrix
  BY DEF IsPlace
<1>3. w.pace * problem.matrix[m.site][l.site]
        <= w.pace * problem.matrix[m.site][n.site] + w.pace * problem.matrix[n.site][l.site]
  BY <1>2 DEF IsMetric
<1>4. QED
  BY <1>1, <1>3 DEF TravelTime

\* Without a stop the vehicle is nowhere later, and late nowhere where it was not.
LEMMA ErasureIsPunctual ==
  ASSUME problem \in Problems, IsMetric, NEW p, HasPlaces(p), NEW v, IsEvaluated(p, v), IsEquipped(v),
         NEW a \in 2..Len(p) - 1, p[a].node.service >= 0, NEW q, IsErasure(q, p, a, v),
         IsPunctual(p, v)
  PROVE  IsPunctual(q, v)
<1>1. /\ Len(q) = Len(p) - 1 /\ Len(p) \in Nat /\ Len(q) \in Nat /\ a \in Nat
      /\ \A i \in 1..a - 1 : q[i] = p[i]
      /\ \A i \in a..Len(p) - 1 : q[i].node = p[i + 1].node
      /\ IsEvaluated(q, v)
  BY DEF IsErasure, HasPlaces
<1>2. /\ \A i \in 1..Len(p) : HasValues(p[i])
      /\ \A i \in 1..Len(q) : HasValues(q[i])
  BY <1>1, ErasedHasPlaces, PathHasNumbers
<1> DEFINE T(m, n) == TravelTime(m, n, v.pace)
           Later(x, y) == IF x < y THEN y ELSE x
           Ok(i) == /\ q[i - 1].departure + T(q[i - 1].node, q[i].node)
                         <= p[i].departure + T(p[i].node, p[i + 1].node)
                    /\ q[i].departure <= p[i + 1].departure
           Bad == {i \in a..Len(q) : ~ Ok(i)}
<1>3. ASSUME NEW i \in 1..Len(p) PROVE p[i].departure \in Int /\ IsPlace(p[i].node)
  BY <1>2 DEF HasValues
<1>4. ASSUME NEW i \in 1..Len(q) PROVE q[i].departure \in Int /\ IsPlace(q[i].node)
  BY <1>2 DEF HasValues
<1>5. ASSUME NEW m, NEW n, IsPlace(m), IsPlace(n) PROVE T(m, n) \in Int
  BY <1>5, TravelTimeIsNumber DEF IsEquipped
<1>6. \A n : IsPlace(n) => n.opens \in Int /\ n.closes \in Int /\ n.service \in Int
  BY DEF IsPlace
<1>7. \A i \in 2..Len(p) :
        p[i].departure = Later(p[i - 1].departure + T(p[i - 1].node, p[i].node), p[i].node.opens)
                           + p[i].node.service
  BY <1>1, NextStop
<1>8. \A i \in 2..Len(q) :
        q[i].departure = Later(q[i - 1].departure + T(q[i - 1].node, q[i].node), q[i].node.opens)
                           + q[i].node.service
  BY <1>1, NextStop
<1> HIDE DEF T
<1>9. ASSUME NEW i \in a..Len(q),
             q[i - 1].departure + T(q[i - 1].node, q[i].node)
               <= p[i].departure + T(p[i].node, p[i + 1].node)
      PROVE  Ok(i)
  <2>1. /\ i \in 2..Len(q) /\ i + 1 \in 2..Len(p) /\ (i + 1) - 1 = i /\ i \in 1..Len(q) /\ i - 1 \in 1..Len(q)
        /\ i \in 1..Len(p) /\ i + 1 \in 1..Len(p) /\ i \in a..Len(p) - 1
    BY <1>1
  <2> DEFINE x == q[i - 1].departure + T(q[i - 1].node, q[i].node)
             y == p[i].departure + T(p[i].node, p[i + 1].node)
             n == p[i + 1].node
  <2>2. q[i].node = n
    BY <2>1, <1>1
  <2>3. q[i].departure = Later(x, n.opens) + n.service
    BY <2>1, <2>2, <1>8
  <2>4. p[i + 1].departure = Later(y, n.opens) + n.service
    <3>1. p[i + 1].departure = Later(p[(i + 1) - 1].departure + T(p[(i + 1) - 1].node, p[i + 1].node), p[i + 1].node.opens)
                           + p[i + 1].node.service
      BY <2>1, <1>7
    <3>2. QED
      BY <3>1, <2>1
  <2>5. x \in Int
    <3>1. q[i - 1].departure \in Int /\ IsPlace(q[i - 1].node) /\ IsPlace(q[i].node)
      BY <2>1, <1>4
    <3>2. T(q[i - 1].node, q[i].node) \in Int
      BY <3>1, <1>5
    <3>3. QED
      BY <3>1, <3>2
  <2>6. y \in Int /\ IsPlace(n)
    <3>1. p[i].departure \in Int /\ IsPlace(p[i].node) /\ IsPlace(n)
      BY <2>1, <1>3
    <3>2. T(p[i].node, p[i + 1].node) \in Int
      BY <3>1, <1>5
    <3>3. QED
      BY <3>1, <3>2
  <2>7. n.opens \in Int /\ n.service \in Int
    BY <2>6, <1>6
  <2>8. x <= y
    BY <1>9
  <2> HIDE DEF x, y, n
  <2>9. Later(x, n.opens) + n.service <= Later(y, n.opens) + n.service
    BY <2>5, <2>6, <2>7, <2>8
  <2>10. q[i].departure <= p[i + 1].departure
    BY <2>3, <2>4, <2>9
  <2>11. QED
    BY <2>10, <1>9
<1>10. q[a - 1].departure + T(q[a - 1].node, q[a].node)
         <= p[a].departure + T(p[a].node, p[a + 1].node)
  <2>1. /\ a - 1 \in 1..a - 1 /\ a \in 2..Len(p) /\ a - 1 \in 1..Len(p) /\ a \in 1..Len(p)
        /\ a + 1 \in 1..Len(p) /\ a \in a..Len(p) - 1
    BY <1>1
  <2>2. q[a - 1] = p[a - 1] /\ q[a].node = p[a + 1].node
    BY <2>1, <1>1
  <2> DEFINE m == p[a - 1].node
             n == p[a].node
             l == p[a + 1].node
             x == p[a - 1].departure
             arrival == x + T(m, n)
  <2>3. IsPlace(m) /\ IsPlace(n) /\ IsPlace(l) /\ x \in Int
    BY <2>1, <1>3
  <2>4. T(m, n) \in Int /\ T(n, l) \in Int /\ T(m, l) \in Int /\ arrival \in Int
    <3>1. T(m, n) \in Int /\ T(n, l) \in Int /\ T(m, l) \in Int
      BY <2>3, <1>5
    <3>2. QED
      BY <3>1, <2>3
  <2>5. p[a].departure = Later(arrival, n.opens) + n.service
    BY <2>1, <1>7
  <2>6. n.opens \in Int /\ n.service \in Int /\ n.service >= 0
    BY <2>3, <1>6
  <2>7. T(m, l) <= T(m, n) + T(n, l)
    BY <2>3, Detours DEF T
  <2>8. arrival <= Later(arrival, n.opens) + n.service /\ Later(arrival, n.opens) + n.service \in Int
    <3> HIDE DEF arrival, n
    <3>1. QED
      BY <2>4, <2>6
  <2>9. arrival <= p[a].departure /\ p[a].departure \in Int
    BY <2>5, <2>8
  <2> DEFINE D == p[a].departure
             t1 == T(m, n)
             t2 == T(n, l)
             t3 == T(m, l)
  <2>10. x + t1 <= D /\ D \in Int /\ t1 \in Int /\ t2 \in Int /\ t3 \in Int /\ t3 <= t1 + t2 /\ x \in Int
    BY <2>3, <2>4, <2>7, <2>9
  <2>11. q[a - 1].departure = x /\ T(q[a - 1].node, q[a].node) = t3
    BY <2>2
  <2> HIDE DEF D, t1, t2, t3, x
  <2>12. x + t3 <= D + t2
    BY <2>10
  <2>13. QED
    BY <2>11, <2>12 DEF D, t2
<1>11. Bad = {}
  <2>1. SUFFICES ASSUME Bad # {} PROVE FALSE
    OBVIOUS
  <2>2. Bad \in SUBSET Nat
    BY <1>1
  <2> HIDE DEF Ok
  <2>3. PICK i \in Bad : \A j \in Bad : i <= j
    <3> HIDE DEF Bad
    <3>1. QED
      BY <2>1, <2>2, Rest!LeastElement
  <2>4. i \in a..Len(q) /\ ~ Ok(i)
    OBVIOUS
  <2>5. i # a
    <3>1. a = i => Ok(i)
      BY <2>4, <1>9, <1>10
    <3>2. QED
      BY <3>1, <2>4
  <2>6. /\ i - 1 \in a..Len(q) /\ ~ (i <= i - 1) /\ i - 1 \in 1..Len(q) /\ i \in 1..Len(p) /\ i \in 1..Len(q)
        /\ (i - 1) + 1 = i /\ i \in a..Len(p) - 1 /\ i - 1 \in a..Len(p) - 1 /\ i + 1 \in 1..Len(p)
    BY <2>4, <2>5, <1>1
  <2>7. Ok(i - 1)
    BY <2>3, <2>6
  <2>8. q[i - 1].departure <= p[i].departure
    BY <2>6, <2>7 DEF Ok
  <2>9. q[i].node = p[i + 1].node /\ q[i - 1].node = p[i].node
    <3>1. q[i - 1].node = p[(i - 1) + 1].node
      BY <2>6, <1>1
    <3>2. QED
      BY <3>1, <2>6, <1>1
  <2> DEFINE t == T(p[i].node, p[i + 1].node)
  <2>10. t \in Int /\ q[i - 1].departure \in Int /\ p[i].departure \in Int
    <3>1. IsPlace(p[i].node) /\ IsPlace(p[i + 1].node) /\ q[i - 1].departure \in Int /\ p[i].departure \in Int
      BY <2>6, <1>3, <1>4
    <3>2. QED
      BY <3>1, <1>5
  <2>11. T(q[i - 1].node, q[i].node) = t
    BY <2>9
  <2> HIDE DEF t
  <2>12. q[i - 1].departure + t <= p[i].departure + t
    BY <2>8, <2>10
  <2>13. q[i - 1].departure + T(q[i - 1].node, q[i].node) <= p[i].departure + T(p[i].node, p[i + 1].node)
    BY <2>11, <2>12 DEF t
  <2>14. QED
    BY <1>9, <2>4, <2>13
<1>12. SUFFICES ASSUME NEW i \in 2..Len(q) PROVE IsOnTime(q, i, v)
  BY DEF IsPunctual
<1>13. CASE i < a
  <2>1. i \in 1..a - 1 /\ i - 1 \in 1..a - 1 /\ i \in 2..Len(p)
    BY <1>13, <1>1
  <2>2. q[i] = p[i] /\ q[i - 1] = p[i - 1] /\ IsOnTime(p, i, v)
    BY <2>1, <1>1 DEF IsPunctual
  <2>3. QED
    BY <2>2 DEF IsOnTime
<1>14. CASE i >= a
  <2>1. /\ i \in a..Len(q) /\ i + 1 \in 2..Len(p) /\ (i + 1) - 1 = i /\ i \in a..Len(p) - 1 /\ i \in 1..Len(p)
        /\ i - 1 \in 1..Len(q) /\ i \in 1..Len(q) /\ i + 1 \in 1..Len(p)
    BY <1>14, <1>1
  <2> DEFINE x == q[i - 1].departure + T(q[i - 1].node, q[i].node)
             y == p[i].departure + T(p[i].node, p[i + 1].node)
             c == p[i + 1].node.closes
  <2>2. x <= y
    BY <2>1, <1>11
  <2>3. y <= c
    <3>1. IsOnTime(p, i + 1, v)
      BY <2>1 DEF IsPunctual
    <3>2. QED
      BY <3>1, <2>1 DEF IsOnTime, T
  <2>4. q[i].node.closes = c
    BY <2>1, <1>1
  <2>5. x \in Int
    <3>1. q[i - 1].departure \in Int /\ IsPlace(q[i - 1].node) /\ IsPlace(q[i].node)
      BY <2>1, <1>4
    <3>2. T(q[i - 1].node, q[i].node) \in Int
      BY <3>1, <1>5
    <3>3. QED
      BY <3>1, <3>2
  <2>6. y \in Int /\ c \in Int
    <3>1. p[i].departure \in Int /\ IsPlace(p[i].node) /\ IsPlace(p[i + 1].node)
      BY <2>1, <1>3
    <3>2. T(p[i].node, p[i + 1].node) \in Int
      BY <3>1, <1>5
    <3>3. QED
      BY <3>1, <3>2, <1>6
  <2>7. IsOnTime(q, i, v) <=> x <= c
    BY <2>4 DEF IsOnTime, T
  <2> HIDE DEF x, y, c
  <2>8. x <= c
    BY <2>2, <2>3, <2>5, <2>6
  <2>9. QED
    BY <2>7, <2>8
<1>15. QED
  BY <1>13, <1>14, <1>1

\* q is p without the stops of o in a and b + 1: the load is what it was, but for that
\* of the order between them.
IsLighter(q, p, o, a, b) ==
  /\ a \in 2..Len(p) - 2 /\ b \in a..Len(p) - 2 /\ Len(q) = Len(p) - 2
  /\ p[a].node = Pickup(o) /\ p[b + 1].node = Delivery(o)
  /\ \A i \in 1..a - 1 : q[i] = p[i]
  /\ \A i \in a..b - 1 :
       q[i].node = p[i + 1].node /\ q[i].cargo = p[i + 1].cargo - problem.orders[o].demand
  /\ \A i \in b..Len(q) : q[i].node = p[i + 2].node /\ q[i].cargo = p[i + 2].cargo

LEMMA DroppedIsLighter ==
  ASSUME problem \in Problems, NEW p, NEW S, NEW v, Serves(p, S, v), IsEquipped(v), NEW o \in S,
         NEW q, IsDropped(q, p, o, v)
  PROVE  \E a, b : IsLighter(q, p, o, a, b)
<1> DEFINE d == problem.orders[o].demand
           N == NodesOf(S)
<1>1. /\ IsTour(p, N, v) /\ o \in Orders /\ IsBefore(p, Pickup(o), Delivery(o))
  BY DEF Serves
<1> HIDE DEF N
<1>2. /\ Len(p) \in Nat /\ Len(p) >= 2 /\ IsEvaluated(p, v)
      /\ \A i, j \in 2..Len(p) - 1 : p[i].node = p[j].node => i = j
  <2>1. Len(p) \in Nat /\ Len(p) >= 2 /\ IsEvaluated(p, v)
    BY <1>1 DEF IsTour
  <2>2. \A i, j \in 2..Len(p) - 1 : p[i].node = p[j].node => i = j
    BY <1>1 DEF IsTour
  <2>3. QED
    BY <2>1, <2>2
<1>3. PICK mid : \E a \in 2..Len(p) - 1 : \E b \in 2..Len(mid) - 1 :
        /\ p[a].node = Pickup(o) /\ IsErasure(mid, p, a, v)
        /\ mid[b].node = Delivery(o) /\ IsErasure(q, mid, b, v)
  BY DEF IsDropped
<1>4. PICK a \in 2..Len(p) - 1, b \in 2..Len(mid) - 1 :
        /\ p[a].node = Pickup(o) /\ IsErasure(mid, p, a, v)
        /\ mid[b].node = Delivery(o) /\ IsErasure(q, mid, b, v)
  BY <1>3
<1>5. HasPlaces(p) /\ HasPlaces(mid)
  <2>1. HasPlaces(p)
    BY <1>2, PathHasPlaces DEF HasPlaces
  <2>2. QED
    BY <2>1, <1>4, ErasedHasPlaces
<1>6. /\ Len(mid) = Len(p) - 1 /\ Len(q) = Len(p) - 2 /\ IsEvaluated(mid, v)
      /\ \A i \in 1..a - 1 : mid[i] = p[i]
      /\ \A i \in a..Len(p) - 1 : mid[i].node = p[i + 1].node
      /\ \A i \in 1..b - 1 : q[i] = mid[i]
      /\ \A i \in b..Len(mid) - 1 : q[i].node = mid[i + 1].node
  BY <1>2, <1>4 DEF IsErasure
<1>7. /\ Pickup(o).demand = d /\ Delivery(o).demand = - d /\ d \in Int
  BY <1>1, OrdersHavePlaces DEF IsPlace
<1> HIDE DEF d
<1>8. \A i \in a..Len(p) - 1 : mid[i].cargo = p[i + 1].cargo - d
  <2>1. \A i \in a..Len(p) - 1 : mid[i].cargo = p[i + 1].cargo - p[a].node.demand
    BY <1>2, <1>4, <1>5, ErasureShiftsCargo
  <2>2. QED
    BY <2>1, <1>4, <1>7
<1>9. \A i \in b..Len(mid) - 1 : q[i].cargo = mid[i + 1].cargo - (- d)
  <2>1. \A i \in b..Len(mid) - 1 : q[i].cargo = mid[i + 1].cargo - mid[b].node.demand
    BY <1>4, <1>5, <1>6, ErasureShiftsCargo
  <2>2. QED
    BY <2>1, <1>4, <1>7
<1>10. b >= a /\ p[b + 1].node = Delivery(o)
  <2>1. PICK i, j \in 2..Len(p) - 1 : i < j /\ p[i].node = Pickup(o) /\ p[j].node = Delivery(o)
    BY <1>1 DEF IsBefore
  <2>2. i = a
    BY <2>1, <1>2, <1>4
  <2>3. j - 1 \in a..Len(p) - 1 /\ (j - 1) + 1 = j /\ j - 1 \in 2..Len(mid) - 1
    BY <2>1, <2>2, <1>2, <1>6
  <2>4. mid[j - 1].node = Delivery(o)
    BY <2>1, <2>3, <1>6
  <2>5. \A k, l \in 2..Len(mid) - 1 : mid[k].node = mid[l].node => k = l
    <3>1. IsTour(mid, N \ {p[a].node}, v)
      BY <1>1, <1>4, ErasureTours
    <3>2. QED
      BY <3>1 DEF IsTour
  <2>6. j - 1 = b
    BY <2>3, <2>4, <2>5, <1>4
  <2>7. QED
    BY <2>1, <2>3, <2>6
<1>11. \A i \in 1..Len(p) : p[i].cargo \in Int
  BY ValuesAreNumbers DEF HasValues
<1>12. ASSUME NEW i \in 1..a - 1 PROVE q[i] = p[i]
  <2>1. i \in 1..b - 1
    BY <1>10
  <2>2. QED
    BY <2>1, <1>6
<1>13. ASSUME NEW i \in a..b - 1 PROVE q[i].node = p[i + 1].node /\ q[i].cargo = p[i + 1].cargo - d
  <2>1. i \in 1..b - 1 /\ i \in a..Len(p) - 1
    BY <1>4, <1>6, <1>2
  <2>2. QED
    BY <2>1, <1>6, <1>8
<1>14. ASSUME NEW i \in b..Len(q) PROVE q[i].node = p[i + 2].node /\ q[i].cargo = p[i + 2].cargo
  <2>1. /\ i \in b..Len(mid) - 1 /\ i + 1 \in a..Len(p) - 1 /\ (i + 1) + 1 = i + 2 /\ i + 2 \in 1..Len(p)
    BY <1>2, <1>4, <1>6, <1>10
  <2>2. q[i].node = mid[i + 1].node /\ mid[i + 1].node = p[(i + 1) + 1].node
    BY <2>1, <1>6
  <2>3. q[i].cargo = mid[i + 1].cargo - (- d) /\ mid[i + 1].cargo = p[(i + 1) + 1].cargo - d
    BY <2>1, <1>8, <1>9
  <2>4. p[i + 2].cargo \in Int /\ d \in Int
    BY <2>1, <1>7, <1>11
  <2>5. p[(i + 1) + 1] = p[i + 2]
    BY <2>1
  <2>6. q[i].node = p[i + 2].node
    BY <2>2, <2>5
  <2> DEFINE y == p[i + 2].cargo
  <2>7. q[i].cargo = (y - d) - (- d) /\ y \in Int
    BY <2>3, <2>4, <2>5
  <2> HIDE DEF y
  <2>8. q[i].cargo = y
    BY <2>4, <2>7
  <2>9. QED
    BY <2>6, <2>8 DEF y
<1>15. a \in 2..Len(p) - 2 /\ b \in a..Len(p) - 2
  BY <1>2, <1>4, <1>6, <1>10
<1>16. IsLighter(q, p, o, a, b)
  BY <1>4, <1>6, <1>10, <1>12, <1>13, <1>14, <1>15 DEF IsLighter, d
<1>17. QED
  BY <1>16

\* A vehicle starts and ends empty, and never carries less than nothing.
IsLoaded(p) ==
  /\ p[1].cargo = 0 /\ p[Len(p)].cargo = 0
  /\ \A i \in 1..Len(p) : p[i].cargo >= 0

\* One order more on a path that carries nothing negative.
LEMMA LoadedWithOne ==
  ASSUME problem \in Problems, ValidOrders, NEW p, NEW S, NEW v, Serves(p, S, v), IsEquipped(v),
         NEW o \in S, NEW q, IsDropped(q, p, o, v), IsLoaded(q), p[1].cargo = 0
  PROVE  IsLoaded(p)
<1> DEFINE d == problem.orders[o].demand
<1>1. PICK a, b : IsLighter(q, p, o, a, b)
  BY DroppedIsLighter
<1>2. /\ a \in 2..Len(p) - 2 /\ b \in a..Len(p) - 2 /\ Len(q) = Len(p) - 2
      /\ p[a].node = Pickup(o) /\ p[b + 1].node = Delivery(o)
      /\ \A i \in 1..a - 1 : q[i] = p[i]
      /\ \A i \in a..b - 1 : q[i].cargo = p[i + 1].cargo - d
      /\ \A i \in b..Len(q) : q[i].cargo = p[i + 2].cargo
  BY <1>1 DEF IsLighter
<1>3. Len(p) \in Nat /\ IsEvaluated(p, v) /\ o \in Orders
  BY DEF Serves, IsTour
<1>4. Pickup(o).demand = d /\ Delivery(o).demand = - d /\ d \in Int /\ d > 0
  <2>1. Pickup(o).demand = d /\ Delivery(o).demand = - d /\ d \in Int
    BY <1>3, OrdersHavePlaces DEF IsPlace
  <2>2. Pickup(o).demand > 0
    BY <1>3 DEF ValidOrders, IsType
  <2>3. QED
    BY <2>1, <2>2
<1>5. \A i \in 1..Len(p) : p[i].cargo \in Int
  BY ValuesAreNumbers DEF HasValues
<1>6. \A i \in 2..Len(p) : p[i].cargo = p[i - 1].cargo + p[i].node.demand
  BY <1>3, NextStop
<1>7. \A i \in 1..Len(q) : q[i].cargo >= 0
  BY DEF IsLoaded
<1> HIDE DEF d
<1>8. p[Len(p)].cargo = 0
  <2>1. Len(q) \in b..Len(q) /\ Len(q) + 2 = Len(p)
    BY <1>2, <1>3
  <2>2. q[Len(q)].cargo = p[Len(q) + 2].cargo /\ q[Len(q)].cargo = 0
    BY <2>1, <1>2 DEF IsLoaded
  <2>3. QED
    BY <2>1, <2>2
<1>9. ASSUME NEW i \in 1..a - 1 PROVE p[i].cargo >= 0
  <2>1. i \in 1..Len(q)
    BY <1>2, <1>3
  <2>2. QED
    BY <2>1, <1>2, <1>7
<1>10. p[a].cargo >= d
  <2>1. a \in 2..Len(p) /\ a - 1 \in 1..a - 1 /\ a - 1 \in 1..Len(p)
    BY <1>2, <1>3
  <2>2. p[a].cargo = p[a - 1].cargo + d /\ p[a - 1].cargo >= 0 /\ p[a - 1].cargo \in Int
    BY <2>1, <1>2, <1>4, <1>5, <1>6, <1>9
  <2>3. QED
    BY <2>2, <1>4
<1>11. ASSUME NEW i \in a..b PROVE p[i].cargo >= d
  <2>1. CASE i = a
    BY <2>1, <1>10
  <2>2. CASE i # a
    <3>1. i - 1 \in a..b - 1 /\ (i - 1) + 1 = i /\ i - 1 \in 1..Len(q) /\ i \in 1..Len(p)
      BY <2>2, <1>2, <1>3
    <3>2. q[i - 1].cargo = p[i].cargo - d /\ q[i - 1].cargo >= 0
      BY <3>1, <1>2, <1>7
    <3>3. QED
      BY <3>1, <3>2, <1>4, <1>5
  <2>3. QED
    BY <2>1, <2>2
<1>12. p[b + 1].cargo >= 0
  <2>1. b + 1 \in 2..Len(p) /\ (b + 1) - 1 = b /\ b \in a..b /\ b \in 1..Len(p)
    BY <1>2, <1>3
  <2>2. p[b + 1].cargo = p[(b + 1) - 1].cargo + p[b + 1].node.demand
    BY <2>1, <1>6
  <2>3. p[b].cargo >= d /\ p[b].cargo \in Int
    BY <2>1, <1>5, <1>11
  <2>4. QED
    BY <2>1, <2>2, <2>3, <1>2, <1>4
<1>13. ASSUME NEW i \in b + 2..Len(p) PROVE p[i].cargo >= 0
  <2>1. i - 2 \in b..Len(q) /\ (i - 2) + 2 = i /\ i - 2 \in 1..Len(q)
    BY <1>2, <1>3
  <2>2. QED
    BY <2>1, <1>2, <1>7
<1>14. ASSUME NEW i \in 1..Len(p) PROVE p[i].cargo >= 0
  <2>1. i \in 1..a - 1 \/ i \in a..b \/ i = b + 1 \/ i \in b + 2..Len(p)
    BY <1>2, <1>3
  <2>2. i \in a..b => p[i].cargo >= 0
    BY <1>4, <1>5, <1>11
  <2>3. QED
    BY <2>1, <2>2, <1>9, <1>12, <1>13
<1>15. QED
  BY <1>8, <1>14 DEF IsLoaded

\* A vehicle of the solver is never loaded below zero, and comes back empty.
LEMMA VehiclesAreLoaded ==
  ASSUME problem \in Problems, ValidOrders, NEW v, IsEquipped(v)
  PROVE  \A S \in SUBSET Orders : \A p : Serves(p, S, v) => IsLoaded(p)
<1> DEFINE Bad == {k \in Nat : \E S \in SUBSET Orders : \E p :
                     Serves(p, S, v) /\ ~ IsLoaded(p) /\ Cardinality(S) = k}
<1>1. SUFFICES ASSUME NEW S1 \in SUBSET Orders, NEW p1, Serves(p1, S1, v), ~ IsLoaded(p1) PROVE FALSE
  OBVIOUS
<1>2. Bad # {} /\ Bad \in SUBSET Nat
  <2>1. Cardinality(S1) \in Nat
    BY <1>1, FS_CardinalityType DEF Serves
  <2>2. Cardinality(S1) \in Bad
    BY <1>1, <2>1
  <2>3. QED
    BY <2>2
<1>3. PICK k \in Bad : \A j \in Bad : k <= j
  <2> HIDE DEF Bad
  <2>1. QED
    BY <1>2, Rest!LeastElement
<1>4. PICK S \in SUBSET Orders : \E p : Serves(p, S, v) /\ ~ IsLoaded(p) /\ Cardinality(S) = k
  BY <1>3
<1>5. PICK p : Serves(p, S, v) /\ ~ IsLoaded(p) /\ Cardinality(S) = k
  BY <1>4
<1>6. /\ IsFiniteSet(S) /\ Len(p) \in Nat /\ Len(p) >= 2 /\ Len(p) = 2 * Cardinality(S) + 2
      /\ IsEvaluated(p, v)
      /\ IsDepot(p[1].node) /\ IsDepot(p[Len(p)].node)
  BY <1>5 DEF Serves, IsTour
<1>7. p[1].cargo = 0
  <2> DEFINE n == p[1].node
  <2>1. 1 \in 1..Len(p)
    BY <1>6
  <2>2. p[1] = StartStop(n, v)
    BY <2>1, <1>6 DEF IsEvaluated, IsEvaluatedAt
  <2>3. n.demand = 0
    BY <1>6 DEF IsDepot
  <2> HIDE DEF n
  <2>4. p[1].cargo = n.demand
    BY <2>2 DEF StartStop
  <2>5. QED
    BY <2>3, <2>4
<1>8. CASE S = {}
  <2>1. Len(p) = 2
    BY <1>6, <1>8, FS_EmptySet
  <2>2. p[2].cargo = p[2 - 1].cargo + p[2].node.demand
    <3>1. 2 \in 2..Len(p)
      BY <2>1
    <3>2. QED
      BY <3>1, <1>6, NextStop
  <2>3. p[2].cargo = 0
    BY <2>1, <2>2, <1>6, <1>7 DEF IsDepot
  <2>4. \A i \in 1..Len(p) : i = 1 \/ i = 2
    BY <2>1
  <2>5. IsLoaded(p)
    BY <2>1, <2>3, <2>4, <1>7 DEF IsLoaded
  <2>6. QED
    BY <2>5, <1>5
<1>9. CASE S # {}
  <2>1. PICK o \in S : TRUE
    BY <1>9
  <2> DEFINE q == EraseNode(EraseNode(p, Pickup(o), v), Delivery(o), v)
  <2>2. IsDropped(q, p, o, v)
    BY <1>5, DropsBothStops
  <2> HIDE DEF q
  <2>3. Serves(q, S \ {o}, v)
    BY <1>5, <2>2, DroppedServes
  <2>4. Cardinality(S \ {o}) \in Nat /\ Cardinality(S \ {o}) < k
    <3>1. IsFiniteSet(S \ {o}) /\ Cardinality(S \ {o}) = Cardinality(S) - 1 /\ Cardinality(S) \in Nat
      BY <1>6, FS_RemoveElement, FS_CardinalityType
    <3>2. Cardinality(S \ {o}) \in Nat
      BY <3>1, FS_CardinalityType
    <3>3. QED
      BY <3>1, <3>2, <1>5
  <2>5. IsLoaded(q)
    <3>1. S \ {o} \in SUBSET Orders
      OBVIOUS
    <3>2. SUFFICES ASSUME ~ IsLoaded(q) PROVE FALSE
      OBVIOUS
    <3>3. Cardinality(S \ {o}) \in Bad
      BY <3>1, <3>2, <2>3, <2>4
    <3>4. k <= Cardinality(S \ {o}) /\ k \in Nat
      BY <3>3, <1>3
    <3>5. QED
      BY <3>4, <2>4
  <2>6. IsLoaded(p)
    BY <1>5, <1>7, <2>2, <2>5, LoadedWithOne
  <2>7. QED
    BY <2>6, <1>5
<1>10. QED
  BY <1>8, <1>9

\* An order that leaves a vehicle leaves no window and no capacity violated
\* (optimize.cpp:412 and 472).
LEMMA DroppedIsFeasable ==
  ASSUME problem \in Problems, ValidOrders, IsMetric, NEW p, NEW S, NEW v, Serves(p, S, v), IsEquipped(v),
         NEW o \in S, NEW q, IsDropped(q, p, o, v), IsFeasable(p)
  PROVE  IsFeasable(q)
<1> DEFINE d == problem.orders[o].demand
<1>1. IsPunctual(p, v) /\ IsLight(p, v)
  BY FeasableMeans
<1>2. Serves(q, S \ {o}, v)
  BY DroppedServes
<1>3. /\ Len(p) \in Nat /\ IsEvaluated(p, v) /\ o \in Orders /\ S \subseteq Orders
      /\ IsTour(q, NodesOf(S \ {o}), v) /\ Len(q) \in Nat /\ Len(q) >= 2
  <2> DEFINE N == NodesOf(S)
             L == NodesOf(S \ {o})
  <2>1. IsTour(p, N, v) /\ o \in Orders /\ S \subseteq Orders
    BY DEF Serves
  <2>2. IsTour(q, L, v)
    BY <1>2 DEF Serves
  <2> HIDE DEF N, L
  <2>3. Len(p) \in Nat /\ IsEvaluated(p, v)
    BY <2>1 DEF IsTour
  <2>4. Len(q) \in Nat /\ Len(q) >= 2
    BY <2>2 DEF IsTour
  <2>5. IsTour(q, NodesOf(S \ {o}), v)
    BY <2>2 DEF L
  <2>6. QED
    BY <2>1, <2>3, <2>4, <2>5
<1>4. HasPlaces(p)
  BY <1>3, PathHasPlaces DEF HasPlaces
<1>5. Pickup(o).service >= 0 /\ Delivery(o).service >= 0 /\ Pickup(o).demand > 0
  BY <1>3 DEF ValidOrders, IsType
<1>6. IsPunctual(q, v)
  <2>1. PICK mid : \E a \in 2..Len(p) - 1 : \E b \in 2..Len(mid) - 1 :
        /\ p[a].node = Pickup(o) /\ IsErasure(mid, p, a, v)
        /\ mid[b].node = Delivery(o) /\ IsErasure(q, mid, b, v)
    BY DEF IsDropped
  <2>2. PICK a \in 2..Len(p) - 1, b \in 2..Len(mid) - 1 :
        /\ p[a].node = Pickup(o) /\ IsErasure(mid, p, a, v)
        /\ mid[b].node = Delivery(o) /\ IsErasure(q, mid, b, v)
    BY <2>1
  <2>3. p[a].node.service >= 0 /\ mid[b].node.service >= 0
    BY <2>2, <1>5
  <2>4. IsPunctual(mid, v)
    BY <1>1, <1>3, <1>4, <2>2, <2>3, ErasureIsPunctual
  <2>5. HasPlaces(mid) /\ IsEvaluated(mid, v)
    BY <1>4, <2>2, ErasedHasPlaces DEF IsErasure
  <2>6. QED
    BY <2>2, <2>3, <2>4, <2>5, ErasureIsPunctual
<1>7. IsLoaded(q)
  <2>1. S \ {o} \in SUBSET Orders
    BY <1>3
  <2>2. QED
    BY <2>1, <1>2, VehiclesAreLoaded
<1>8. PICK a, b : IsLighter(q, p, o, a, b)
  BY DroppedIsLighter
<1>9. d \in Int /\ d > 0
  BY <1>3, <1>5, OrdersHavePlaces DEF IsPlace
<1>10. \A i \in 1..Len(p) : p[i].cargo \in Int
  BY ValuesAreNumbers DEF HasValues
<1>11. ASSUME NEW i \in 1..Len(q)
       PROVE  \E k \in 1..Len(p) : q[i].node = p[k].node /\ q[i].cargo <= p[k].cargo
  <2>1. /\ a \in 2..Len(p) - 2 /\ b \in a..Len(p) - 2 /\ Len(q) = Len(p) - 2
        /\ \A j \in 1..a - 1 : q[j] = p[j]
        /\ \A j \in a..b - 1 : q[j].node = p[j + 1].node /\ q[j].cargo = p[j + 1].cargo - d
        /\ \A j \in b..Len(q) : q[j].node = p[j + 2].node /\ q[j].cargo = p[j + 2].cargo
    BY <1>8 DEF IsLighter
  <2> HIDE DEF d
  <2>2. CASE i < a
    <3>1. i \in 1..a - 1 /\ i \in 1..Len(p)
      BY <2>1, <2>2, <1>3
    <3>2. q[i] = p[i] /\ p[i].cargo \in Int
      BY <3>1, <2>1, <1>10
    <3>3. q[i].node = p[i].node /\ q[i].cargo <= p[i].cargo
      BY <3>2
    <3>4. QED
      BY <3>1, <3>3
  <2>3. CASE i >= a /\ i < b
    <3>1. i \in a..b - 1 /\ i + 1 \in 1..Len(p)
      BY <2>1, <2>3, <1>3
    <3>2. q[i].node = p[i + 1].node /\ q[i].cargo = p[i + 1].cargo - d /\ p[i + 1].cargo \in Int
      BY <3>1, <2>1, <1>10
    <3>3. q[i].cargo <= p[i + 1].cargo
      BY <3>2, <1>9
    <3>4. QED
      BY <3>1, <3>2, <3>3
  <2>4. CASE i >= b
    <3>1. i \in b..Len(q) /\ i + 2 \in 1..Len(p)
      BY <2>1, <2>4, <1>3
    <3>2. q[i].node = p[i + 2].node /\ q[i].cargo = p[i + 2].cargo /\ p[i + 2].cargo \in Int
      BY <3>1, <2>1, <1>10
    <3>3. q[i].cargo <= p[i + 2].cargo
      BY <3>2
    <3>4. QED
      BY <3>1, <3>2, <3>3
  <2>5. QED
    BY <2>1, <2>2, <2>3, <2>4, <1>3
<1>12. ASSUME NEW i \in 1..Len(q) PROVE ~ HasCv(q[i].node, q[i].cargo, v.capacity)
  <2> DEFINE n == q[i].node
             c == q[i].cargo
  <2>1. CASE n.type \in {"start", "end"}
    <3>1. i = 1 \/ i = Len(q)
      <4>1. SUFFICES ASSUME i # 1, i # Len(q) PROVE FALSE
        OBVIOUS
      <4>2. i \in 2..Len(q) - 1
        BY <4>1, <1>3
      <4>3. IsEndless(n)
        BY <4>2, <1>3 DEF IsTour
      <4>4. QED
        BY <4>3, <2>1 DEF IsEndless
    <3>2. c = 0
      BY <3>1, <1>7 DEF IsLoaded
    <3>3. QED
      BY <2>1, <3>2 DEF HasCv
  <2>2. CASE n.type \notin {"start", "end"}
    <3>1. PICK k \in 1..Len(p) : n = p[k].node /\ c <= p[k].cargo
      BY <1>11
    <3>2. ~ HasCv(p[k].node, p[k].cargo, v.capacity)
      BY <1>1 DEF IsLight
    <3>3. ~ (p[k].cargo > v.capacity)
      BY <3>1, <3>2, <2>2 DEF HasCv
    <3>4. c >= 0 /\ c \in Int
      <4>1. c >= 0
        BY <1>7 DEF IsLoaded
      <4>2. HasValues(q[i])
        BY <1>2, ValuesAreNumbers
      <4>3. QED
        BY <4>1, <4>2 DEF HasValues
    <3>5. p[k].cargo \in Int /\ v.capacity \in Int
      BY <1>10 DEF IsEquipped
    <3> HIDE DEF c, n
    <3>6. ~ (c > v.capacity) /\ ~ (c < 0)
      BY <3>1, <3>3, <3>4, <3>5
    <3>7. ~ HasCv(n, c, v.capacity)
      BY <2>2, <3>6 DEF HasCv
    <3>8. QED
      BY <3>7 DEF n, c
  <2>3. QED
    BY <2>1, <2>2
<1>13. IsLight(q, v)
  BY <1>12 DEF IsLight
<1>14. QED
  BY <1>2, <1>6, <1>13, FeasableMeans
----------------------------------------------------------------------------
(***************************************************************************)
(* Lemmas: the vehicles the solver holds.                                  *)
(***************************************************************************)
\* The records of the vehicle agree.
IsSound(v) == HasParts(v) /\ Serves(v.path, v.orders, v) /\ IsEquipped(v)

\* No window and no capacity is violated, where erasing cannot delay.
IsSafe(v) == IsMetric => IsFeasable(v.path)

IsGood(v) == IsSound(v) /\ IsSafe(v)

\* Only the pace and the capacity of the vehicle matter along its path.
LEMMA SameQuantities ==
  ASSUME NEW v, NEW w, w.pace = v.pace, w.capacity = v.capacity
  PROVE  /\ \A p, S : Serves(p, S, v) => Serves(p, S, w)
         /\ IsEquipped(v) => IsEquipped(w)
<1>1. ASSUME NEW n PROVE StartStop(n, v) = StartStop(n, w)
  BY DEF StartStop
<1>2. ASSUME NEW s, NEW n PROVE StopAfter(s, n, v) = StopAfter(s, n, w)
  BY DEF StopAfter
<1>3. ASSUME NEW p, NEW i, IsEvaluatedAt(p, i, v) PROVE IsEvaluatedAt(p, i, w)
  BY <1>1, <1>2, <1>3 DEF IsEvaluatedAt
<1>4. \A p : IsEvaluated(p, v) => IsEvaluated(p, w)
  BY <1>3 DEF IsEvaluated
<1>5. \A p, N : IsTour(p, N, v) => IsTour(p, N, w)
  BY <1>4 DEF IsTour
<1>6. QED
  BY <1>5 DEF Serves, IsEquipped

\* What becomes of a vehicle that is given the order.
IsGiven(w, v, o) ==
  IsSound(w) /\ IsFeasable(w.path) /\ w.orders = v.orders \cup {o} /\ w.feasable = v.feasable

\* The parts of a vehicle that is given a path and an order.
LEMMA HoldingParts ==
  ASSUME NEW v, HasParts(v), NEW q, NEW o
  PROVE  LET w == Holding(v, q, o)
         IN  /\ HasParts(w) /\ w.path = q /\ w.orders = v.orders \cup {o}
             /\ w.pace = v.pace /\ w.capacity = v.capacity /\ w.feasable = v.feasable
BY DEF HasParts, Holding

LEMMA HoldingIsSound ==
  ASSUME NEW v, NEW o, CanTake(v, o), HasParts(v), NEW q, IsAdded(q, v.path, o, v)
  PROVE  IsSound(Holding(v, q, o))
<1> DEFINE w == Holding(v, q, o)
<1>1. /\ HasParts(w) /\ w.path = q /\ w.orders = v.orders \cup {o}
      /\ w.pace = v.pace /\ w.capacity = v.capacity
  BY HoldingParts
<1>2. Serves(q, v.orders \cup {o}, v)
  BY AddedServes DEF CanTake
<1>3. IsEquipped(v)
  BY DEF CanTake
<1> HIDE DEF w
<1>4. Serves(q, v.orders \cup {o}, w) /\ IsEquipped(w)
  BY <1>1, <1>2, <1>3, SameQuantities
<1>5. IsSound(w)
  BY <1>1, <1>4 DEF IsSound
<1>6. QED
  BY <1>5 DEF w

\* insert leaves the vehicle as it is, or gives it the order on a path without violations.
LEMMA InsertGives ==
  ASSUME problem \in Problems, NEW v, IsSound(v), NEW o \in Orders, o \notin v.orders
  PROVE  Insert(v, o) = v \/ IsGiven(Insert(v, o), v, o)
<1>1. CanTake(v, o) /\ HasParts(v)
  BY DEF CanTake, IsSound
<1>2. CASE \E q : IsAdded(q, v.path, o, v) /\ IsFeasable(q) /\ Insert(v, o) = Holding(v, q, o)
  <2>1. PICK q : IsAdded(q, v.path, o, v) /\ IsFeasable(q) /\ Insert(v, o) = Holding(v, q, o)
    BY <1>2
  <2>2. IsSound(Holding(v, q, o))
    BY <1>1, <2>1, HoldingIsSound
  <2>3. IsGiven(Holding(v, q, o), v, o)
    BY <1>1, <2>1, <2>2, HoldingParts DEF IsGiven
  <2>4. QED
    BY <2>1, <2>3
<1>3. QED
  BY <1>1, <1>2, InsertAdds

LEMMA SemiLIFOGives ==
  ASSUME problem \in Problems, ValidOrders, NEW v, IsSound(v), NEW o \in Orders, o \notin v.orders
  PROVE  SemiLIFO(v, o) = v \/ IsGiven(SemiLIFO(v, o), v, o)
<1>1. CanTake(v, o) /\ HasParts(v)
  BY DEF CanTake, IsSound
<1>2. CASE \E q : IsAdded(q, v.path, o, v) /\ IsFeasable(q) /\ SemiLIFO(v, o) = Holding(v, q, o)
  <2>1. PICK q : IsAdded(q, v.path, o, v) /\ IsFeasable(q) /\ SemiLIFO(v, o) = Holding(v, q, o)
    BY <1>2
  <2>2. IsSound(Holding(v, q, o))
    BY <1>1, <2>1, HoldingIsSound
  <2>3. IsGiven(Holding(v, q, o), v, o)
    BY <1>1, <2>1, <2>2, HoldingParts DEF IsGiven
  <2>4. QED
    BY <2>1, <2>3
<1>3. QED
  BY <1>1, <1>2, SemiLIFOAdds

\* The two ways the optimizer gives an order to a vehicle (optimize.cpp).
LEMMA PutGives ==
  ASSUME problem \in Problems, ValidOrders, NEW v, IsSound(v), NEW o \in Orders, o \notin v.orders
  PROVE  Put(v, o) = v \/ IsGiven(Put(v, o), v, o)
<1> DEFINE Taken(w) == IF problem.kind = "OneDepot" THEN SemiLIFO(w, o) ELSE Insert(w, o)
<1>1. {Taken(w) : w \in {v}} = {Taken(v)}
  OBVIOUS
<1>2. Put(v, o) = Taken(v)
  <2>1. Put(v, o) = The({Taken(w) : w \in {v}})
    BY DEF Put
  <2> HIDE DEF Taken
  <2>2. QED
    BY <1>1, <2>1, TheOne
<1>3. QED
  BY <1>2, InsertGives, SemiLIFOGives

\* The parts of a vehicle an order was erased from.
LEMMA ErasedParts ==
  ASSUME NEW v, HasParts(v), NEW o
  PROVE  LET w == EraseOrder(v, o)
         IN  /\ HasParts(w) /\ w.path = EraseNode(EraseNode(v.path, Pickup(o), v), Delivery(o), v)
             /\ w.orders = v.orders \ {o}
             /\ w.pace = v.pace /\ w.capacity = v.capacity /\ w.feasable = v.feasable
BY DEF HasParts, EraseOrder

\* A vehicle that gives away one of its orders is as sound as it was, and has no violation
\* it did not have.
LEMMA EraseKeepsGood ==
  ASSUME problem \in Problems, ValidOrders, NEW v, IsSound(v), NEW o \in v.orders
  PROVE  /\ IsSound(EraseOrder(v, o))
         /\ IsSafe(v) => IsSafe(EraseOrder(v, o))
<1> DEFINE w == EraseOrder(v, o)
           q == EraseNode(EraseNode(v.path, Pickup(o), v), Delivery(o), v)
<1>1. HasParts(v) /\ Serves(v.path, v.orders, v) /\ IsEquipped(v)
  BY DEF IsSound
<1>2. /\ HasParts(w) /\ w.path = q /\ w.orders = v.orders \ {o}
      /\ w.pace = v.pace /\ w.capacity = v.capacity
  BY <1>1, ErasedParts
<1>3. IsDropped(q, v.path, o, v)
  BY <1>1, DropsBothStops
<1> HIDE DEF w, q
<1>4. Serves(q, v.orders \ {o}, v)
  BY <1>1, <1>3, DroppedServes
<1>5. Serves(q, v.orders \ {o}, w) /\ IsEquipped(w)
  BY <1>1, <1>2, <1>4, SameQuantities
<1>6. IsSound(w)
  BY <1>2, <1>5 DEF IsSound
<1>7. IsSafe(v) => IsSafe(w)
  <2>1. SUFFICES ASSUME IsMetric, IsFeasable(v.path) PROVE IsFeasable(q)
    BY <1>2 DEF IsSafe
  <2>2. QED
    BY <1>1, <1>3, <2>1, DroppedIsFeasable
<1>8. QED
  BY <1>6, <1>7 DEF w

\* An order that was pushed to a vehicle and erased again: the vehicle is as it was
\* (initial_solution.cpp:84).
LEMMA PushedAndErased ==
  ASSUME problem \in Problems, NEW v, IsSound(v), NEW o \in Orders, o \notin v.orders,
         NEW q, IsAdded(q, v.path, o, v)
  PROVE  LET w == EraseOrder(Holding(v, q, o), o)
         IN  /\ IsSound(w) /\ w.path = v.path /\ w.orders = v.orders /\ w.feasable = v.feasable
<1> DEFINE h == Holding(v, q, o)
           r == EraseNode(EraseNode(h.path, Pickup(o), h), Delivery(o), h)
           w == EraseOrder(h, o)
<1>1. CanTake(v, o) /\ HasParts(v) /\ Serves(v.path, v.orders, v)
  BY DEF CanTake, IsSound
<1>2. /\ HasParts(h) /\ h.path = q /\ h.orders = v.orders \cup {o}
      /\ h.pace = v.pace /\ h.capacity = v.capacity /\ h.feasable = v.feasable
  BY <1>1, HoldingParts
<1>3. IsSound(h)
  BY <1>1, HoldingIsSound
<1> HIDE DEF h
<1>4. /\ HasParts(w) /\ w.path = r /\ w.orders = h.orders \ {o}
      /\ w.pace = h.pace /\ w.capacity = h.capacity /\ w.feasable = h.feasable
  BY <1>2, ErasedParts
<1>5. IsDropped(r, h.path, o, h)
  <2>1. Serves(h.path, h.orders, h) /\ o \in h.orders
    BY <1>2, <1>3 DEF IsSound
  <2>2. QED
    BY <2>1, DropsBothStops
<1> HIDE DEF r, w
<1>6. IsDropped(r, q, o, v)
  <2>1. ASSUME NEW n PROVE StartStop(n, v) = StartStop(n, h)
    BY <1>2 DEF StartStop
  <2>2. ASSUME NEW s, NEW n PROVE StopAfter(s, n, v) = StopAfter(s, n, h)
    BY <1>2 DEF StopAfter
  <2>3. ASSUME NEW p, NEW i, IsEvaluatedAt(p, i, h) PROVE IsEvaluatedAt(p, i, v)
    BY <2>1, <2>2, <2>3 DEF IsEvaluatedAt
  <2>4. \A p : IsEvaluated(p, h) => IsEvaluated(p, v)
    BY <2>3 DEF IsEvaluated
  <2>5. \A x, y, a : IsErasure(x, y, a, h) => IsErasure(x, y, a, v)
    BY <2>4 DEF IsErasure
  <2>6. QED
    BY <1>2, <1>5, <2>5 DEF IsDropped
<1>7. r = v.path
  BY <1>1, <1>6, AddedAndDropped
<1>8. w.orders = v.orders
  BY <1>2, <1>4
<1>9. Serves(w.path, w.orders, w) /\ IsEquipped(w)
  BY <1>1, <1>2, <1>4, <1>7, <1>8, SameQuantities DEF CanTake
<1>10. IsSound(w)
  BY <1>4, <1>9 DEF IsSound
<1>11. QED
  BY <1>2, <1>4, <1>7, <1>8, <1>10 DEF w, h

\* Filling: a vehicle without violations takes the order, or is left as it was, or is
\* to be rid of the order again.
LEMMA FilledGives ==
  ASSUME problem \in Problems, ValidOrders, IsSound(truck), IsFeasable(truck.path),
         NEW o \in Orders, o \notin truck.orders
  PROVE  LET v == Filled(o)
             w == EraseOrder(v, o)
         IN  /\ IsFeasable(v.path) => v = truck \/ IsGiven(v, truck, o)
             /\ ~ IsFeasable(v.path) =>
                  /\ IsSound(w) /\ w.path = truck.path /\ w.orders = truck.orders
                  /\ w.feasable = truck.feasable /\ v.orders = truck.orders \cup {o}
<1> DEFINE v == Filled(o)
           Pushed == \E q : IsAdded(q, truck.path, o, truck) /\ v = Holding(truck, q, o)
<1>1. CanTake(truck, o) /\ HasParts(truck)
  BY DEF CanTake, IsSound
<1>2. v \in {PushBack(truck, o), PushFront(truck, o), SemiLIFO(truck, o), Insert(truck, o)}
  BY DEF Filled
<1>3. CASE v = PushBack(truck, o) \/ v = PushFront(truck, o)
  <2>1. Pushed
    BY <1>1, <1>3, PushBackAdds, PushFrontAdds
  <2>2. PICK q : IsAdded(q, truck.path, o, truck) /\ v = Holding(truck, q, o)
    BY <2>1
  <2> HIDE DEF v
  <2>3. CASE IsFeasable(v.path)
    <3>1. IsSound(v)
      BY <1>1, <2>2, HoldingIsSound
    <3>2. IsGiven(v, truck, o)
      BY <1>1, <2>2, <2>3, <3>1, HoldingParts DEF IsGiven
    <3>3. QED
      BY <2>3, <3>2 DEF v
  <2>4. CASE ~ IsFeasable(v.path)
    <3>1. LET w == EraseOrder(v, o)
          IN  /\ IsSound(w) /\ w.path = truck.path /\ w.orders = truck.orders
              /\ w.feasable = truck.feasable
      BY <2>2, PushedAndErased
    <3>2. v.orders = truck.orders \cup {o}
      BY <1>1, <2>2, HoldingParts
    <3>3. QED
      BY <2>4, <3>1, <3>2 DEF v
  <2>5. QED
    BY <2>3, <2>4
<1>4. CASE v = SemiLIFO(truck, o) \/ v = Insert(truck, o)
  <2>1. v = truck \/ IsGiven(v, truck, o)
    BY <1>4, SemiLIFOGives, InsertGives
  <2>2. IsFeasable(v.path)
    BY <2>1 DEF IsGiven
  <2>3. QED
    BY <2>1, <2>2
<1>5. QED
  BY <1>2, <1>3, <1>4

\* What the records of a sound vehicle say is so: a full evaluation changes nothing, and
\* the vehicle serves its orders.
LEMMA SoundIsConsistent ==
  ASSUME NEW v, IsSound(v)
  PROVE  v.path = Evaluate(v.path, 1, v) /\ ServesItsOrders(v)
<1> DEFINE p == v.path
           q == Evaluate(p, 1, v)
           N == NodesOf(v.orders)
<1>1. /\ IsTour(p, N, v) /\ Len(p) = 2 * Cardinality(v.orders) + 2
      /\ \A o \in v.orders : IsBefore(p, Pickup(o), Delivery(o))
  BY DEF IsSound, Serves
<1> HIDE DEF N
<1>2. p \in Seq(ToSet(p)) /\ Len(p) \in Nat /\ Len(p) >= 2 /\ IsEvaluated(p, v) /\ DOMAIN p = 1..Len(p)
  BY <1>1 DEF IsTour
<1>3. p = q
  <2>1. 1 \in 1..Len(p) + 1
    BY <1>2
  <2>2. IsEvaluatedBefore(p, 1, v)
    BY DEF IsEvaluatedBefore
  <2>3. IsEvaluatedUpTo(q, p, 1, v, Len(p))
    BY <1>2, <2>1, <2>2, EvaluateEvaluates
  <2>4. q \in Seq(ToSet(q)) /\ Len(q) = Len(p) /\ SameNodes(q, p, Len(p)) /\ IsEvaluated(q, v)
    BY <2>3 DEF IsEvaluatedUpTo, IsEvaluated
  <2> HIDE DEF p, q
  <2>5. QED
    BY <1>2, <2>4, EvaluatedIsUnique
<1>4. ServesItsOrders(v)
  <2>1. ASSUME NEW o \in v.orders
        PROVE  \E i \in {k \in DOMAIN p : p[k].node = Pickup(o)}, j \in {k \in DOMAIN p : p[k].node = Delivery(o)} :
                 1 < i /\ i < j /\ j < Len(p)
    <3>1. PICK i, j \in 2..Len(p) - 1 : i < j /\ p[i].node = Pickup(o) /\ p[j].node = Delivery(o)
      BY <1>1 DEF IsBefore
    <3> HIDE DEF p
    <3>2. i \in DOMAIN p /\ j \in DOMAIN p /\ 1 < i /\ j < Len(p)
      BY <3>1, <1>2
    <3>3. i \in {k \in DOMAIN p : p[k].node = Pickup(o)} /\ j \in {k \in DOMAIN p : p[k].node = Delivery(o)}
      BY <3>1, <3>2
    <3>4. QED
      BY <3>1, <3>2, <3>3
  <2>2. QED
    BY <1>1, <2>1 DEF ServesItsOrders
<1>5. QED
  BY <1>3, <1>4

----------------------------------------------------------------------------
(***************************************************************************)
(* Lemmas: the vehicles of the call.                                       *)
(***************************************************************************)
\* A vehicle that was built from a row w, before it is used (fleet.cpp:add_vehicle).
Fresh(w) ==
  LET empty == NewVehicle(w.id, w.capacity, w.pace, w.start, w.end)
  IN  [empty EXCEPT !.feasable = {o \in Orders : IsOrderFeasable(empty, o)}]

\* The rows that vehicles are made of.
Made == {i \in DOMAIN Vehicles : Vehicles[i].count > 0}
FreshOnes == {Fresh(Vehicles[i]) : i \in Made}

\* A row of the request, or the phoney one.
IsRow(w) ==
  /\ \A s \in {w.start, w.end} : s.id \in DOMAIN problem.matrix /\ {s.opens, s.closes, s.service} \subseteq Int
  /\ w.count \in Int /\ w.pace \in Int /\ w.capacity \in Int
  /\ \E x \in ToSet(problem.vehicles) : w.pace = x.pace

LEMMA VehiclesAreRows ==
  ASSUME problem \in Problems
  PROVE  /\ \E n \in Nat : n > 0 /\ DOMAIN Vehicles = 1..n
         /\ \A i \in DOMAIN Vehicles : IsRow(Vehicles[i])
<1> DEFINE f == problem.vehicles
           first == f[1]
           phoney == [id |-> -1, capacity |-> Infinity, pace |-> first.pace, count |-> 1,
                      start |-> Anytime(first.start), end |-> Anytime(first.end)]
<1>1. Vehicles = Append(f, phoney)
  BY DEF Vehicles
<1>2. /\ f \in Seq(ToSet(f)) /\ f # <<>>
      /\ \A v \in ToSet(f) : /\ \A s \in {v.start, v.end} : /\ s.id \in DOMAIN problem.matrix
                                                           /\ {s.opens, s.closes, s.service} \subseteq Int
                             /\ {v.count, v.pace, v.capacity} \subseteq Int
  BY ProblemsAssumption
<1>3. 1 \in DOMAIN f /\ Len(f) \in Nat /\ DOMAIN f = 1..Len(f)
  <2> HIDE DEF f
  <2>1. QED
    BY <1>2
<1>4. first \in ToSet(f)
  BY <1>3 DEF ToSet
<1>5. \A v \in ToSet(f) : IsRow(v)
  BY <1>2 DEF IsRow
<1>6. IsRow(phoney)
  <2>1. Infinity \in Int /\ 0 \in Int /\ 1 \in Int
    BY InfinityAssumption
  <2>2. first.start.id \in DOMAIN problem.matrix /\ first.end.id \in DOMAIN problem.matrix /\ first.pace \in Int
    BY <1>2, <1>4
  <2>3. QED
    BY <2>1, <2>2, <1>4 DEF IsRow, Anytime
<1> HIDE DEF phoney, first, f
<1>7. /\ DOMAIN Append(f, phoney) = 1..Len(f) + 1
      /\ \A i \in DOMAIN f : Append(f, phoney)[i] = f[i]
      /\ Append(f, phoney)[Len(f) + 1] = phoney
  BY <1>2, Appended
<1>8. \A i \in 1..Len(f) + 1 : i = Len(f) + 1 \/ i \in DOMAIN f
  BY <1>3
<1>9. \A i \in DOMAIN f : IsRow(f[i])
  BY <1>5 DEF ToSet
<1>10. \A i \in 1..Len(f) + 1 : IsRow(Vehicles[i])
  BY <1>1, <1>6, <1>7, <1>8, <1>9
<1>11. Len(f) + 1 \in Nat /\ Len(f) + 1 > 0
  BY <1>3
<1>12. QED
  BY <1>1, <1>7, <1>10, <1>11

Joining == INSTANCE Recursion WITH
  Start <- LAMBDA c : c.rows[1], Pick <- LAMBDA c, S : S,
  Step  <- LAMBDA c, i, s : s \o c.rows[i],
  Claim <- LAMBDA c, i, s : s \in Seq(c.all)

\* The fleet has nothing but the rows of the request, as often as asked for.
LEMMA TrucksAreFresh ==
  ASSUME problem \in Problems
  PROVE  Trucks \in Seq(FreshOnes)
<1> DEFINE rows == [i \in DOMAIN Vehicles |-> [k \in 1..Vehicles[i].count |-> Fresh(Vehicles[i])]]
           c == [rows |-> rows, all |-> FreshOnes]
<1>1. Trucks = FlattenSeq(rows)
  BY DEF Trucks, Fresh
<1>2. PICK n \in Nat : n > 0 /\ DOMAIN Vehicles = 1..n
  BY VehiclesAreRows
<1>3. ASSUME NEW i \in 1..n PROVE rows[i] \in Seq(FreshOnes)
  <2>1. rows[i] = [k \in 1..Vehicles[i].count |-> Fresh(Vehicles[i])]
    BY <1>2
  <2>2. Vehicles[i].count \in Int
    BY <1>2, VehiclesAreRows DEF IsRow
  <2>3. Vehicles[i].count > 0 => Fresh(Vehicles[i]) \in FreshOnes
    BY <1>2 DEF FreshOnes, Made
  <2> DEFINE m == Vehicles[i].count
             e == Fresh(Vehicles[i])
  <2>4. rows[i] = [k \in 1..m |-> e] /\ m \in Int /\ (m > 0 => e \in FreshOnes)
    BY <2>1, <2>2, <2>3
  <2> HIDE DEF m, e, rows
  <2>5. PICK j \in Nat : 1..m = 1..j /\ (j > 0 => m > 0)
    <3>1. CASE m >= 0
      BY <3>1, <2>4
    <3>2. CASE m < 0
      <4>1. 1..m = 1..0 /\ 0 \in Nat /\ ~(0 > 0)
        BY <3>2, <2>4
      <4>2. QED
        BY <4>1
    <3>3. QED
      BY <3>1, <3>2, <2>4
  <2>6. [k \in 1..j |-> e] \in [1..j -> FreshOnes]
    <3>1. CASE j = 0
      <4>1. 1..j = {}
        BY <3>1
      <4>2. QED
        BY <4>1
    <3>2. CASE j # 0
      <4>1. e \in FreshOnes
        BY <2>4, <2>5, <3>2
      <4>2. QED
        BY <4>1
    <3>3. QED
      BY <3>1, <3>2
  <2>7. QED
    BY <2>4, <2>5, <2>6
<1>4. rows \in [1..n -> {rows[i] : i \in 1..n}]
  BY <1>2
<1>5. c.rows = rows /\ c.all = FreshOnes
  OBVIOUS
<1> HIDE DEF rows, c
<1>6. Len(rows) = n /\ rows \in Seq({rows[i] : i \in 1..n})
  BY <1>4
<1>7. FlattenSeq(rows) = Joining!Counted(c, 1, Len(rows))[Len(rows)]
  <2>1. Len(rows) # 0
    BY <1>2, <1>6
  <2>2. QED
    BY <1>5, <2>1 DEF FlattenSeq, Joining!Counted, Joining!IsCounted
<1>8. \A i \in 1..n : Joining!Counted(c, 1, n)[i] \in Seq(c.all)
  <2>1. c.rows[1] \in Seq(c.all)
    BY <1>2, <1>3, <1>5
  <2>2. ASSUME NEW i \in 1 + 1..n, NEW s, s \in Seq(c.all) PROVE s \o c.rows[i] \in Seq(c.all)
    <3>1. i \in 1..n
      OBVIOUS
    <3>2. s \in Seq(FreshOnes) /\ rows[i] \in Seq(FreshOnes)
      BY <3>1, <1>3, <1>5, <2>2
    <3>3. s \o rows[i] \in Seq(FreshOnes)
      BY <3>2
    <3>4. QED
      BY <3>3, <1>5
  <2>3. 1 \in Int /\ n \in Int
    OBVIOUS
  <2>4. \A i \in 1 + 1..n : \A s : s \in Seq(c.all) => s \o c.rows[i] \in Seq(c.all)
    BY <2>2
  <2>5. QED
    BY ONLY <2>1, <2>3, <2>4, Joining!CountedClaim, Zenon
<1>9. QED
  BY <1>1, <1>2, <1>5, <1>6, <1>7, <1>8

\* A vehicle that was never used: nothing but its two ends, in order.
LEMMA FreshIsSound ==
  ASSUME problem \in Problems, NEW w, IsRow(w)
  PROVE  LET x == Fresh(w)
         IN  /\ IsSound(x) /\ x.orders = {} /\ x.pace = w.pace
             /\ x.path = NewVehicle(w.id, w.capacity, w.pace, w.start, w.end).path
             /\ x.feasable = {o \in Orders :
                  IsOrderFeasable(NewVehicle(w.id, w.capacity, w.pace, w.start, w.end), o)}
<1> DEFINE m == Node("start", 0, w.start, 0)
           n == Node("end", 0, w.end, 0)
           p == <<Stop(m), Stop(n)>>
           v == [id |-> w.id, capacity |-> w.capacity, pace |-> w.pace, orders |-> {}, feasable |-> {},
                 path |-> p]
           q == Evaluate(p, 1, v)
           F == {o \in Orders : IsOrderFeasable(NewVehicle(w.id, w.capacity, w.pace, w.start, w.end), o)}
           x == Fresh(w)
<1>1. NewVehicle(w.id, w.capacity, w.pace, w.start, w.end) = [v EXCEPT !.path = q]
  BY DEF NewVehicle
<1>2. x = [[v EXCEPT !.path = q] EXCEPT !.feasable = F]
  BY <1>1 DEF Fresh
<1>3. /\ HasParts(x) /\ x.path = q /\ x.orders = {} /\ x.pace = w.pace /\ x.capacity = w.capacity
      /\ x.feasable = F /\ v.pace = w.pace /\ v.capacity = w.capacity
  BY <1>2 DEF HasParts
<1>4. NewVehicle(w.id, w.capacity, w.pace, w.start, w.end).path = q
  BY <1>1
<1>5. /\ p \in Seq(ToSet(p)) /\ Len(p) = 2 /\ p[1] = Stop(m) /\ p[2] = Stop(n)
  <2> DEFINE s == Stop(m)
             t == Stop(n)
  <2>1. p = <<s, t>>
    OBVIOUS
  <2> HIDE DEF s, t
  <2>2. Len(p) = 2 /\ p[1] = s /\ p[2] = t /\ p \in Seq({s, t})
    BY <2>1
  <2>3. p \in Seq(ToSet(p))
    BY <2>2 DEF ToSet
  <2>4. QED
    BY <2>2, <2>3 DEF s, t
<1>6. p[1].node = m /\ p[2].node = n
  BY <1>5 DEF Stop
<1>7. /\ m.type = "start" /\ n.type = "end" /\ IsDepot(m) /\ IsDepot(n)
  BY DEF Node, IsDepot, IsPlace, IsRow
<1> HIDE DEF m, n, p, v, q, F, x
<1>8. IsEvaluatedUpTo(q, p, 1, v, 2)
  <2>1. 1 \in 1..Len(p) + 1 /\ IsEvaluatedBefore(p, 1, v)
    BY <1>5 DEF IsEvaluatedBefore
  <2>2. QED
    BY <1>5, <2>1, EvaluateEvaluates DEF q
<1>9. /\ q \in Seq(ToSet(q)) /\ Len(q) = 2 /\ q[1].node = m /\ q[2].node = n /\ IsEvaluated(q, v)
  BY <1>6, <1>8 DEF IsEvaluatedUpTo, SameNodes, IsEvaluated
<1>10. NodesOf({}) = {}
  BY DEF NodesOf
<1>11. IsTour(q, NodesOf({}), v)
  <2>1. 2..Len(q) - 1 = {}
    BY <1>9
  <2>2. QED
    BY <1>7, <1>9, <1>10, <2>1 DEF IsTour
<1>12. Serves(q, {}, v)
  <2>1. IsFiniteSet({}) /\ Cardinality({}) = 0
    BY FS_EmptySet
  <2>2. QED
    BY <1>7, <1>9, <1>11, <2>1 DEF Serves
<1>13. Serves(q, {}, x)
  BY <1>3, <1>12, SameQuantities
<1>14. IsEquipped(x)
  BY <1>3 DEF IsEquipped, IsRow
<1>15. IsSound(x)
  BY <1>3, <1>13, <1>14 DEF IsSound
<1>16. QED
  BY <1>3, <1>4, <1>15 DEF x, F

----------------------------------------------------------------------------
(***************************************************************************)
(* Lemmas: an order that an empty vehicle can take, it takes.              *)
(***************************************************************************)
\* The path of a vehicle with one order: there is only one.
IsAlone(q, p, o, v) ==
  /\ q \in Seq(ToSet(q)) /\ Len(q) = 4 /\ IsEvaluated(q, v)
  /\ q[1].node = p[1].node /\ q[2].node = Pickup(o)
  /\ q[3].node = Delivery(o) /\ q[4].node = p[2].node

LEMMA AddedAlone ==
  ASSUME NEW p, Len(p) = 2, NEW o, NEW v, NEW q, IsAdded(q, p, o, v)
  PROVE  IsAlone(q, p, o, v)
<1>1. PICK mid : \E a \in 2..Len(p) : \E b \in a + 1..Len(p) + 1 :
        IsInsertion(mid, p, a, Pickup(o), v) /\ IsInsertion(q, mid, b, Delivery(o), v)
  BY DEF IsAdded
<1>2. IsInsertion(mid, p, 2, Pickup(o), v) /\ IsInsertion(q, mid, 3, Delivery(o), v)
  <2>1. PICK a \in 2..2 : \E b \in a + 1..2 + 1 :
          IsInsertion(mid, p, a, Pickup(o), v) /\ IsInsertion(q, mid, b, Delivery(o), v)
    BY <1>1
  <2>2. a = 2
    OBVIOUS
  <2>3. PICK b \in 2 + 1..2 + 1 :
          IsInsertion(mid, p, 2, Pickup(o), v) /\ IsInsertion(q, mid, b, Delivery(o), v)
    BY <2>1, <2>2
  <2>4. b = 3
    OBVIOUS
  <2>5. QED
    BY <2>3, <2>4
<1>3. /\ Len(mid) = 3 /\ mid[2].node = Pickup(o)
      /\ \A i \in 1..2 - 1 : mid[i].node = p[i].node
      /\ \A i \in 2..2 : mid[i + 1].node = p[i].node
  BY <1>2 DEF IsInsertion
<1>4. mid[1].node = p[1].node /\ mid[3].node = p[2].node
  <2>1. 1 \in 1..2 - 1 /\ 2 \in 2..2 /\ 2 + 1 = 3
    OBVIOUS
  <2>2. QED
    BY <2>1, <1>3
<1>5. /\ q \in Seq(ToSet(q)) /\ Len(q) = 3 + 1 /\ IsEvaluated(q, v) /\ q[3].node = Delivery(o)
      /\ \A i \in 1..3 - 1 : q[i].node = mid[i].node
      /\ \A i \in 3..3 : q[i + 1].node = mid[i].node
  BY <1>2, <1>3 DEF IsInsertion
<1>6. q[1].node = mid[1].node /\ q[2].node = mid[2].node /\ q[4].node = mid[3].node
  <2>1. 1 \in 1..3 - 1 /\ 2 \in 1..3 - 1 /\ 3 \in 3..3 /\ 3 + 1 = 4
    OBVIOUS
  <2>2. QED
    BY <2>1, <1>5
<1>7. QED
  BY <1>3, <1>4, <1>5, <1>6 DEF IsAlone

LEMMA AloneIsUnique ==
  ASSUME NEW p, NEW o, NEW v, NEW q, IsAlone(q, p, o, v), NEW r, IsAlone(r, p, o, v)
  PROVE  q = r
<1>1. /\ q \in Seq(ToSet(q)) /\ Len(q) = 4 /\ IsEvaluated(q, v)
      /\ r \in Seq(ToSet(r)) /\ Len(r) = 4 /\ IsEvaluated(r, v)
      /\ q[1].node = r[1].node /\ q[2].node = r[2].node /\ q[3].node = r[3].node /\ q[4].node = r[4].node
  BY DEF IsAlone
<1>2. \A i \in 1..4 : i = 1 \/ i = 2 \/ i = 3 \/ i = 4
  OBVIOUS
<1>3. SameNodes(r, q, 4)
  BY <1>1, <1>2 DEF SameNodes
<1>4. QED
  BY <1>1, <1>3, EvaluatedIsUnique

\* A vehicle that is ready: empty, and with any of the orders it is said to be able to take
\* there is no violation (fleet.cpp:set_compatibles).
IsReady(x) ==
  /\ IsSound(x) /\ x.orders = {} /\ IsFeasable(x.path)
  /\ x.feasable \subseteq Orders
  /\ \A o \in x.feasable : \A q : IsAlone(q, x.path, o, x) => IsFeasable(q)

LEMMA FreshIsReady ==
  ASSUME problem \in Problems, NEW w, IsRow(w),
         IsFeasable(NewVehicle(w.id, w.capacity, w.pace, w.start, w.end).path)
  PROVE  IsReady(Fresh(w))
<1> DEFINE z == NewVehicle(w.id, w.capacity, w.pace, w.start, w.end)
           x == Fresh(w)
<1>1. /\ IsSound(x) /\ x.orders = {} /\ x.path = z.path
      /\ x.feasable = {o \in Orders : IsOrderFeasable(z, o)}
  BY FreshIsSound
<1>2. HasParts(z) /\ z.orders = {} /\ x.pace = z.pace /\ x.capacity = z.capacity
  <2>1. HasParts(z) /\ z.orders = {}
    BY DEF HasParts, NewVehicle
  <2>2. x = [z EXCEPT !.feasable = {o \in Orders : IsOrderFeasable(z, o)}]
    BY DEF Fresh
  <2> DEFINE F == {o \in Orders : IsOrderFeasable(z, o)}
  <2> HIDE DEF z, x, F
  <2>3. x = [z EXCEPT !.feasable = F]
    BY <2>2 DEF F
  <2>4. x.pace = z.pace /\ x.capacity = z.capacity
    BY <2>1, <2>3 DEF HasParts
  <2>5. QED
    BY <2>1, <2>4
<1>3. IsFeasable(z.path)
  OBVIOUS
<1> HIDE DEF z, x
<1>4. IsSound(z)
  <2>1. Serves(z.path, z.orders, x) /\ IsEquipped(x)
    BY <1>1, <1>2 DEF IsSound
  <2>2. Serves(z.path, z.orders, z) /\ IsEquipped(z)
    BY <1>2, <2>1, SameQuantities
  <2>3. QED
    BY <1>2, <2>2 DEF IsSound
<1>5. Len(z.path) = 2
  <2>1. Len(z.path) = 2 * Cardinality({}) + 2
    BY <1>2, <1>4 DEF IsSound, Serves
  <2>2. QED
    BY <2>1, FS_EmptySet
<1>6. ASSUME NEW o \in x.feasable, NEW q, IsAlone(q, x.path, o, x) PROVE IsFeasable(q)
  <2>1. o \in Orders /\ IsOrderFeasable(z, o)
    BY <1>1
  <2>2. CanTake(z, o)
    BY <1>2, <1>4, <2>1 DEF CanTake, IsSound
  <2>3. PICK r : IsAdded(r, z.path, o, z) /\ PushBack(z, o) = Holding(z, r, o)
    BY <2>2, PushBackAdds
  <2>4. IsFeasable(r)
    BY <1>2, <2>1, <2>3, HoldingParts DEF IsOrderFeasable
  <2>5. IsAlone(r, z.path, o, z)
    BY <1>5, <2>3, AddedAlone
  <2>6. IsAlone(q, z.path, o, z)
    <3>1. ASSUME NEW n PROVE StartStop(n, x) = StartStop(n, z)
      BY <1>2 DEF StartStop
    <3>2. ASSUME NEW s, NEW n PROVE StopAfter(s, n, x) = StopAfter(s, n, z)
      BY <1>2 DEF StopAfter
    <3>3. ASSUME NEW i, IsEvaluatedAt(q, i, x) PROVE IsEvaluatedAt(q, i, z)
      BY <3>1, <3>2, <3>3 DEF IsEvaluatedAt
    <3>4. IsEvaluated(q, x) => IsEvaluated(q, z)
      BY <3>3 DEF IsEvaluated
    <3>5. QED
      BY <1>1, <1>6, <3>4 DEF IsAlone
  <2>7. QED
    BY <2>4, <2>5, <2>6, AloneIsUnique
<1>7. x.feasable \subseteq Orders
  BY <1>1
<1>8. IsReady(x)
  BY <1>1, <1>3, <1>6, <1>7 DEF IsReady
<1>9. QED
  BY <1>8 DEF x

\* The limits in a path whose nodes that do not go with n are known.
LEMMA LowLimitIs ==
  ASSUME NEW p, Len(p) \in Nat, DOMAIN p = 1..Len(p), NEW n, NEW v, NEW k \in 1..Len(p),
         ~ CompatibleIJ(n, p[k].node, v.pace),
         \A i \in k + 1..Len(p) : CompatibleIJ(n, p[i].node, v.pace)
  PROVE  LowLimit(p, n, v) = k + 1
<1> DEFINE A == {i \in DOMAIN p : ~ CompatibleIJ(n, p[i].node, v.pace)}
<1>1. k \in A /\ A \in SUBSET Nat
  OBVIOUS
<1>2. IsFiniteSet(A)
  <2>1. IsFiniteSet(DOMAIN p)
    BY FS_Interval
  <2>2. QED
    BY <2>1, FS_Subset
<1>3. \A i \in A : i <= k
  OBVIOUS
<1>4. LowLimit(p, n, v) = 1 + Max(A)
  BY DEF LowLimit
<1> HIDE DEF A
<1>5. Max(A) \in A /\ k <= Max(A)
  BY <1>1, <1>2, MaxOfOrders
<1> DEFINE m == Max(A)
<1>6. m \in Nat /\ m = k
  <2>1. m \in Nat /\ k <= m /\ m <= k
    BY <1>1, <1>3, <1>5
  <2> HIDE DEF m
  <2>2. QED
    BY <2>1
<1>7. QED
  BY <1>4, <1>6

LEMMA HighLimitIs ==
  ASSUME NEW p, Len(p) \in Nat, DOMAIN p = 1..Len(p), NEW n, NEW v, NEW k \in 1..Len(p),
         ~ CompatibleIJ(p[k].node, n, v.pace),
         \A i \in 1..k - 1 : CompatibleIJ(p[i].node, n, v.pace)
  PROVE  HighLimit(p, n, v) = k
<1> DEFINE A == {i \in DOMAIN p : ~ CompatibleIJ(p[i].node, n, v.pace)}
<1>1. k \in A /\ A \in SUBSET Nat
  OBVIOUS
<1>2. \A i \in A : k <= i
  OBVIOUS
<1>3. HighLimit(p, n, v) = Min(A)
  BY DEF HighLimit
<1> HIDE DEF A
<1>4. Min(A) \in A /\ Min(A) <= k
  BY <1>1, MinOfOrders
<1> DEFINE m == Min(A)
<1>5. m \in Nat /\ m = k
  <2>1. m \in Nat /\ k <= m /\ m <= k
    BY <1>1, <1>2, <1>4
  <2> HIDE DEF m
  <2>2. QED
    BY <2>1
<1>6. QED
  BY <1>3, <1>5

\* Between the ends of the empty path p there is a place for the order, and for each of
\* its stops alone.
FitsBetween(p, o, pace) ==
  /\ CompatibleIJ(p[1].node, Pickup(o), pace) /\ CompatibleIJ(p[1].node, Delivery(o), pace)
  /\ CompatibleIJ(Pickup(o), Delivery(o), pace)
  /\ CompatibleIJ(Pickup(o), p[2].node, pace) /\ CompatibleIJ(Delivery(o), p[2].node, pace)

\* What is in time after the stops before it is in time without them: a stop takes
\* no negative time, and no detour is a short cut.
LEMMA AloneFits ==
  ASSUME problem \in Problems, ValidOrders, IsMetric, NEW x, IsSound(x), x.orders = {},
         NEW o \in Orders, NEW q, IsAdded(q, x.path, o, x), IsFeasable(q)
  PROVE  FitsBetween(x.path, o, x.pace)
<1> DEFINE p == x.path
           s == p[1].node
           e == p[2].node
           P == Pickup(o)
           D == Delivery(o)
           TT(m, n) == TravelTime(m, n, x.pace)
<1>1. /\ Serves(p, {}, x) /\ IsEquipped(x) /\ x.pace \in Int
  BY DEF IsSound, IsEquipped
<1>2. Len(p) = 2
  BY <1>1, FS_EmptySet DEF Serves
<1>3. s.type = "start" /\ e.type = "end"
  BY <1>1, <1>2 DEF Serves, IsTour
<1>4. Serves(q, {} \cup {o}, x)
  BY <1>1, AddedServes
<1>5. /\ Len(q) = 4 /\ IsEvaluated(q, x)
      /\ q[1].node = s /\ q[2].node = P /\ q[3].node = D /\ q[4].node = e
  BY <1>2, AddedAlone DEF IsAlone
<1>6. IsPunctual(q, x)
  BY <1>1, <1>4, FeasableMeans
<1>7. IsPlace(s) /\ IsPlace(P) /\ IsPlace(D) /\ IsPlace(e)
  <2>1. 1 \in 1..Len(p) /\ 2 \in 1..Len(p)
    BY <1>2
  <2>2. IsPlace(s) /\ IsPlace(e)
    BY <1>1, <2>1, PathHasPlaces
  <2>3. QED
    BY <2>2, OrdersHavePlaces
<1>8. /\ P.type = "pickup" /\ D.type = "delivery"
      /\ P.service >= 0 /\ D.service >= 0
  BY DEF ValidOrders, IsType
<1> DEFINE d1 == q[1].departure
           d2 == q[2].departure
           d3 == q[3].departure
<1>9. d1 \in Int /\ d2 \in Int /\ d3 \in Int
  <2>1. \A i \in 1..4 : q[i].departure \in Int
    BY <1>1, <1>4, <1>5, ValuesAreNumbers DEF HasValues
  <2>2. QED
    BY <2>1
<1> HIDE DEF s, e, P, D, p
<1>10. d1 = s.opens + s.service
  <2>1. 1 \in 1..Len(q)
    BY <1>5
  <2>2. q[1] = StartStop(s, x)
    BY <2>1, <1>5 DEF IsEvaluated, IsEvaluatedAt
  <2>3. QED
    BY <2>2 DEF StartStop
<1>11. /\ d2 = (IF d1 + TT(s, P) < P.opens THEN P.opens ELSE d1 + TT(s, P)) + P.service
       /\ d1 + TT(s, P) <= P.closes
  <2>1. 2 \in 2..Len(q) /\ 2 - 1 = 1
    BY <1>5
  <2>2. QED
    BY <2>1, <1>5, <1>6, NextStop DEF IsPunctual, IsOnTime
<1>12. /\ d3 = (IF d2 + TT(P, D) < D.opens THEN D.opens ELSE d2 + TT(P, D)) + D.service
       /\ d2 + TT(P, D) <= D.closes
  <2>1. 3 \in 2..Len(q) /\ 3 - 1 = 2
    BY <1>5
  <2>2. QED
    BY <2>1, <1>5, <1>6, NextStop DEF IsPunctual, IsOnTime
<1>13. d3 + TT(D, e) <= e.closes
  <2>1. 4 \in 2..Len(q) /\ 4 - 1 = 3
    BY <1>5
  <2>2. QED
    BY <2>1, <1>5, <1>6 DEF IsPunctual, IsOnTime
<1>14. /\ TT(s, P) \in Int /\ TT(P, D) \in Int /\ TT(D, e) \in Int /\ TT(s, D) \in Int /\ TT(P, e) \in Int
  BY <1>1, <1>7, TravelTimeIsNumber
<1>15. TT(s, D) <= TT(s, P) + TT(P, D) /\ TT(P, e) <= TT(P, D) + TT(D, e)
  BY <1>1, <1>7, Detours
<1>16. /\ s.opens \in Int /\ s.service \in Int
       /\ P.opens \in Int /\ P.closes \in Int /\ P.service \in Int
       /\ D.opens \in Int /\ D.closes \in Int /\ D.service \in Int /\ e.closes \in Int
  BY <1>7 DEF IsPlace
<1> HIDE DEF d1, d2, d3, TT
<1>17. d2 >= P.opens + P.service /\ d2 >= d1 + TT(s, P)
  BY <1>8, <1>9, <1>11, <1>14, <1>16
<1>18. d3 >= D.opens + D.service /\ d3 >= d2 + TT(P, D)
  BY <1>8, <1>9, <1>12, <1>14, <1>16
<1>19. s.opens + s.service + TT(s, P) <= P.closes
  BY <1>10, <1>11
<1>20. s.opens + s.service + TT(s, D) <= D.closes
  BY <1>9, <1>10, <1>12, <1>14, <1>15, <1>16, <1>17
<1>21. P.opens + P.service + TT(P, D) <= D.closes
  BY <1>9, <1>12, <1>14, <1>16, <1>17
<1>22. P.opens + P.service + TT(P, e) <= e.closes
  BY <1>9, <1>13, <1>14, <1>15, <1>16, <1>17, <1>18
<1>23. D.opens + D.service + TT(D, e) <= e.closes
  BY <1>9, <1>13, <1>14, <1>16, <1>18
<1>24. /\ CompatibleIJ(s, P, x.pace) /\ CompatibleIJ(s, D, x.pace) /\ CompatibleIJ(P, D, x.pace)
       /\ CompatibleIJ(P, e, x.pace) /\ CompatibleIJ(D, e, x.pace)
  BY <1>3, <1>8, <1>19, <1>20, <1>21, <1>22, <1>23 DEF CompatibleIJ, TT
<1>25. QED
  BY <1>24 DEF FitsBetween, s, e, P, D, p

\* insert finds the one place there is.
LEMMA EmptyInserts ==
  ASSUME problem \in Problems, ValidOrders, IsMetric, NEW x, IsReady(x), NEW o \in x.feasable
  PROVE  o \in Insert(x, o).orders
<1> DEFINE p == x.path
           Taken(tried) == IF tried = {} THEN x ELSE Holding(x, FirstShortest(tried).path, o)
           T == Insertions(x, o)
           q == TryAt(x, o, 2, 3)
<1>1. /\ IsSound(x) /\ HasParts(x) /\ Serves(p, {}, x) /\ o \in Orders /\ x.orders = {}
      /\ \A r : IsAlone(r, p, o, x) => IsFeasable(r)
  BY DEF IsReady, IsSound
<1>2. Len(p) = 2 /\ DOMAIN p = 1..2 /\ p[1].node.type = "start" /\ p[2].node.type = "end"
  <2>1. Len(p) = 2
    BY <1>1, FS_EmptySet DEF Serves
  <2>2. QED
    BY <1>1, <2>1 DEF Serves, IsTour
<1>3. IsAdded(q.path, p, o, x)
  <2>1. 2 \in 2..Len(p) /\ 3 \in 2 + 1..Len(p) + 1
    BY <1>2
  <2>2. QED
    BY <1>1, <2>1, TryAdds
<1>4. IsFeasable(q.path)
  BY <1>1, <1>2, <1>3, AddedAlone
<1>5. FitsBetween(p, o, x.pace)
  <2> HIDE DEF q
  <2>1. QED
    BY <1>1, <1>3, <1>4, AloneFits
<1>6. /\ LowLimit(p, Pickup(o), x) = 2 /\ HighLimit(p, Pickup(o), x) = 2
      /\ LowLimit(p, Delivery(o), x) = 2 /\ HighLimit(p, Delivery(o), x) = 2
  <2>1. ASSUME NEW n, n \in {Pickup(o), Delivery(o)}
        PROVE  LowLimit(p, n, x) = 2 /\ HighLimit(p, n, x) = 2
    <3>1. /\ ~ CompatibleIJ(n, p[1].node, x.pace) /\ ~ CompatibleIJ(p[2].node, n, x.pace)
      BY <1>2 DEF CompatibleIJ
    <3>2. CompatibleIJ(n, p[2].node, x.pace) /\ CompatibleIJ(p[1].node, n, x.pace)
      BY <1>5, <2>1 DEF FitsBetween
    <3>3. (\A i \in 1 + 1..Len(p) : i = 2) /\ (\A i \in 1..2 - 1 : i = 1)
      BY <1>2
    <3>4. 1 \in 1..Len(p) /\ 2 \in 1..Len(p) /\ Len(p) \in Nat /\ DOMAIN p = 1..Len(p)
      BY <1>2
    <3> HIDE DEF p
    <3>5. LowLimit(p, n, x) = 1 + 1
      BY <3>1, <3>2, <3>3, <3>4, LowLimitIs
    <3>6. HighLimit(p, n, x) = 2
      BY <3>1, <3>2, <3>3, <3>4, HighLimitIs
    <3>7. QED
      BY <3>5, <3>6
  <2>2. QED
    BY <2>1
<1>7. q \in {[at |-> <<2, d>>, path |-> InsertNode(picked, d, Delivery(o), x)] :
               d \in DeliveryPlaces(x, o, 2), picked \in {InsertNode(p, 2, Pickup(o), x)}}
  <2> DEFINE A == {2 + 1, 2 + 1}
             three == {3}
  <2>1. A = three /\ Max(three) = 3
    <3>1. IsFiniteSet(three)
      BY FS_Singleton
    <3>2. three \in SUBSET Nat /\ three # {} /\ \A i \in three : i = 3
      OBVIOUS
    <3>3. A = three
      OBVIOUS
    <3> HIDE DEF three, A
    <3>4. Max(three) \in three
      BY <3>1, <3>2, MaxOfOrders
    <3>5. QED
      BY <3>2, <3>3, <3>4
  <2>2. DeliveryPlaces(x, o, 2) = Max(A)..2 + 1
    BY <1>6 DEF DeliveryPlaces
  <2> HIDE DEF A, three
  <2>3. 3 \in DeliveryPlaces(x, o, 2)
    <3>1. Max(A) = 3
      BY <2>1
    <3>2. DeliveryPlaces(x, o, 2) = 3..2 + 1
      BY <2>2, <3>1
    <3>3. 3 \in 3..2 + 1
      OBVIOUS
    <3>4. QED
      BY <3>2, <3>3
  <2>4. QED
    BY <2>3 DEF TryAt
<1>8. q \in T
  <2>1. 2 \in PickupPlaces(x, o)
    BY <1>6 DEF PickupPlaces
  <2> DEFINE U(k) == {[at |-> <<k, d>>, path |-> InsertNode(picked, d, Delivery(o), x)] :
                        d \in DeliveryPlaces(x, o, k), picked \in {InsertNode(p, k, Pickup(o), x)}}
  <2>2. q \in U(2)
    BY <1>7
  <2>3. T = {r \in UNION {U(k) : k \in PickupPlaces(x, o)} : IsFeasable(r.path)}
    BY DEF Insertions
  <2> HIDE DEF q, T, U
  <2>4. QED
    BY <1>4, <2>1, <2>2, <2>3
<1>9. Insert(x, o) = Taken(T)
  <2>1. {Taken(tried) : tried \in {T}} = {Taken(T)}
    OBVIOUS
  <2>2. Insert(x, o) = The({Taken(T)})
    BY <2>1 DEF Insert
  <2> HIDE DEF Taken
  <2>3. QED
    BY <2>2, TheOne
<1>10. Insert(x, o) = Holding(x, FirstShortest(T).path, o)
  <2> HIDE DEF q, T
  <2>1. QED
    BY <1>8, <1>9
<1>11. QED
  BY <1>1, <1>10, HoldingParts

\* semiLIFO finds it, too.
LEMMA EmptySemiLIFO ==
  ASSUME problem \in Problems, ValidOrders, IsMetric, NEW x, IsReady(x), NEW o \in x.feasable
  PROVE  o \in SemiLIFO(x, o).orders
<1> DEFINE p == x.path
           picked == InsertNode(p, 2, Pickup(o), x)
           Latest(tried) == CHOOSE r \in tried : \A q \in tried : q.at <= r.at
           Taken(tried) == IF tried = {} THEN x ELSE Holding(x, Latest(tried).path, o)
           T == LIFOInsertions(x, o, picked)
           q == InsertNode(picked, 3, Delivery(o), x)
<1>1. /\ IsSound(x) /\ HasParts(x) /\ Serves(p, {}, x) /\ o \in Orders /\ x.orders = {}
      /\ \A r : IsAlone(r, p, o, x) => IsFeasable(r)
  BY DEF IsReady, IsSound
<1>2. Len(p) = 2 /\ DOMAIN p = 1..2 /\ p[1].node.type = "start" /\ p[2].node.type = "end"
  <2>1. Len(p) = 2
    BY <1>1, FS_EmptySet DEF Serves
  <2>2. QED
    BY <1>1, <2>1 DEF Serves, IsTour
<1>3. p \in Seq(ToSet(p)) /\ IsEvaluated(p, x)
  BY <1>1 DEF Serves, IsTour
<1>4. TryAt(x, o, 2, 3).path = q
  BY DEF TryAt
<1>5. IsAdded(q, p, o, x)
  <2>1. 2 \in 2..Len(p) /\ 3 \in 2 + 1..Len(p) + 1
    BY <1>2
  <2>2. IsAdded(TryAt(x, o, 2, 3).path, p, o, x)
    BY <1>1, <2>1, TryAdds
  <2>3. QED
    BY <1>4, <2>2
<1>6. IsAlone(q, p, o, x)
  BY <1>2, <1>5, AddedAlone
<1>7. IsFeasable(q)
  BY <1>1, <1>6
<1>8. FitsBetween(p, o, x.pace)
  <2> HIDE DEF q
  <2>1. QED
    BY <1>1, <1>5, <1>7, AloneFits
<1>9. IsInsertion(picked, p, 2, Pickup(o), x)
  <2>1. 2 \in 1..Len(p) + 1
    BY <1>2
  <2> HIDE DEF p
  <2>2. QED
    BY <1>3, <2>1, InsertNodeInserts
<1>10. SemiLIFO(x, o) = Taken(T)
  <2>1. {Taken(tried) : tried \in {T}} = {Taken(T)}
    OBVIOUS
  <2>2. {LIFOInsertions(x, o, y) : y \in {picked}} = {T}
    OBVIOUS
  <2>3. SemiLIFO(x, o) = The({Taken(tried) : tried \in {T}})
    BY <2>2 DEF SemiLIFO
  <2> HIDE DEF Taken, T
  <2>4. QED
    BY <2>1, <2>3, TheOne
<1> HIDE DEF picked
<1>11. /\ Len(picked) = 3 /\ DOMAIN picked = 1..3
       /\ picked[1].node = p[1].node /\ picked[2].node = Pickup(o) /\ picked[3].node = p[2].node
  <2>1. /\ picked \in Seq(ToSet(picked)) /\ Len(picked) = 2 + 1 /\ picked[2].node = Pickup(o)
        /\ \A i \in 1..2 - 1 : picked[i].node = p[i].node
        /\ \A i \in 2..2 : picked[i + 1].node = p[i].node
    BY <1>2, <1>9 DEF IsInsertion
  <2>2. 1 \in 1..2 - 1 /\ 2 \in 2..2 /\ 2 + 1 = 3
    OBVIOUS
  <2>3. QED
    BY <2>1, <2>2
<1>12. HighLimit(picked, Delivery(o), x) = 3
  <2>1. ~ CompatibleIJ(picked[3].node, Delivery(o), x.pace)
    BY <1>2, <1>11 DEF CompatibleIJ
  <2>2. \A i \in 1..3 - 1 : i = 1 \/ i = 2
    OBVIOUS
  <2>3. \A i \in 1..3 - 1 : CompatibleIJ(picked[i].node, Delivery(o), x.pace)
    BY <1>8, <1>11, <2>2 DEF FitsBetween
  <2>4. 3 \in 1..Len(picked) /\ Len(picked) \in Nat /\ DOMAIN picked = 1..Len(picked)
    BY <1>11
  <2>5. QED
    BY <2>1, <2>3, <2>4, HighLimitIs
<1>13. DropLowLimit(picked, Delivery(o), x) = 3
  <2> DEFINE low == LowLimit(picked, Delivery(o), x)
             P == {j \in DOMAIN picked : IsType(picked[j].node, "pickup")}
             A == {low} \cup {i + 1 : i \in P}
  <2>1. low \in {2, 3}
    <3>1. CompatibleIJ(Delivery(o), picked[3].node, x.pace) /\ ~ CompatibleIJ(Delivery(o), picked[1].node, x.pace)
      BY <1>2, <1>8, <1>11 DEF FitsBetween, CompatibleIJ
    <3>2. /\ 1 \in 1..Len(picked) /\ 2 \in 1..Len(picked)
          /\ Len(picked) \in Nat /\ DOMAIN picked = 1..Len(picked)
          /\ (\A i \in 1 + 1..Len(picked) : i = 2 \/ i = 3) /\ (\A i \in 2 + 1..Len(picked) : i = 3)
      BY <1>11
    <3>3. CASE CompatibleIJ(Delivery(o), picked[2].node, x.pace)
      <4>1. \A i \in 1 + 1..Len(picked) : CompatibleIJ(Delivery(o), picked[i].node, x.pace)
        BY <3>1, <3>2, <3>3
      <4>2. low = 1 + 1
        BY <3>1, <3>2, <4>1, LowLimitIs
      <4>3. QED
        BY <4>2
    <3>4. CASE ~ CompatibleIJ(Delivery(o), picked[2].node, x.pace)
      <4>1. \A i \in 2 + 1..Len(picked) : CompatibleIJ(Delivery(o), picked[i].node, x.pace)
        BY <3>1, <3>2
      <4>2. low = 2 + 1
        BY <3>2, <3>4, <4>1, LowLimitIs
      <4>3. QED
        BY <4>2
    <3>5. QED
      BY <3>3, <3>4
  <2>2. P = {2}
    <3>1. IsType(picked[2].node, "pickup")
      BY <1>1, <1>11 DEF ValidOrders
    <3>2. ~ IsType(picked[1].node, "pickup") /\ ~ IsType(picked[3].node, "pickup")
      BY <1>2, <1>11 DEF IsType
    <3>3. \A j \in DOMAIN picked : j = 1 \/ j = 2 \/ j = 3
      BY <1>11
    <3>4. 2 \in DOMAIN picked
      BY <1>11
    <3>5. QED
      BY <3>1, <3>2, <3>3, <3>4
  <2> HIDE DEF P, low
  <2>3. {i + 1 : i \in P} = {3}
    BY <2>2
  <2>4. A = {low} \cup {3}
    BY <2>3
  <2>5. IsFiniteSet({low} \cup {3})
    <3>1. IsFiniteSet({low}) /\ IsFiniteSet({3})
      BY FS_Singleton
    <3>2. QED
      BY <3>1, FS_Union
  <2>6. A \in SUBSET Nat /\ A # {} /\ 3 \in A /\ \A i \in A : i <= 3
    BY <2>1, <2>4
  <2>7. DropLowLimit(picked, Delivery(o), x) = Max(A)
    BY DEF DropLowLimit, P, low
  <2> HIDE DEF A
  <2>8. Max(A) \in A /\ 3 <= Max(A)
    BY <2>4, <2>5, <2>6, MaxOfOrders
  <2> DEFINE m == Max(A)
  <2>9. m \in Nat /\ 3 <= m /\ m <= 3
    BY <2>6, <2>8
  <2>10. DropLowLimit(picked, Delivery(o), x) = m
    BY <2>7
  <2> HIDE DEF m
  <2>11. QED
    BY <2>9, <2>10
<1>14. T # {}
  <2> DEFINE r == [at |-> 3, path |-> q]
  <2>1. r \in {[at |-> d, path |-> InsertNode(picked, d, Delivery(o), x)] :
                 d \in DropLowLimit(picked, Delivery(o), x)..HighLimit(picked, Delivery(o), x)}
    BY <1>12, <1>13
  <2>2. r.path = q /\ r.at + 1 = 4
    OBVIOUS
  <2>3. q[4].node = p[2].node
    BY <1>6 DEF IsAlone
  <2>4. ~ IsType(r.path[r.at + 1].node, "pickup")
    <3> HIDE DEF r, q
    <3>1. r.path[r.at + 1].node = p[2].node
      BY <2>2, <2>3
    <3>2. QED
      BY <3>1, <1>2 DEF IsType
  <2>5. IsFeasable(r.path)
    <3> HIDE DEF r, q
    <3>1. QED
      BY <2>2, <1>7
  <2> HIDE DEF r
  <2>6. r \in T
    BY <2>1, <2>4, <2>5 DEF LIFOInsertions
  <2>7. QED
    BY <2>6
<1>15. SemiLIFO(x, o) = Holding(x, Latest(T).path, o)
  <2> HIDE DEF T
  <2>1. QED
    BY <1>10, <1>14
<1>16. QED
  BY <1>1, <1>15, HoldingParts

\* Whatever way the vehicles are filled, an empty one takes any of the orders that it is
\* said to be able to take.
LEMMA EmptyTakes ==
  ASSUME problem \in Problems, ValidOrders, IsMetric, IsReady(truck), NEW o \in truck.feasable
  PROVE  IsFeasable(Filled(o).path) /\ o \in Filled(o).orders
<1> DEFINE v == Filled(o)
<1>1. /\ IsSound(truck) /\ o \in Orders /\ o \notin truck.orders /\ IsFeasable(truck.path)
      /\ HasParts(truck) /\ Serves(truck.path, {}, truck)
      /\ \A r : IsAlone(r, truck.path, o, truck) => IsFeasable(r)
  BY DEF IsReady, IsSound
<1>2. Len(truck.path) = 2
  BY <1>1, FS_EmptySet DEF Serves
<1>3. v \in {PushBack(truck, o), PushFront(truck, o), SemiLIFO(truck, o), Insert(truck, o)}
  BY DEF Filled
<1>4. CASE v = PushBack(truck, o) \/ v = PushFront(truck, o)
  <2>1. CanTake(truck, o)
    BY <1>1 DEF CanTake, IsSound
  <2>2. PICK q : IsAdded(q, truck.path, o, truck) /\ v = Holding(truck, q, o)
    BY <1>4, <2>1, PushBackAdds, PushFrontAdds
  <2>3. IsFeasable(q)
    BY <1>1, <1>2, <2>2, AddedAlone
  <2>4. v.path = q /\ v.orders = truck.orders \cup {o}
    BY <1>1, <2>2, HoldingParts
  <2> HIDE DEF v
  <2>5. IsFeasable(v.path) /\ o \in v.orders
    BY <2>3, <2>4
  <2>6. QED
    BY <2>5 DEF v
<1>5. CASE v = SemiLIFO(truck, o) \/ v = Insert(truck, o)
  <2>1. o \in v.orders
    BY <1>5, EmptyInserts, EmptySemiLIFO
  <2>2. v = truck \/ IsGiven(v, truck, o)
    BY <1>1, <1>5, SemiLIFOGives, InsertGives
  <2> HIDE DEF v
  <2>3. IsFeasable(v.path)
    BY <1>1, <2>2 DEF IsGiven
  <2>4. QED
    BY <2>1, <2>3 DEF v
<1>6. QED
  BY <1>3, <1>4, <1>5

----------------------------------------------------------------------------
(***************************************************************************)
(* The vehicles in the states of a call.                                   *)
(***************************************************************************)
\* The orders and the vehicles of an accepted request are valid (fleet.cpp, is_order_ok and
\* is_fleet_ok), and one vehicle is always left to be used.
TrucksInv ==
  pc \notin {"start", "error"} =>
    /\ ValidOrders
    /\ \A x \in ToSet(trucks) : IsReady(x)
    /\ unused # {}

\* Every vehicle held is sound. The one that is filled has no violation, whatever the matrix:
\* an order that makes one is taken out again.
HeldInv ==
  /\ \A x \in ToSet(fleet) \cup ToSet(best) : IsGood(x)
  /\ \A x \in {truck, copies.from, copies.to} : x = NoVehicle \/ IsSound(x)
  /\ pc = "fill" => IsSound(truck) /\ IsFeasable(truck.path)

\* The orders still tried are among those that the vehicle could take when it was empty; as
\* long as it is, one is left.
FilledInv ==
  pc = "fill" =>
    /\ left \subseteq truck.feasable
    /\ IsMetric /\ truck.orders = {} => IsReady(truck) /\ left # {}

VehiclesInv == TrucksInv /\ HeldInv /\ FilledInv /\ NoOrderIsStranded

\* The orders and the matrix are those of the call throughout.
LEMMA SameProblem ==
  ASSUME problem' = problem
  PROVE  /\ ValidOrders' <=> ValidOrders
         /\ IsMetric' <=> IsMetric
         /\ \A x : IsSound(x)' <=> IsSound(x)
         /\ \A x : IsGood(x)' <=> IsGood(x)
         /\ \A x : IsReady(x)' <=> IsReady(x)
<1>1. Orders' = Orders
  BY DEF Orders
<1>2. \A o : Pickup(o)' = Pickup(o) /\ Delivery(o)' = Delivery(o)
  BY DEF Pickup, Delivery, Node
<1>3. \A m, n, pace : TravelTime(m, n, pace)' = TravelTime(m, n, pace)
  BY DEF TravelTime
<1>4. \A s, n, v : StopAfter(s, n, v)' = StopAfter(s, n, v)
  BY <1>3 DEF StopAfter
<1>5. \A p, i, v : IsEvaluatedAt(p, i, v)' <=> IsEvaluatedAt(p, i, v)
  BY <1>4 DEF IsEvaluatedAt
<1>6. \A p, v : IsEvaluated(p, v)' <=> IsEvaluated(p, v)
  BY <1>5 DEF IsEvaluated
<1>7. \A p, N, v : IsTour(p, N, v)' <=> IsTour(p, N, v)
  BY <1>6 DEF IsTour
<1>8. \A S : NodesOf(S)' = NodesOf(S)
  BY <1>2 DEF NodesOf
<1>9. \A n : IsDepot(n)' <=> IsDepot(n)
  BY DEF IsDepot, IsPlace
<1>10. \A p, S, v : Serves(p, S, v)' <=> Serves(p, S, v)
  BY <1>1, <1>2, <1>7, <1>8, <1>9 DEF Serves
<1>11. \A v : IsEquipped(v)' <=> IsEquipped(v)
  BY DEF IsEquipped
<1>12. \A x : IsSound(x)' <=> IsSound(x)
  BY <1>10, <1>11 DEF IsSound
<1>13. IsMetric' <=> IsMetric
  BY DEF IsMetric
<1>14. \A x : IsGood(x)' <=> IsGood(x)
  BY <1>12, <1>13 DEF IsGood, IsSafe
<1>15. \A q, p, o, v : IsAlone(q, p, o, v)' <=> IsAlone(q, p, o, v)
  BY <1>2, <1>6 DEF IsAlone
<1>16. \A x : IsReady(x)' <=> IsReady(x)
  BY <1>1, <1>12, <1>15 DEF IsReady
<1>17. ValidOrders' <=> ValidOrders
  BY <1>1, <1>2 DEF ValidOrders
<1>18. QED
  BY <1>12, <1>13, <1>14, <1>16, <1>17

\* A step of the solver that leaves the vehicles it holds good.
LEMMA GoodStays ==
  ASSUME VehiclesInv, UNCHANGED <<problem, trucks, unused>>,
         pc \notin {"start", "error"}, pc' \in Optimizing \cup {"assign"},
         \A x \in ToSet(fleet') \cup ToSet(best') : IsGood(x),
         \A x \in {truck', copies'.from, copies'.to} : x = NoVehicle \/ IsSound(x)
  PROVE  VehiclesInv'
<1>1. pc' \notin {"start", "error", "fill", "failed"}
  BY DEF Optimizing
<1>2. TrucksInv'
  <2>1. ValidOrders /\ (\A x \in ToSet(trucks) : IsReady(x)) /\ unused # {}
    BY DEF VehiclesInv, TrucksInv
  <2>2. ValidOrders' /\ \A x \in ToSet(trucks') : IsReady(x)'
    BY <2>1, SameProblem
  <2>3. QED
    BY <2>1, <2>2 DEF TrucksInv
<1>3. HeldInv'
  <2>1. \A x \in ToSet(fleet') \cup ToSet(best') : IsGood(x)'
    BY SameProblem
  <2>2. \A x \in {truck', copies'.from, copies'.to} : x = NoVehicle' \/ IsSound(x)'
    BY SameProblem DEF NoVehicle
  <2>3. QED
    BY <1>1, <2>1, <2>2 DEF HeldInv
<1>4. FilledInv' /\ NoOrderIsStranded'
  BY <1>1 DEF FilledInv, NoOrderIsStranded
<1>5. QED
  BY <1>2, <1>3, <1>4 DEF VehiclesInv

\* What the solver holds before such a step.
LEMMA GoodBefore ==
  ASSUME IInv, VehiclesInv
  PROVE  /\ problem \in Problems
         /\ \A x \in ToSet(fleet) : IsGood(x) /\ IsSound(x)
         /\ \A x \in ToSet(best) : IsGood(x)
         /\ \A x \in {truck, copies.from, copies.to} : x = NoVehicle \/ IsSound(x)
         /\ pc \notin {"start", "error"} => ValidOrders
BY DEF IInv, TypeOK, VehiclesInv, HeldInv, TrucksInv, IsGood

\* Sorting, leaving out and rotating bring no vehicle in.
LEMMA NoneAppears ==
  ASSUME NEW f, IsFleet(f)
  PROVE  /\ \A g \in SortedBySize(f) : ToSet(g) \subseteq ToSet(f)
         /\ ToSet(WithoutEmpty(f)) \subseteq ToSet(f)
         /\ Len(f) > 0 => ToSet(Append(Tail(f), Head(f))) \subseteq ToSet(f)
<1>1. ASSUME NEW g \in SortedBySize(f) PROVE ToSet(g) \subseteq ToSet(f)
  <2>1. PICK p \in Bijection(DOMAIN f, DOMAIN f) : g = [i \in DOMAIN f |-> f[p[i]]]
    BY DEF SortedBySize
  <2>2. p \in [DOMAIN f -> DOMAIN f]
    BY <2>1 DEF Bijection, Injection, Surjection
  <2>3. QED
    BY <2>1, <2>2 DEF ToSet
<1>2. ToSet(WithoutEmpty(f)) \subseteq ToSet(f)
  <2> DEFINE g == WithoutEmpty(f)
  <2>1. PICK h : Selects(h, g, f, DOMAIN f)
    BY WithoutEmptySelects
  <2> HIDE DEF g
  <2>2. \A k \in DOMAIN g : h[k] \in DOMAIN f /\ g[k] = f[h[k]]
    BY <2>1 DEF Selects
  <2>3. ToSet(g) \subseteq ToSet(f)
    BY <2>2 DEF ToSet
  <2>4. QED
    BY <2>3 DEF g
<1>3. ASSUME Len(f) > 0 PROVE ToSet(Append(Tail(f), Head(f))) \subseteq ToSet(f)
  <2>1. f \in Seq(ToSet(f))
    BY DEF IsFleet
  <2> DEFINE X == ToSet(f)
             g == Append(Tail(f), Head(f))
  <2>2. f \in Seq(X) /\ Len(f) > 0
    BY <2>1, <1>3
  <2> HIDE DEF X
  <2>3. g \in Seq(X)
    BY <2>2
  <2> HIDE DEF g
  <2>4. ToSet(g) \subseteq X
    BY <2>3 DEF ToSet
  <2>5. QED
    BY <2>4 DEF X, g
<1>4. QED
  BY <1>1, <1>2, <1>3

\* Two vehicles of the fleet are written.
LEMMA WrittenAreGood ==
  ASSUME NEW f, NEW g, NEW i, NEW j, NEW x, NEW y, IsRewritten(g, f, i, j, x, y)
  PROVE  ToSet(g) \subseteq ToSet(f) \cup {x, y}
BY DEF IsRewritten, ToSet

\* What stands in a position of a solution is one of its vehicles.
LEMMA FleetMembers ==
  ASSUME NEW f, NEW i \in DOMAIN f
  PROVE  f[i] \in ToSet(f)
BY DEF ToSet

LEMMA OptimizeStaysGood ==
  ASSUME IInv, VehiclesInv, Optimize
  PROVE  VehiclesInv'
<1>1. /\ pc = "assign" /\ pc' = "decrease" /\ best' = fleet /\ fleet' \in SortedBySize(fleet)
      /\ UNCHANGED <<problem, trucks, unused, truck, copies>>
  BY DEF Optimize
<1>2. IsFleet(fleet)
  <2>1. fleet \in Seq(ToSet(fleet)) /\ IsFleet(Append(fleet, truck))
    BY <1>1 DEF IInv, FillingInv, Filling, Carries
  <2>2. \A i \in DOMAIN fleet : /\ i \in DOMAIN Append(fleet, truck)
                                /\ Append(fleet, truck)[i] = fleet[i]
    BY <2>1, Appended
  <2>3. QED
    BY <2>1, <2>2 DEF IsFleet
<1>3. ToSet(fleet') \cup ToSet(best') \subseteq ToSet(fleet)
  BY <1>1, <1>2, NoneAppears
<1>4. QED
  BY <1>1, <1>3, GoodBefore, GoodStays DEF Optimizing

\* The vehicles before a step of the optimizer.
LEMMA FleetBefore ==
  ASSUME IInv, pc \in Optimizing
  PROVE  /\ IsFleet(fleet) /\ IsFleet(best) /\ pc \notin {"start", "error"}
         /\ \A i \in DOMAIN fleet : fleet[i] \in ToSet(fleet)
<1>1. IsFleet(fleet) /\ IsFleet(best)
  BY DEF IInv, OptimizingInv, Carries
<1>2. QED
  BY <1>1, FleetMembers DEF Optimizing

\* decrease_truck turns to the next vehicle.
LEMMA DecreaseTruckStaysGood ==
  ASSUME IInv, VehiclesInv, DecreaseTruck
  PROVE  VehiclesInv'
<1>1. pc = "decrease" /\ UNCHANGED <<problem, pc, trucks, unused, truck, fleet, best, copies>>
  BY DEF DecreaseTruck
<1>2. QED
  BY <1>1, GoodBefore, GoodStays DEF Optimizing

LEMMA DecreasedStaysGood ==
  ASSUME IInv, VehiclesInv, Decreased
  PROVE  VehiclesInv'
<1>1. /\ pc = "decrease" /\ pc' \in Optimizing
      /\ \/ DeleteEmpty
         \/ fleet' \in SortedBySize(fleet) /\ best' = BestAfter(fleet, best)
      /\ UNCHANGED <<problem, trucks, unused, truck, copies>>
  BY DEF Decreased, Optimizing
<1>2. IsFleet(fleet)
  BY <1>1, FleetBefore DEF Optimizing
<1>3. ToSet(fleet') \cup ToSet(best') \subseteq ToSet(fleet) \cup ToSet(best)
  BY <1>1, <1>2, NoneAppears, BestIsOneOfTwo DEF DeleteEmpty
<1>4. QED
  BY <1>1, <1>3, GoodBefore, GoodStays

LEMMA InterSwapStaysGood ==
  ASSUME IInv, VehiclesInv, InterSwap
  PROVE  VehiclesInv'
<1>1. /\ pc = "cycle" /\ pc' = "pair" /\ DeleteEmpty
      /\ UNCHANGED <<problem, trucks, unused, truck, copies>>
  BY DEF InterSwap
<1>2. IsFleet(fleet)
  BY <1>1, FleetBefore DEF Optimizing
<1>3. ToSet(fleet') \cup ToSet(best') \subseteq ToSet(fleet) \cup ToSet(best)
  BY <1>1, <1>2, NoneAppears, BestIsOneOfTwo DEF DeleteEmpty
<1>4. QED
  BY <1>1, <1>3, GoodBefore, GoodStays DEF Optimizing

\* The loops of inter_swap, and the copies of swap_worse.
LEMMA PairsStayGood ==
  ASSUME IInv, VehiclesInv, NextPair \/ SwapWorse \/ KeepOrder
  PROVE  VehiclesInv'
<1>1. CASE NextPair \/ KeepOrder
  <2>1. /\ pc \in Optimizing /\ pc' \in Optimizing
        /\ UNCHANGED <<problem, trucks, unused, truck, fleet, best, copies>>
    BY <1>1 DEF NextPair, KeepOrder, Optimizing
  <2>2. QED
    BY <2>1, GoodBefore, GoodStays DEF Optimizing
<1>2. CASE SwapWorse
  <2>1. /\ pc = "pair" /\ pc' = "swap" /\ at.to < at.from
        /\ copies' = [from |-> fleet[at.from], to |-> fleet[at.to]]
        /\ UNCHANGED <<problem, trucks, unused, truck, fleet, best>>
    BY <1>2 DEF SwapWorse
  <2>2. at.from \in DOMAIN fleet /\ at.to > 0 /\ at \in [from : Nat, to : Nat]
    BY <2>1 DEF IInv, LoopInv, TypeOK
  <2>3. DOMAIN fleet = 1..Len(fleet) /\ Len(fleet) \in Nat
    BY <2>1 DEF IInv, OptimizingInv, Optimizing, Carries, IsFleet
  <2>4. at.to \in DOMAIN fleet
    BY <2>1, <2>2, <2>3
  <2>5. copies'.from \in ToSet(fleet) /\ copies'.to \in ToSet(fleet)
    BY <2>1, <2>2, <2>4, FleetMembers
  <2>6. QED
    BY <2>1, <2>5, GoodBefore, GoodStays DEF Optimizing
<1>3. QED
  BY <1>1, <1>2

LEMMA MoveReduceCostStaysGood ==
  ASSUME IInv, VehiclesInv, MoveReduceCost
  PROVE  VehiclesInv'
<1> DEFINE f == fleet[at.from]
           t == fleet[at.to]
           c == [from |-> f, to |-> t, best |-> best]
<1>1. /\ pc = "swap" /\ pc' = "pair"
      /\ best' = IF IsRefused(f, t) THEN best ELSE AllReduced(c, f.orders).best
      /\ copies' = [from |-> NoVehicle, to |-> NoVehicle]
      /\ UNCHANGED <<problem, trucks, unused, truck, fleet>>
  BY DEF MoveReduceCost
<1>2. pc \in Optimizing /\ at.from \in DOMAIN fleet
  BY <1>1, SwapFacts
<1>3. f.orders \in SUBSET Nat /\ IsFiniteSet(f.orders)
  <2>1. f.orders \subseteq Orders /\ problem \in Problems
    BY <1>2, VehicleOfFleet
  <2>2. QED
    BY <2>1, OrdersAreNumbers, FS_Subset
<1>4. Keeps(c)
  BY DEF Keeps
<1>5. best' \in {best, fleet}
  <2> HIDE DEF f, t, c
  <2>1. AllReduced(c, f.orders).best \in {best, fleet}
    BY <1>3, <1>4, AllReducedKeeps
  <2>2. QED
    BY <1>1, <2>1
<1>6. copies'.from = NoVehicle /\ copies'.to = NoVehicle
  BY <1>1
<1>7. QED
  BY <1>1, <1>5, <1>6, GoodBefore, GoodStays DEF Optimizing

LEMMA EndCycleStaysGood ==
  ASSUME IInv, VehiclesInv, EndCycle
  PROVE  VehiclesInv'
<1> DEFINE f == WithoutEmpty(fleet)
<1>1. /\ pc = "pair" /\ pc' = "cycle" /\ fleet' = Append(Tail(f), Head(f))
      /\ best' = BestAfter(f, best)
      /\ UNCHANGED <<problem, trucks, unused, truck, copies>>
  BY DEF EndCycle
<1>2. Carries(fleet, Orders) /\ problem \in Problems
  BY <1>1 DEF IInv, TypeOK, OptimizingInv, Optimizing
<1>3. Carries(f, Orders) /\ ToSet(f) \subseteq ToSet(fleet)
  BY <1>2, WithoutEmptyCarries, NoneAppears DEF Carries
<1> HIDE DEF f
<1>4. ToSet(fleet') \subseteq ToSet(f)
  <2>1. Len(f) > 0 /\ IsFleet(f)
    BY <1>2, <1>3, FleetIsNotEmpty DEF Carries
  <2>2. QED
    BY <1>1, <2>1, NoneAppears
<1>5. ToSet(best') \subseteq ToSet(f) \cup ToSet(best)
  BY <1>1, BestIsOneOfTwo
<1>6. QED
  BY <1>1, <1>3, <1>4, <1>5, GoodBefore, GoodStays DEF Optimizing

LEMMA FinishStaysGood ==
  ASSUME IInv, VehiclesInv, Finish
  PROVE  VehiclesInv'
<1>1. /\ pc = "cycle" /\ pc' = "done" /\ fleet' \in SortedBySize(best)
      /\ UNCHANGED <<problem, trucks, unused, truck, best, copies>>
  BY DEF Finish
<1>2. IsFleet(best)
  BY <1>1, FleetBefore DEF Optimizing
<1>3. ToSet(fleet') \subseteq ToSet(best)
  BY <1>1, <1>2, NoneAppears
<1>4. QED
  BY <1>1, <1>3, GoodBefore, GoodStays DEF Optimizing

\* An order that leaves a vehicle of the solution.
LEMMA EraseStaysGood ==
  ASSUME IInv, VehiclesInv, ValidOrders, NEW v \in ToSet(fleet), NEW o \in v.orders
  PROVE  IsGood(EraseOrder(v, o))
<1>1. IsGood(v) /\ IsSound(v) /\ problem \in Problems
  BY GoodBefore
<1>2. QED
  BY <1>1, EraseKeepsGood DEF IsGood

\* An order that is given to a vehicle of the solution.
LEMMA PutStaysGood ==
  ASSUME problem \in Problems, ValidOrders, NEW v, IsSound(v), NEW o \in Orders, o \notin v.orders
  PROVE  /\ o \in Put(v, o).orders => IsGood(Put(v, o))
         /\ o \in Insert(v, o).orders => IsGood(Insert(v, o))
<1>1. Put(v, o) = v \/ IsGiven(Put(v, o), v, o)
  BY PutGives
<1>2. Insert(v, o) = v \/ IsGiven(Insert(v, o), v, o)
  BY InsertGives
<1>3. QED
  BY <1>1, <1>2 DEF IsGiven, IsGood, IsSafe

\* decrease_truck moves an order to another vehicle.
LEMMA DecreaseOrderStaysGood ==
  ASSUME IInv, VehiclesInv, DecreaseOrder
  PROVE  VehiclesInv'
<1> DEFINE i == at.from
           o == Min(left)
           takers == {j \in 1..i - 1 : o \in Insert(fleet[j], o).orders}
<1>1. /\ pc = "decrease" /\ pc \in Optimizing /\ left # {}
      /\ i \in DOMAIN fleet /\ left \subseteq fleet[i].orders
  BY DEF DecreaseOrder, IInv, LoopInv, Optimizing
<1>2. /\ UNCHANGED <<problem, pc, trucks, unused, truck, best, copies>>
      /\ IF takers = {} THEN UNCHANGED fleet
         ELSE fleet' = [fleet EXCEPT ![Min(takers)] = Insert(@, o), ![i] = EraseOrder(@, o)]
  <2>1. /\ UNCHANGED <<problem, pc, trucks, unused, truck, best, copies>>
        /\ \E t \in {takers} :
             IF t = {} THEN UNCHANGED fleet
             ELSE fleet' = [fleet EXCEPT ![Min(t)] = Insert(@, o), ![i] = EraseOrder(@, o)]
    BY ZenonT(60) DEF DecreaseOrder
  <2> HIDE DEF takers, o, i
  <2>2. QED
    BY <2>1
<1>3. /\ Orders \in SUBSET Nat /\ Carries(fleet, Orders)
      /\ DOMAIN fleet = 1..Len(fleet) /\ Len(fleet) \in Nat
      /\ fleet[i].orders \subseteq Orders /\ i \in Nat
  <2>1. Carries(fleet, Orders) /\ fleet[i].orders \subseteq Orders /\ problem \in Problems /\ i \in Nat
    BY <1>1, VehicleOfFleet
  <2>2. QED
    BY <2>1, OrdersAreNumbers DEF Carries, IsFleet
<1>4. o \in left /\ o \in fleet[i].orders /\ o \in Orders
  <2>1. left \in SUBSET Nat
    BY <1>1, <1>3
  <2>2. o \in left
    BY <1>1, <2>1, MinOfOrders
  <2>3. QED
    BY <2>2, <1>1, <1>3
<1>5. ValidOrders
  BY <1>1, GoodBefore
<1>6. CASE takers = {}
  <2> HIDE DEF takers
  <2>1. UNCHANGED fleet
    BY <1>2, <1>6
  <2>2. QED
    BY <1>1, <1>2, <2>1, GoodBefore, GoodStays DEF Optimizing
<1>7. CASE takers # {}
  <2> DEFINE j == Min(takers)
             x == EraseOrder(fleet[i], o)
             y == Insert(fleet[j], o)
  <2>1. takers \in SUBSET Nat
    BY <1>3
  <2>2. j \in takers
    BY <1>7, <2>1, MinOfOrders
  <2>3. j \in DOMAIN fleet /\ j # i /\ o \in y.orders
    <3>1. j \in 1..i - 1 /\ o \in y.orders
      BY <2>2
    <3> HIDE DEF j
    <3>2. QED
      BY <3>1, <1>1, <1>3
  <2>4. fleet' = [fleet EXCEPT ![j] = Insert(@, o), ![i] = EraseOrder(@, o)]
    BY <1>2, <1>7
  <2> HIDE DEF j, i, o
  <2>5. fleet' = [fleet EXCEPT ![j] = y, ![i] = x]
    BY <2>3, <2>4, <1>1, <1>3 DEF Carries, IsFleet
  <2> HIDE DEF x, y
  <2>6. ToSet(fleet') \subseteq ToSet(fleet) \cup {x, y}
    <3>1. IsRewritten(fleet', fleet, j, i, y, x)
      BY <2>5 DEF IsRewritten
    <3>2. QED
      BY <3>1, WrittenAreGood
  <2>7. IsGood(x)
    <3>1. fleet[i] \in ToSet(fleet)
      BY <1>1, FleetMembers
    <3>2. QED
      BY <3>1, <1>4, <1>5, EraseStaysGood DEF x
  <2>8. IsGood(y)
    <3>1. fleet[j] \in ToSet(fleet)
      BY <2>3, FleetMembers
    <3>2. IsSound(fleet[j]) /\ problem \in Problems
      BY <3>1, GoodBefore
    <3>3. o \notin fleet[j].orders
      BY <1>1, <1>3, <1>4, <2>3 DEF Carries, IsApart
    <3>4. QED
      BY <3>2, <3>3, <1>4, <1>5, <2>3, PutStaysGood DEF y
  <2>9. \A z \in ToSet(fleet') \cup ToSet(best') : IsGood(z)
    BY <1>2, <2>6, <2>7, <2>8, GoodBefore
  <2>10. \A z \in {truck', copies'.from, copies'.to} : z = NoVehicle \/ IsSound(z)
    BY <1>2, GoodBefore
  <2>11. QED
    BY <1>1, <1>2, <2>9, <2>10, GoodStays DEF Optimizing
<1>8. QED
  BY <1>6, <1>7

\* move_order.
LEMMA MoveOrderStaysGood ==
  ASSUME IInv, VehiclesInv, MoveOrder
  PROVE  VehiclesInv'
<1> DEFINE o == Min(left)
           i == at.from
           j == at.to
           x == EraseOrder(copies.from, o)
           y == Put(copies.to, o)
<1>1. /\ pc = "swap" /\ left # {} /\ pc' \in Optimizing
      /\ UNCHANGED <<problem, trucks, unused, truck, best>>
      /\ \/ /\ o \in y.orders
            /\ fleet' = [fleet EXCEPT ![i] = x, ![j] = y]
            /\ copies' = [from |-> x, to |-> y]
         \/ UNCHANGED <<fleet, copies>>
  BY DEF MoveOrder, WriteBack, Optimizing
<1>2. /\ pc \in Optimizing /\ Orders \in SUBSET Nat
      /\ i \in DOMAIN fleet /\ j \in DOMAIN fleet
      /\ copies.from = fleet[i] /\ copies.to = fleet[j]
      /\ fleet[i].orders \cap fleet[j].orders = {}
      /\ left \subseteq fleet[i].orders /\ left \in SUBSET Nat
  BY <1>1, SwapFacts
<1>3. o \in fleet[i].orders /\ o \notin fleet[j].orders /\ o \in Orders
  <2>1. o \in left
    BY <1>1, <1>2, MinOfOrders
  <2>2. fleet[i].orders \subseteq Orders
    BY <1>2, VehicleOfFleet
  <2>3. QED
    BY <2>1, <2>2, <1>2
<1>4. ValidOrders /\ problem \in Problems
  BY <1>1, GoodBefore
<1>5. CASE UNCHANGED <<fleet, copies>>
  BY <1>1, <1>5, GoodBefore, GoodStays
<1>6. CASE /\ o \in y.orders
           /\ fleet' = [fleet EXCEPT ![i] = x, ![j] = y]
           /\ copies' = [from |-> x, to |-> y]
  <2>1. fleet[i] \in ToSet(fleet) /\ fleet[j] \in ToSet(fleet)
    BY <1>2, FleetMembers
  <2>2. IsGood(x)
    BY <1>2, <1>3, <1>4, <2>1, EraseStaysGood
  <2>3. IsGood(y)
    BY <1>2, <1>3, <1>4, <1>6, <2>1, GoodBefore, PutStaysGood
  <2> HIDE DEF x, y, o, i, j
  <2>4. ToSet(fleet') \subseteq ToSet(fleet) \cup {x, y}
    <3>1. IsRewritten(fleet', fleet, i, j, x, y)
      BY <1>6 DEF IsRewritten
    <3>2. QED
      BY <3>1, WrittenAreGood
  <2>5. copies'.from = x /\ copies'.to = y
    BY <1>6
  <2>6. \A z \in ToSet(fleet') \cup ToSet(best') : IsGood(z)
    BY <1>1, <2>2, <2>3, <2>4, GoodBefore
  <2>7. \A z \in {truck', copies'.from, copies'.to} : z = NoVehicle \/ IsSound(z)
    BY <1>1, <2>2, <2>3, <2>5, GoodBefore DEF IsGood
  <2>8. QED
    BY <1>1, <2>6, <2>7, GoodStays
<1>7. QED
  BY <1>1, <1>5, <1>6

\* Two orders change vehicles. Each is put into what is left of the other vehicle.
LEMMA ExchangeOrdersStaysGood ==
  ASSUME IInv, VehiclesInv, ExchangeOrders
  PROVE  VehiclesInv'
<1> DEFINE o == Min(left)
           p == Min(others)
           i == at.from
           j == at.to
           e == EraseOrder(copies.from, o)
           h == EraseOrder(copies.to, p)
           x == Put(e, p)
           y == Put(h, o)
<1>1. /\ pc = "exchange" /\ pc' \in Optimizing
      /\ UNCHANGED <<problem, trucks, unused, truck, best>>
      /\ \/ UNCHANGED <<fleet, copies>>
         \/ /\ p \in copies.to.orders /\ o \in y.orders /\ p \in x.orders
            /\ fleet' = [fleet EXCEPT ![i] = x, ![j] = y]
            /\ copies' = [from |-> x, to |-> y]
         \/ /\ copies' = [from |-> fleet[i], to |-> fleet[j]]
            /\ UNCHANGED fleet
  BY DEF ExchangeOrders, WriteBack, IsWanted, Optimizing
<1>2. /\ pc \in Optimizing /\ Orders \in SUBSET Nat
      /\ i \in DOMAIN fleet /\ j \in DOMAIN fleet
      /\ copies.from = fleet[i] /\ copies.to = fleet[j]
      /\ fleet[i].orders \cap fleet[j].orders = {}
      /\ left \subseteq fleet[i].orders /\ left \in SUBSET Nat
  BY <1>1, SwapFacts
<1>3. left # {}
  BY <1>1 DEF IInv, LoopInv
<1>4. o \in fleet[i].orders /\ o \notin fleet[j].orders /\ o \in Orders
  <2>1. o \in left
    BY <1>2, <1>3, MinOfOrders
  <2>2. fleet[i].orders \subseteq Orders
    BY <1>2, VehicleOfFleet
  <2>3. QED
    BY <2>1, <2>2, <1>2
<1>5. ValidOrders /\ problem \in Problems
  BY <1>1, GoodBefore
<1>6. fleet[i] \in ToSet(fleet) /\ fleet[j] \in ToSet(fleet)
  BY <1>2, FleetMembers
<1>7. CASE UNCHANGED <<fleet, copies>>
  BY <1>1, <1>7, GoodBefore, GoodStays
<1>8. CASE copies' = [from |-> fleet[i], to |-> fleet[j]] /\ UNCHANGED fleet
  <2>1. copies'.from = fleet[i] /\ copies'.to = fleet[j]
    BY <1>8
  <2>2. QED
    BY <1>1, <1>6, <1>8, <2>1, GoodBefore, GoodStays
<1>9. CASE /\ p \in copies.to.orders /\ o \in y.orders /\ p \in x.orders
           /\ fleet' = [fleet EXCEPT ![i] = x, ![j] = y]
           /\ copies' = [from |-> x, to |-> y]
  <2>1. p \in fleet[j].orders /\ p \notin fleet[i].orders /\ p \in Orders
    <3>1. fleet[j].orders \subseteq Orders
      BY <1>2, VehicleOfFleet
    <3>2. QED
      BY <3>1, <1>2, <1>9
  <2>2. IsSound(e) /\ e.orders = fleet[i].orders \ {o}
    <3>1. IsSound(fleet[i]) /\ HasParts(fleet[i])
      BY <1>6, GoodBefore DEF IsSound
    <3>2. QED
      BY <3>1, <1>2, <1>4, <1>5, ErasedParts, EraseKeepsGood
  <2>3. IsSound(h) /\ h.orders = fleet[j].orders \ {p}
    <3>1. IsSound(fleet[j]) /\ HasParts(fleet[j])
      BY <1>6, GoodBefore DEF IsSound
    <3>2. QED
      BY <3>1, <1>2, <2>1, <1>5, ErasedParts, EraseKeepsGood
  <2> HIDE DEF e, h, o, p, i, j
  <2>4. IsGood(x)
    <3>1. p \notin e.orders
      BY <2>1, <2>2
    <3>2. QED
      BY <3>1, <1>5, <1>9, <2>1, <2>2, PutStaysGood
  <2>5. IsGood(y)
    <3>1. o \notin h.orders
      BY <1>4, <2>3
    <3>2. QED
      BY <3>1, <1>4, <1>5, <1>9, <2>3, PutStaysGood
  <2> HIDE DEF x, y
  <2>6. ToSet(fleet') \subseteq ToSet(fleet) \cup {x, y}
    <3>1. IsRewritten(fleet', fleet, i, j, x, y)
      BY <1>9 DEF IsRewritten
    <3>2. QED
      BY <3>1, WrittenAreGood
  <2>7. copies'.from = x /\ copies'.to = y
    BY <1>9
  <2>8. \A z \in ToSet(fleet') \cup ToSet(best') : IsGood(z)
    BY <1>1, <2>4, <2>5, <2>6, GoodBefore
  <2>9. \A z \in {truck', copies'.from, copies'.to} : z = NoVehicle \/ IsSound(z)
    BY <1>1, <2>4, <2>5, <2>7, GoodBefore DEF IsGood
  <2>10. QED
    BY <1>1, <2>8, <2>9, GoodStays
<1>10. QED
  BY <1>1, <1>7, <1>8, <1>9
\* An accepted call: every order is a valid one, and every vehicle of the fleet is ready.
LEMMA ConstructStaysGood ==
  ASSUME IInv, VehiclesInv, Construct
  PROVE  VehiclesInv'
<1>1. /\ pc = "start" /\ UNCHANGED <<problem, truck, fleet, best, copies>>
      /\ \/ /\ \A i \in DOMAIN Vehicles : IsLegal(Vehicles[i])
            /\ \A o \in Orders : IsOrderOk(o, Trucks)
            /\ pc' = "assign" /\ trucks' = Trucks /\ unused' = DOMAIN Trucks
         \/ pc' = "error"
  BY DEF Construct
<1>2. problem \in Problems
  BY GoodBefore
<1>3. HeldInv'
  <2>1. \A x \in ToSet(fleet') \cup ToSet(best') : IsGood(x)'
    BY <1>1, GoodBefore, SameProblem
  <2>2. \A x \in {truck', copies'.from, copies'.to} : x = NoVehicle' \/ IsSound(x)'
    BY <1>1, GoodBefore, SameProblem DEF NoVehicle
  <2>3. QED
    BY <1>1, <2>1, <2>2 DEF HeldInv
<1>4. FilledInv' /\ NoOrderIsStranded'
  BY <1>1 DEF FilledInv, NoOrderIsStranded
<1>5. CASE pc' = "error"
  BY <1>3, <1>4, <1>5 DEF TrucksInv, VehiclesInv
<1>6. CASE /\ \A i \in DOMAIN Vehicles : IsLegal(Vehicles[i])
           /\ \A o \in Orders : IsOrderOk(o, Trucks)
           /\ pc' = "assign" /\ trucks' = Trucks /\ unused' = DOMAIN Trucks
  <2>1. ValidOrders
    BY <1>6 DEF ValidOrders, IsOrderOk, IsValidOrder
  <2>2. ASSUME NEW x \in ToSet(Trucks) PROVE IsReady(x)
    <3>1. Trucks \in Seq(FreshOnes)
      BY <1>2, TrucksAreFresh
    <3>2. x \in FreshOnes
      BY <3>1 DEF ToSet
    <3>3. PICK i \in DOMAIN Vehicles : x = Fresh(Vehicles[i]) /\ Vehicles[i].count > 0
      BY <3>2 DEF FreshOnes, Made
    <3> DEFINE w == Vehicles[i]
    <3>4. IsRow(w) /\ IsFeasable(NewVehicle(w.id, w.capacity, w.pace, w.start, w.end).path)
      BY <1>2, <1>6, <3>3, VehiclesAreRows DEF IsLegal
    <3> HIDE DEF w
    <3>5. IsReady(Fresh(w))
      BY <1>2, <3>4, FreshIsReady
    <3>6. QED
      BY <3>3, <3>5 DEF w
  <2>3. DOMAIN Trucks # {}
    <3>1. PICK o \in Orders : TRUE
      BY <1>2, OrdersAreNumbers
    <3>2. QED
      BY <1>6, <3>1 DEF IsOrderOk
  <2>4. ValidOrders' /\ \A x \in ToSet(trucks') : IsReady(x)'
    BY <1>1, <1>6, <2>1, <2>2, SameProblem
  <2>5. TrucksInv'
    BY <1>6, <2>3, <2>4 DEF TrucksInv
  <2>6. QED
    BY <1>3, <1>4, <2>5 DEF VehiclesInv
<1>7. QED
  BY <1>1, <1>5, <1>6

\* The vehicle that is taken has room for the first of the orders; the fleet never runs out
\* of vehicles (fleet.cpp:90).
LEMMA TakeTruckStaysGood ==
  ASSUME IInv, VehiclesInv, TakeTruck
  PROVE  VehiclesInv'
<1> DEFINE o == Min(unassigned)
           able == {i \in unused : o \in trucks[i].feasable}
           i == Min(able)
<1>1. /\ pc = "assign" /\ unassigned # {}
      /\ UNCHANGED <<problem, trucks, unassigned, fleet, best, copies>>
      /\ IF able = {}
         THEN pc' = "failed" /\ UNCHANGED <<unused, truck, left>>
         ELSE /\ pc' = "fill" /\ unused' = UnusedAfter(i) /\ truck' = trucks[i]
              /\ left' = trucks[i].feasable \cap unassigned
  BY DEF TakeTruck
<1>2. /\ ValidOrders /\ (\A x \in ToSet(trucks) : IsReady(x)) /\ unused # {}
      /\ problem \in Problems /\ unused \subseteq DOMAIN trucks
      /\ trucks \in Seq(ToSet(trucks)) /\ unassigned \subseteq Orders
  BY <1>1 DEF VehiclesInv, TrucksInv, IInv, TypeOK, FillingInv, Filling
<1>3. ValidOrders' /\ \A x \in ToSet(trucks') : IsReady(x)'
  BY <1>1, <1>2, SameProblem
<1>4. o \in unassigned
  BY <1>1, <1>2, OrdersAreNumbers, MinOfOrders
<1>5. \A x \in ToSet(fleet') \cup ToSet(best') : IsGood(x)'
  BY <1>1, GoodBefore, SameProblem
<1>6. CASE able = {}
  <2> HIDE DEF i, o
  <2>1. pc' = "failed" /\ UNCHANGED <<unused, truck>>
    BY <1>1, <1>6
  <2>2. \A x \in {truck', copies'.from, copies'.to} : x = NoVehicle' \/ IsSound(x)'
    BY <1>1, <2>1, GoodBefore, SameProblem DEF NoVehicle
  <2>3. HeldInv'
    BY <1>5, <2>1, <2>2 DEF HeldInv
  <2>4. NoOrderIsStranded'
    BY <1>1, <1>2, <1>4, <1>6, <2>1 DEF NoOrderIsStranded
  <2>5. TrucksInv' /\ FilledInv'
    BY <1>2, <1>3, <2>1 DEF TrucksInv, FilledInv
  <2>6. QED
    BY <2>3, <2>4, <2>5 DEF VehiclesInv
<1>7. CASE able # {}
  <2>1. able \in SUBSET Nat
    BY <1>2
  <2> HIDE DEF o
  <2>2. i \in able
    BY <1>7, <2>1, MinOfOrders
  <2>3. i \in DOMAIN trucks /\ o \in trucks[i].feasable
    BY <1>2, <2>2
  <2>4. /\ pc' = "fill" /\ unused' = UnusedAfter(i) /\ truck' = trucks[i]
        /\ left' = trucks[i].feasable \cap unassigned
    BY <1>1, <1>7
  <2> HIDE DEF i, able
  <2>5. PICK x : x = trucks[i]
    OBVIOUS
  <2>6. IsReady(x) /\ IsSound(x) /\ IsFeasable(x.path)
    <3>1. x \in ToSet(trucks)
      BY <2>3, <2>5, FleetMembers
    <3>2. QED
      BY <1>2, <3>1 DEF IsReady
  <2>7. unused' # {}
    <3>1. CASE Cardinality(unused) > 1
      <4>1. unused' = unused \ {i}
        BY <2>4, <3>1 DEF UnusedAfter
      <4>2. ASSUME unused \ {i} = {} PROVE FALSE
        <5>1. unused = {i}
          BY <1>2, <4>2
        <5>2. Cardinality(unused) = 1
          BY <5>1, FS_Singleton
        <5>3. QED
          BY <3>1, <5>2
      <4>3. QED
        BY <4>1, <4>2
    <3>2. CASE ~ Cardinality(unused) > 1
      BY <1>2, <2>4, <3>2 DEF UnusedAfter
    <3>3. QED
      BY <3>1, <3>2
  <2>8. truck' = x /\ left' = x.feasable \cap unassigned /\ o \in left'
    BY <1>4, <2>3, <2>4, <2>5
  <2>9. IsSound(x)' /\ IsReady(x)'
    BY <1>1, <2>6, SameProblem
  <2>10. \A z \in {truck', copies'.from, copies'.to} : z = NoVehicle' \/ IsSound(z)'
    BY <1>1, <2>6, <2>8, GoodBefore, SameProblem DEF NoVehicle
  <2>11. HeldInv'
    BY <1>5, <2>6, <2>8, <2>9, <2>10 DEF HeldInv
  <2>12. FilledInv'
    BY <2>8, <2>9 DEF FilledInv
  <2>13. TrucksInv' /\ NoOrderIsStranded'
    BY <1>3, <2>4, <2>7 DEF TrucksInv, NoOrderIsStranded
  <2>14. QED
    BY <2>11, <2>12, <2>13 DEF VehiclesInv
<1>8. QED
  BY <1>6, <1>7

\* An order is put into the vehicle, or taken out of it again: what is tried first in an empty
\* vehicle stays there, where no short cut goes through a third site.
LEMMA PlaceOrderStaysGood ==
  ASSUME IInv, VehiclesInv, PlaceOrder
  PROVE  VehiclesInv'
<1>0. /\ Orders \in SUBSET Nat /\ IsFiniteSet(Orders) /\ pc = "fill" /\ left # {}
      /\ left \subseteq unassigned /\ unassigned \subseteq Orders /\ problem \in Problems
      /\ fleet \in Seq(ToSet(fleet)) /\ Carries(Append(fleet, truck), Orders \ unassigned)
  BY OrdersAreNumbers DEF IInv, TypeOK, FillingInv, Filling, PlaceOrder
<1>1. PICK o : o = NextOrder
  OBVIOUS
<1>2. PICK v : v = Filled(o)
  OBVIOUS
<1>3. PICK w : w = EraseOrder(v, o)
  OBVIOUS
<1>4. /\ UNCHANGED <<problem, trucks, unused, fleet, best, copies>>
      /\ IF ~ IsFeasable(v.path)
         THEN /\ pc' = IF Cardinality(v.orders) = 1 THEN "failed" ELSE pc
              /\ truck' = w /\ left' = left \ {o}
         ELSE IF o \in v.orders
         THEN /\ truck' = v /\ left' = LeftAfter(o) /\ UNCHANGED pc
         ELSE left' = left \ {o} /\ UNCHANGED <<pc, truck>>
  BY <1>1, <1>2, <1>3 DEF PlaceOrder
<1>5. o \in left /\ o \in Orders
  <2>1. left \in SUBSET Nat /\ IsFiniteSet(left)
    BY <1>0, FS_Subset
  <2>2. QED
    BY <1>0, <1>1, <2>1, NextOrderIsLeft
<1>6. o \notin truck.orders /\ truck.orders \subseteq Orders
  <2>1. truck.orders \subseteq Orders \ unassigned
    BY <1>0, LastReplaced
  <2>2. QED
    BY <1>0, <1>5, <2>1
<1>7. /\ ValidOrders /\ (\A x \in ToSet(trucks) : IsReady(x)) /\ unused # {}
      /\ IsSound(truck) /\ IsFeasable(truck.path) /\ left \subseteq truck.feasable
      /\ IsMetric /\ truck.orders = {} => IsReady(truck)
  BY <1>0 DEF VehiclesInv, TrucksInv, HeldInv, FilledInv
<1>8. /\ IsFeasable(v.path) => v = truck \/ IsGiven(v, truck, o)
      /\ ~ IsFeasable(v.path) =>
           /\ IsSound(w) /\ w.path = truck.path /\ w.orders = truck.orders
           /\ w.feasable = truck.feasable /\ v.orders = truck.orders \cup {o}
  BY <1>0, <1>2, <1>3, <1>5, <1>6, <1>7, FilledGives
<1>9. IsMetric /\ truck.orders = {} => IsFeasable(v.path) /\ o \in v.orders
  <2>1. o \in truck.feasable
    BY <1>5, <1>7
  <2>2. QED
    BY <1>0, <1>2, <1>7, <2>1, EmptyTakes
<1>10. ValidOrders' /\ \A x \in ToSet(trucks') : IsReady(x)'
  BY <1>4, <1>7, SameProblem
<1>11. pc' \in {"fill", "failed"} /\ unused' # {}
  BY <1>0, <1>4, <1>7
<1>12. TrucksInv'
  BY <1>10, <1>11 DEF TrucksInv
<1>13. /\ IsSound(truck') /\ IsFeasable(truck'.path) /\ left' \subseteq truck'.feasable
       /\ IsMetric => truck'.orders # {}
  <2>1. CASE ~ IsFeasable(v.path)
    BY <1>4, <1>7, <1>8, <1>9, <2>1
  <2>2. CASE IsFeasable(v.path) /\ o \in v.orders
    <3>1. IsGiven(v, truck, o)
      BY <1>6, <1>8, <2>2
    <3>2. truck' = v /\ left' \subseteq left
      BY <1>4, <1>5, <2>2, LeftAfterIsLeft
    <3>3. QED
      BY <1>7, <2>2, <3>1, <3>2 DEF IsGiven
  <2>3. CASE IsFeasable(v.path) /\ o \notin v.orders
    BY <1>4, <1>7, <1>9, <2>3
  <2>4. QED
    BY <2>1, <2>2, <2>3
<1>14. IsSound(truck)' /\ (IsMetric' <=> IsMetric)
  <2>1. PICK t : t = truck'
    OBVIOUS
  <2>2. IsSound(t)'
    BY <1>4, <1>13, <2>1, SameProblem
  <2>3. IsSound(truck)'
    BY <2>1, <2>2 DEF IsSound, HasParts, Serves, IsEquipped
  <2>4. QED
    BY <1>4, <2>3, SameProblem
<1>15. HeldInv'
  <2>1. \A x \in ToSet(fleet') \cup ToSet(best') : IsGood(x)'
    BY <1>4, GoodBefore, SameProblem
  <2>2. \A x \in {copies'.from, copies'.to} : x = NoVehicle' \/ IsSound(x)'
    BY <1>4, GoodBefore, SameProblem DEF NoVehicle
  <2>3. QED
    BY <1>13, <1>14, <2>1, <2>2 DEF HeldInv
<1>16. FilledInv'
  BY <1>13, <1>14 DEF FilledInv
<1>17. NoOrderIsStranded'
  <2>1. ASSUME pc' = "failed", IsMetric PROVE FALSE
    <3>1. ~ IsFeasable(v.path) /\ Cardinality(v.orders) = 1
      BY <1>0, <1>4, <2>1
    <3>2. truck.orders # {} /\ v.orders = truck.orders \cup {o}
      BY <1>8, <1>9, <2>1, <3>1
    <3>3. IsFiniteSet(truck.orders)
      BY <1>0, <1>6, FS_Subset
    <3>4. Cardinality(truck.orders) \in Nat /\ Cardinality(truck.orders) # 0
      BY <3>2, <3>3, FS_CardinalityType, FS_EmptySet
    <3>5. Cardinality(v.orders) = Cardinality(truck.orders) + 1
      BY <1>6, <3>2, <3>3, FS_AddElement
    <3>6. QED
      BY <3>1, <3>4, <3>5
  <2>2. QED
    BY <1>14, <2>1 DEF NoOrderIsStranded
<1>18. QED
  BY <1>12, <1>15, <1>16, <1>17 DEF VehiclesInv

\* The vehicle that was filled joins the solution; it is never an empty one
\* (initial_solution.cpp:90), where no short cut goes through a third site.
LEMMA ParkTruckStaysGood ==
  ASSUME IInv, VehiclesInv, ParkTruck
  PROVE  VehiclesInv'
<1>1. /\ pc = "fill" /\ left = {} /\ truck' = NoVehicle
      /\ UNCHANGED <<problem, trucks, unused, best, copies>>
      /\ IF truck.orders = {} THEN pc' = "failed" /\ UNCHANGED fleet
                              ELSE pc' = "assign" /\ fleet' = Append(fleet, truck)
  BY DEF ParkTruck
<1>2. /\ ValidOrders /\ (\A x \in ToSet(trucks) : IsReady(x)) /\ unused # {}
      /\ IsSound(truck) /\ IsFeasable(truck.path) /\ (IsMetric => truck.orders # {})
  BY <1>1 DEF VehiclesInv, TrucksInv, HeldInv, FilledInv
<1>3. fleet \in Seq(ToSet(fleet))
  BY <1>1 DEF IInv, FillingInv, Filling
<1>4. \A x \in {truck', copies'.from, copies'.to} : x = NoVehicle \/ IsSound(x)
  BY <1>1, GoodBefore
<1>5. CASE truck.orders = {}
  <2>1. pc' = "failed" /\ fleet' = fleet /\ ~ IsMetric
    BY <1>1, <1>2, <1>5
  <2>2. \A x \in ToSet(fleet') \cup ToSet(best') : IsGood(x)'
    BY <1>1, <2>1, GoodBefore, SameProblem
  <2>3. \A x \in {truck', copies'.from, copies'.to} : x = NoVehicle' \/ IsSound(x)'
    BY <1>1, <1>4, SameProblem DEF NoVehicle
  <2>4. HeldInv'
    BY <2>1, <2>2, <2>3 DEF HeldInv
  <2>5. ValidOrders' /\ \A x \in ToSet(trucks') : IsReady(x)'
    BY <1>1, <1>2, SameProblem
  <2>6. TrucksInv'
    BY <1>1, <1>2, <2>1, <2>5 DEF TrucksInv
  <2>7. FilledInv' /\ NoOrderIsStranded'
    BY <1>1, <2>1, SameProblem DEF FilledInv, NoOrderIsStranded
  <2>8. QED
    BY <2>4, <2>6, <2>7 DEF VehiclesInv
<1>6. CASE truck.orders # {}
  <2>1. pc' = "assign" /\ fleet' = Append(fleet, truck)
    BY <1>1, <1>6
  <2>2. ToSet(fleet') \subseteq ToSet(fleet) \cup {truck}
    <3> DEFINE X == ToSet(fleet) \cup {truck}
               g == Append(fleet, truck)
    <3>1. fleet \in Seq(X) /\ truck \in X
      BY <1>3
    <3> HIDE DEF X
    <3>2. g \in Seq(X)
      BY <3>1
    <3> HIDE DEF g
    <3>3. ToSet(g) \subseteq X
      BY <3>2 DEF ToSet
    <3>4. QED
      BY <2>1, <3>3 DEF X, g
  <2>3. IsGood(truck)
    BY <1>2 DEF IsGood, IsSafe
  <2>4. \A x \in ToSet(fleet') \cup ToSet(best') : IsGood(x)
    BY <1>1, <2>2, <2>3, GoodBefore
  <2>5. QED
    BY <1>1, <1>4, <2>1, <2>4, GoodStays
<1>7. QED
  BY <1>5, <1>6

\* A call that has ended, and a step of somebody else, change nothing.
LEMMA IdleStaysGood ==
  ASSUME IInv, VehiclesInv, UNCHANGED vars
  PROVE  VehiclesInv'
<1>1. UNCHANGED <<problem, pc, trucks, unused, unassigned, truck, left, fleet, best, copies>>
  BY DEF vars
<1>2. /\ ValidOrders' <=> ValidOrders
      /\ IsMetric' <=> IsMetric
      /\ \A x : IsSound(x)' <=> IsSound(x)
      /\ \A x : IsGood(x)' <=> IsGood(x)
      /\ \A x : IsReady(x)' <=> IsReady(x)
  BY <1>1, SameProblem
<1>3. TrucksInv'
  BY <1>1, <1>2 DEF VehiclesInv, TrucksInv
<1>4. HeldInv'
  <2>1. \A x \in ToSet(fleet') \cup ToSet(best') : IsGood(x)'
    BY <1>1, <1>2, GoodBefore
  <2>2. \A x \in {truck', copies'.from, copies'.to} : x = NoVehicle' \/ IsSound(x)'
    BY <1>1, <1>2, GoodBefore DEF NoVehicle
  <2>3. PICK t : t = truck
    OBVIOUS
  <2>4. pc' = "fill" => IsSound(t)' /\ IsFeasable(truck'.path)
    BY <1>1, <1>2, <2>3 DEF VehiclesInv, HeldInv
  <2>5. pc' = "fill" => IsSound(truck)' /\ IsFeasable(truck'.path)
    BY <1>1, <2>3, <2>4 DEF IsSound, HasParts, Serves, IsEquipped
  <2>6. QED
    BY <2>1, <2>2, <2>5 DEF HeldInv
<1>5. FilledInv'
  <2>1. PICK t : t = truck
    OBVIOUS
  <2>2. IsReady(t) <=> IsReady(t)'
    BY <1>2
  <2>3. IsReady(truck)' <=> IsReady(t)'
    BY <1>1, <2>1 DEF IsReady, IsSound, HasParts, Serves, IsEquipped
  <2>4. QED
    BY <1>1, <1>2, <2>1, <2>2, <2>3 DEF VehiclesInv, FilledInv
<1>6. NoOrderIsStranded'
  BY <1>1, <1>2 DEF VehiclesInv, NoOrderIsStranded
<1>7. QED
  BY <1>3, <1>4, <1>5, <1>6 DEF VehiclesInv

\* Before the request is checked the solver holds no vehicle.
LEMMA InitialVehicles ==
  ASSUME Init
  PROVE  VehiclesInv
<1>1. /\ pc = "start" /\ fleet = <<>> /\ best = <<>> /\ truck = NoVehicle
      /\ copies.from = NoVehicle /\ copies.to = NoVehicle
  BY DEF Init
<1>2. ToSet(<<>>) = {}
  BY DEF ToSet
<1>3. HeldInv
  BY <1>1, <1>2 DEF HeldInv
<1>4. TrucksInv /\ FilledInv /\ NoOrderIsStranded
  BY <1>1 DEF TrucksInv, FilledInv, NoOrderIsStranded
<1>5. QED
  BY <1>3, <1>4 DEF VehiclesInv

\* One step of the solver.
LEMMA VehiclesStep ==
  ASSUME IInv, VehiclesInv, [Next]_vars
  PROVE  VehiclesInv'
<1>1. CASE UNCHANGED vars \/ Done
  BY <1>1, IdleStaysGood DEF Done
<1>2. CASE Construct \/ TakeTruck \/ PlaceOrder \/ ParkTruck
  BY <1>2, ConstructStaysGood, TakeTruckStaysGood, PlaceOrderStaysGood, ParkTruckStaysGood
<1>3. CASE Optimize \/ DecreaseOrder \/ DecreaseTruck \/ Decreased
  BY <1>3, OptimizeStaysGood, DecreaseOrderStaysGood, DecreaseTruckStaysGood, DecreasedStaysGood
<1>4. CASE InterSwap \/ NextPair \/ SwapWorse \/ KeepOrder
  BY <1>4, InterSwapStaysGood, PairsStayGood
<1>5. CASE MoveOrder \/ ExchangeOrders
  BY <1>5, MoveOrderStaysGood, ExchangeOrdersStaysGood
<1>6. CASE MoveReduceCost \/ EndCycle \/ Finish
  BY <1>6, MoveReduceCostStaysGood, EndCycleStaysGood, FinishStaysGood
<1>7. QED
  BY <1>1, <1>2, <1>3, <1>4, <1>5, <1>6 DEF Next, Step

\* Whatever is inserted, erased, copied and rolled back (vehicle_pickDeliver.cpp, optimize.cpp),
\* the vehicles are sound, and those that are filled are ready to be.
THEOREM VehiclesInvariant == Spec => []VehiclesInv
<1>1. Init => VehiclesInv
  BY InitialVehicles
<1>2. IInv /\ VehiclesInv /\ [Next]_vars => VehiclesInv'
  BY VehiclesStep
<1>3. QED
  BY <1>1, <1>2, PickDeliverInvariant, PTL DEF Spec

\* The orders of a vehicle, its stops and the values cached at the stops agree (m_orders_in_vehicle
\* and m_path, vehicle_pickDeliver.hpp:52, and evaluate, vehicle.cpp:261).
THEOREM VehiclesAreConsistentTheorem == Spec => []VehiclesAreConsistent
<1>1. IInv /\ VehiclesInv => VehiclesAreConsistent
  <2> SUFFICES ASSUME IInv, VehiclesInv, NEW v \in Held
               PROVE  v.path = Evaluate(v.path, 1, v) /\ ServesItsOrders(v)
    BY DEF VehiclesAreConsistent
  <2>1. IsSound(v)
    BY GoodBefore DEF Held, IsGood
  <2>2. QED
    BY <2>1, SoundIsConsistent
<1>2. QED
  BY <1>1, PickDeliverInvariant, VehiclesInvariant, PTL

\* No window and no capacity is violated by a vehicle of a solution, where no short cut goes
\* through a third site (optimize.cpp:412 and 472 erase an order and do not look at the rest).
THEOREM SolutionsAreFeasibleTheorem == Spec => []SolutionsAreFeasible
<1>1. VehiclesInv => SolutionsAreFeasible
  BY DEF VehiclesInv, HeldInv, IsGood, IsSafe, SolutionsAreFeasible
<1>2. QED
  BY <1>1, VehiclesInvariant, PTL

\* The assertions of fleet.cpp:98 and initial_solution.cpp:90 fail for an order that none of the
\* vehicles left over can serve, and for no other reason.
THEOREM NoOrderIsStrandedTheorem == Spec => []NoOrderIsStranded
<1>1. VehiclesInv => NoOrderIsStranded
  BY DEF VehiclesInv
<1>2. QED
  BY <1>1, VehiclesInvariant, PTL
=============================================================================
