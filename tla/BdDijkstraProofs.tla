-------------------------- MODULE BdDijkstraProofs --------------------------
(***************************************************************************)
(* Proofs about BdDijkstra, for every graph, every sequence of queries and *)
(* every value of INF.                                                     *)
(*                                                                         *)
(* The inductive invariant is about one side at a time (SideInv), so that  *)
(* it is proved once and used twice, with the arcs turned around for the   *)
(* backward side: the labels are never below any potential, the arcs that  *)
(* leave finished vertices are relaxed, and no finished vertex is dearer   *)
(* than an entry that is still queued.                                     *)
(*                                                                         *)
(* That two connected vertices get an answer takes three more parts: the   *)
(* way back (the vertices can be ranked so that each predecessor has a     *)
(* lower rank, whatever the costs are, so that the root is reached), the   *)
(* rows (every step of the way is found again in the edge list, so that    *)
(* the path is not empty), and the meeting (no queue runs empty and no     *)
(* test ends the loop before a meeting was recorded).                      *)
(*                                                                         *)
(* That the search implements PathQuery follows from the way back too:     *)
(* where names are unique, each step of the way is one row, so that the    *)
(* rows lead from the source to the target, and what they cost together    *)
(* is compared with the distance through its potentials.                   *)
(***************************************************************************)
EXTENDS BdDijkstra, RoadGraphProofs

Labelled(side, arcs, root) ==
  /\ side.cost[root] = 0
  /\ \A v \in side.finished : side.cost[v] < INF
  \* the entry an unfinished vertex will be settled by is in the queue
  /\ \A v \in Vertex \ side.finished :
       side.cost[v] < INF => <<side.cost[v], v>> \in side.queue
  \* and every other entry of the vertex is a stale, dearer one
  /\ \A q \in side.queue : side.cost[q[2]] <= q[1] /\ q[1] < INF

Settled(side, arcs) ==
  /\ \A a \in arcs : a.from \in side.finished =>
                       side.cost[a.to] <= side.cost[a.from] + a.cost
  /\ \A v \in side.finished, q \in side.queue : side.cost[v] <= q[1]

NotBelowPotentials(side, arcs, root) ==
  \A D \in [Vertex -> 0..INF] :
    Potential(arcs, root, D) => \A v \in Vertex : D[v] <= side.cost[v]

SideInv(side, arcs, root) ==
  /\ side \in Side
  /\ Labelled(side, arcs, root)
  /\ Settled(side, arcs)
  /\ NotBelowPotentials(side, arcs, root)
  /\ IsTree(side, arcs, root)

----------------------------------------------------------------------------
(***************************************************************************)
(* One side.                                                               *)
(***************************************************************************)
\* initialize establishes the invariant of a side.
LEMMA RootedSide ==
  ASSUME NEW arcs \in SUBSET Arc, NEW root \in Vertex
  PROVE  SideInv(Rooted(root), arcs, root)
<1> DEFINE s == Rooted(root)
<1>1. s \in Side
  BY InfAssumption DEF Rooted, Side
<1>2. Labelled(s, arcs, root)
  BY InfAssumption DEF Rooted, Labelled
<1>3. Settled(s, arcs)
  BY DEF Rooted, Settled
<1>4. NotBelowPotentials(s, arcs, root)
  BY InfAssumption DEF Rooted, NotBelowPotentials, Potential
<1>5. IsTree(s, arcs, root)
  BY InfAssumption DEF Rooted, IsTree
<1>6. QED
  BY <1>1, <1>2, <1>3, <1>4, <1>5 DEF SideInv

\* What Explore does: a vertex keeps its label or gets the cost of an arc that
\* relaxes it, no cheaper arc is left behind, and the queue receives the entry
\* that goes with a new label and no entry of another kind.
Untouched(s, side, v) ==
  s.cost[v] = side.cost[v] /\ s.predecessor[v] = side.predecessor[v]

Improved(s, side, arcs, u, k, v) ==
  /\ v \notin side.finished
  /\ s.cost[v] < side.cost[v]
  /\ s.predecessor[v] = u
  /\ <<s.cost[v], v>> \in s.queue
  /\ \E a \in arcs : a.from = u /\ a.to = v /\ s.cost[v] = k + a.cost

NewEntry(q, side, arcs, u, k) ==
  \E a \in arcs : /\ a.from = u /\ a.to = q[2] /\ a.to \notin side.finished
                  /\ q[1] = k + a.cost /\ q[1] < side.cost[q[2]]

Explored(s, side, arcs, u, k) ==
  /\ s \in Side
  /\ s.finished = side.finished \cup {u}
  /\ \A v \in Vertex : Untouched(s, side, v) \/ Improved(s, side, arcs, u, k, v)
  /\ \A a \in arcs : a.from = u /\ a.to \notin side.finished =>
                       s.cost[a.to] <= k + a.cost
  /\ side.queue \subseteq s.queue
  /\ \A q \in s.queue \ side.queue : NewEntry(q, side, arcs, u, k)

\* What exploring the arcs out of one vertex changes, and what it leaves.
LEMMA ExploreEffect ==
  ASSUME NEW arcs \in SUBSET Arc, NEW side \in Side,
         NEW u \in Vertex, NEW k \in Nat,
         NEW s, s = Explore(side, arcs, u, k, NoEstimate)
  PROVE  Explored(s, side, arcs, u, k)
<1> DEFINE gains == Gains(side, arcs, u, k)
           C(v) == CostsTo(gains, v)
<1>1. /\ gains \subseteq arcs
      /\ \A a \in gains : /\ a.from = u /\ a.to \notin side.finished
                          /\ k + a.cost < side.cost[a.to]
                          /\ a.cost \in Nat /\ a.pos \in Nat /\ a.to \in Vertex
  BY DEF Gains, Arc
<1>2. \A a \in arcs : a.from = u /\ a.to \notin side.finished /\ a \notin gains =>
                        side.cost[a.to] <= k + a.cost
  BY InfAssumption DEF Gains, Arc, Side
<1>3. \A v \in Vertex : C(v) \in SUBSET Nat
  BY <1>1 DEF CostsTo
<1>4. \A v \in Vertex : C(v) # {} => Min(C(v)) \in C(v) /\ \A c \in C(v) : Min(C(v)) <= c
  BY <1>3, MinOfNaturals
<1>5. \A v \in Vertex : C(v) # {} =>
        \E a \in gains : a.to = v /\ a.cost = Min(C(v))
  BY <1>4 DEF CostsTo
<1>6. \A a \in gains : C(a.to) # {} /\ Min(C(a.to)) <= a.cost
  <2> SUFFICES ASSUME NEW a \in gains
               PROVE  C(a.to) # {} /\ Min(C(a.to)) <= a.cost
    OBVIOUS
  <2>1. a.cost \in C(a.to)
    BY DEF CostsTo
  <2>2. QED
    BY <1>1, <1>4, <2>1
<1>7. /\ s.cost = [v \in Vertex |-> IF C(v) # {} THEN k + Min(C(v)) ELSE side.cost[v]]
      /\ s.predecessor = [v \in Vertex |-> IF C(v) # {} THEN u ELSE side.predecessor[v]]
      /\ s.finished = side.finished \cup {u}
      /\ s.queue = side.queue \cup {<<k + a.cost + NoEstimate[a.to], a.to>> : a \in Pushed(gains)}
      /\ s = [cost |-> s.cost, predecessor |-> s.predecessor,
              finished |-> s.finished, queue |-> s.queue]
  BY DEF Explore
<1>8. s.queue = side.queue \cup {<<k + a.cost, a.to>> : a \in Pushed(gains)}
  <2>1. \A a \in Pushed(gains) : k + a.cost + NoEstimate[a.to] = k + a.cost
    BY <1>1 DEF Pushed, NoEstimate
  <2>2. QED
    BY <2>1, <1>7
<1>9. ASSUME NEW v \in Vertex, C(v) # {}
      PROVE  /\ v \notin side.finished
             /\ s.cost[v] < side.cost[v]
             /\ s.cost[v] \in Nat
             /\ s.predecessor[v] = u
             /\ <<s.cost[v], v>> \in s.queue
             /\ \E a \in arcs : a.from = u /\ a.to = v /\ s.cost[v] = k + a.cost
  <2> DEFINE cheapest == {b \in gains : b.to = v /\ b.cost = Min(C(v))}
             places   == {b.pos : b \in cheapest}
  <2>1. cheapest # {} /\ places # {} /\ places \in SUBSET Nat
    BY <1>5, <1>9, <1>1
  <2>2. PICK a \in cheapest : a.pos = Min(places)
    BY <2>1, MinOfNaturals
  <2>3. \A b \in cheapest : a.pos <= b.pos
    BY <2>1, <2>2, MinOfNaturals
  <2>4. a \in Pushed(gains)
    <3> SUFFICES ASSUME NEW b \in gains, b.to = v, b.pos < a.pos
                 PROVE  a.cost < b.cost
      BY <2>2 DEF Pushed
    <3>1. b \notin cheapest
      BY <2>3, <2>2, <1>1
    <3>2. a.cost <= b.cost /\ a.cost # b.cost
      BY <3>1, <1>6, <2>2
    <3>3. QED
      BY <3>2, <1>1, <2>2
  <2>5. s.cost[v] = k + a.cost
    BY <1>7, <1>9, <2>2
  <2>6. <<s.cost[v], v>> \in s.queue
    BY <2>4, <2>5, <2>2, <1>8
  <2>7. QED
    BY <2>2, <2>5, <2>6, <1>1, <1>7, <1>9
<1>10. \A v \in Vertex : C(v) = {} =>
         s.cost[v] = side.cost[v] /\ s.predecessor[v] = side.predecessor[v]
  BY <1>7
<1>11. \A v \in Vertex : side.cost[v] \in 0..INF
  BY DEF Side
<1>12. s \in Side
  <2>1. ASSUME NEW v \in Vertex PROVE s.cost[v] \in 0..INF
    <3>1. CASE C(v) = {}
      BY <3>1, <1>10, <1>11
    <3>2. CASE C(v) # {}
      <4>1. s.cost[v] < side.cost[v] /\ s.cost[v] \in Nat
        BY <3>2, <1>9, Zenon
      <4>2. side.cost[v] \in 0..INF
        BY <1>11
      <4>3. QED
        BY <4>1, <4>2, InfAssumption
    <3>3. QED
      BY <3>1, <3>2
  <2>2. s.queue \in SUBSET (Nat \X Vertex)
    BY <1>8, <1>1 DEF Side, Pushed
  <2>3. s.finished \in SUBSET Vertex
    BY <1>7 DEF Side
  <2>4. s.predecessor \in [Vertex -> Vertex]
    BY <1>7 DEF Side
  <2>5. s.cost \in [Vertex -> 0..INF]
    BY <2>1, <1>7
  <2>6. QED
    BY <2>2, <2>3, <2>4, <2>5, <1>7 DEF Side
<1>13. \A a \in arcs : a.from = u /\ a.to \notin side.finished => s.cost[a.to] <= k + a.cost
  <2> SUFFICES ASSUME NEW a \in arcs, a.from = u, a.to \notin side.finished
               PROVE  s.cost[a.to] <= k + a.cost
    OBVIOUS
  <2>1. a.to \in Vertex /\ a.cost \in Nat
    BY DEF Arc
  <2>2. CASE a \in gains
    <3>1. s.cost[a.to] = k + Min(C(a.to)) /\ Min(C(a.to)) <= a.cost /\ Min(C(a.to)) \in Nat
      BY <1>6, <1>7, <2>1, <2>2, <1>3, <1>4
    <3>2. QED
      BY <3>1, <2>1
  <2>3. CASE a \notin gains
    <3>1. side.cost[a.to] <= k + a.cost
      BY <1>2, <2>3
    <3>2. s.cost[a.to] <= side.cost[a.to]
      <4>1. CASE C(a.to) = {}
        BY <4>1, <1>10, <1>11, <2>1
      <4>2. CASE C(a.to) # {}
        <5>1. s.cost[a.to] < side.cost[a.to] /\ s.cost[a.to] \in Nat
          BY <4>2, <1>9, <2>1, Zenon
        <5>2. side.cost[a.to] \in 0..INF
          BY <1>11, <2>1
        <5>3. QED
          BY <5>1, <5>2, InfAssumption
      <4>3. QED
        BY <4>1, <4>2
    <3>3. QED
      BY <3>1, <3>2, <1>12, <1>11, <2>1, InfAssumption DEF Side
  <2>4. QED
    BY <2>2, <2>3
<1>14. \A q \in s.queue \ side.queue : NewEntry(q, side, arcs, u, k)
  BY <1>8, <1>1 DEF Pushed, NewEntry
<1>15. \A v \in Vertex : Untouched(s, side, v) \/ Improved(s, side, arcs, u, k, v)
  BY <1>9, <1>10 DEF Untouched, Improved
<1>16. QED
  BY <1>7, <1>8, <1>12, <1>13, <1>14, <1>15 DEF Explored

\* Settling an unfinished vertex u, whose entry <<k, u>> was the top.
LEMMA ExploreKeepsSide ==
  ASSUME NEW arcs \in SUBSET Arc, NEW root \in Vertex,
         NEW side \in Side, SideInv(side, arcs, root),
         NEW u \in Vertex, u \notin side.finished,
         NEW k \in Nat, k < INF, side.cost[u] = k,
         \A r \in side.queue : k <= r[1],
         NEW p \in Side, p.cost = side.cost, p.predecessor = side.predecessor,
         p.finished = side.finished, p.queue = side.queue \ {<<k, u>>},
         NEW s, s = Explore(p, arcs, u, k, NoEstimate)
  PROVE  SideInv(s, arcs, root)
<1>1. /\ s \in Side
      /\ s.finished = side.finished \cup {u}
      /\ \A v \in Vertex : Untouched(s, p, v) \/ Improved(s, p, arcs, u, k, v)
      /\ \A a \in arcs : a.from = u /\ a.to \notin side.finished =>
                           s.cost[a.to] <= k + a.cost
      /\ side.queue \ {<<k, u>>} \subseteq s.queue
      /\ \A r \in s.queue \ (side.queue \ {<<k, u>>}) : NewEntry(r, p, arcs, u, k)
  <2>1. Explored(s, p, arcs, u, k)
    BY ExploreEffect
  <2>2. QED
    BY <2>1 DEF Explored
<1>2. \A a \in arcs : a.cost \in Nat /\ a.from \in Vertex /\ a.to \in Vertex
  BY DEF Arc
<1>3. \A v \in Vertex : s.cost[v] \in 0..INF /\ side.cost[v] \in 0..INF
  BY <1>1 DEF Side
<1>4. \A v \in Vertex : s.cost[v] <= side.cost[v]
  <2> SUFFICES ASSUME NEW v \in Vertex PROVE s.cost[v] <= side.cost[v]
    OBVIOUS
  <2>1. CASE Untouched(s, p, v)
    BY <2>1, <1>3, InfAssumption DEF Untouched
  <2>2. CASE Improved(s, p, arcs, u, k, v)
    BY <2>2, <1>3, InfAssumption DEF Improved
  <2>3. QED
    BY <2>1, <2>2, <1>1
\* the label of u itself cannot fall below the key it was popped with
<1>5. \A v \in s.finished : v \in Vertex /\ Untouched(s, p, v)
  <2> SUFFICES ASSUME NEW v \in s.finished PROVE v \in Vertex /\ Untouched(s, p, v)
    OBVIOUS
  <2>1. v \in Vertex /\ (v \in side.finished \/ v = u)
    BY <1>1 DEF Side
  <2>2. ~ Improved(s, p, arcs, u, k, v)
    <3>1. CASE v \in side.finished
      BY <3>1 DEF Improved
    <3>2. CASE v = u
      <4>1. \A a \in arcs : ~ (k + a.cost < k)
        BY <1>2
      <4>2. QED
        BY <4>1, <3>2 DEF Improved
    <3>3. QED
      BY <2>1, <3>1, <3>2
  <2>3. QED
    BY <2>1, <2>2, <1>1
<1>6. Labelled(s, arcs, root)
  <2>1. s.cost[root] = 0
    BY <1>3, <1>4, InfAssumption DEF SideInv, Labelled
  <2>2. \A v \in s.finished : s.cost[v] < INF
    BY <1>1, <1>5 DEF SideInv, Labelled, Untouched
  <2>3. ASSUME NEW v \in Vertex \ s.finished, s.cost[v] < INF
        PROVE  <<s.cost[v], v>> \in s.queue
    <3>1. CASE Untouched(s, p, v)
      <4>1. <<side.cost[v], v>> \in side.queue
        BY <3>1, <2>3, <1>1 DEF SideInv, Labelled, Untouched
      <4>2. v # u
        BY <1>1
      <4>3. QED
        BY <3>1, <4>1, <4>2, <1>1 DEF Untouched
    <3>2. CASE Improved(s, p, arcs, u, k, v)
      BY <3>2 DEF Improved
    <3>3. QED
      BY <3>1, <3>2, <1>1
  <2>4. ASSUME NEW r \in s.queue PROVE s.cost[r[2]] <= r[1] /\ r[1] < INF
    <3>0. r[1] \in Nat /\ r[2] \in Vertex
      BY <1>1 DEF Side
    <3>1. CASE r \in side.queue
      <4>1. side.cost[r[2]] <= r[1] /\ r[1] < INF
        BY <3>1 DEF SideInv, Labelled
      <4>2. QED
        BY <4>1, <3>0, <1>3, <1>4, InfAssumption
    <3>2. CASE r \notin side.queue
      <4>1. PICK a \in arcs : /\ a.from = u /\ a.to = r[2] /\ a.to \notin side.finished
                              /\ r[1] = k + a.cost /\ r[1] < side.cost[r[2]]
        BY <3>2, <1>1 DEF NewEntry
      <4>2. s.cost[r[2]] <= r[1]
        BY <4>1, <1>1
      <4>3. QED
        BY <4>1, <4>2, <3>0, <1>3, InfAssumption
    <3>3. QED
      BY <3>1, <3>2
  <2>5. QED
    BY <2>1, <2>2, <2>3, <2>4 DEF Labelled
<1>7. \A v \in side.finished : side.cost[v] <= k
  <2>1. <<k, u>> \in side.queue
    BY DEF SideInv, Labelled
  <2>2. QED
    BY <2>1 DEF SideInv, Settled
<1>8. Settled(s, arcs)
  <2>1. ASSUME NEW a \in arcs, a.from \in s.finished
        PROVE  s.cost[a.to] <= s.cost[a.from] + a.cost
    <3>1. s.cost[a.from] = side.cost[a.from]
      BY <2>1, <1>5 DEF Untouched
    <3>2. CASE a.from \in side.finished
      <4>1. side.cost[a.to] <= side.cost[a.from] + a.cost
        BY <3>2 DEF SideInv, Settled
      <4>2. QED
        BY <4>1, <3>1, <1>2, <1>3, <1>4, InfAssumption
    <3>3. CASE a.from = u /\ a.to \notin side.finished
      BY <3>1, <3>3, <1>1
    <3>4. CASE a.from = u /\ a.to \in side.finished
      <4>1. s.cost[a.to] = side.cost[a.to] /\ side.cost[a.to] <= k
        BY <3>4, <1>1, <1>5, <1>7 DEF Untouched
      <4>2. QED
        BY <4>1, <3>1, <3>4, <1>2, <1>3, InfAssumption
    <3>5. QED
      BY <3>2, <3>3, <3>4, <2>1, <1>1
  <2>2. ASSUME NEW v \in s.finished, NEW r \in s.queue
        PROVE  s.cost[v] <= r[1]
    <3>1. s.cost[v] = side.cost[v] /\ v \in Vertex /\ (v \in side.finished \/ v = u)
      BY <1>1, <1>5 DEF Untouched
    <3>2. s.cost[v] <= k
      BY <3>1, <1>7
    <3>3. k <= r[1] /\ r[1] \in Nat
      <4>0. r[1] \in Nat
        BY <1>1 DEF Side
      <4>1. CASE r \in side.queue
        BY <4>0, <4>1
      <4>2. CASE r \notin side.queue
        <5>1. PICK a \in arcs : r[1] = k + a.cost
          BY <4>2, <1>1 DEF NewEntry
        <5>2. QED
          BY <5>1, <4>0, <1>2
      <4>3. QED
        BY <4>1, <4>2
    <3>4. QED
      BY <3>1, <3>2, <3>3, <1>3, InfAssumption
  <2>3. QED
    BY <2>1, <2>2 DEF Settled
<1>9. NotBelowPotentials(s, arcs, root)
  <2> SUFFICES ASSUME NEW D \in [Vertex -> 0..INF], Potential(arcs, root, D),
                      NEW v \in Vertex
               PROVE  D[v] <= s.cost[v]
    BY DEF NotBelowPotentials
  <2>1. D[v] <= side.cost[v] /\ D[u] <= k
    BY DEF SideInv, NotBelowPotentials
  <2>2. CASE Untouched(s, p, v)
    BY <2>1, <2>2 DEF Untouched
  <2>3. CASE Improved(s, p, arcs, u, k, v)
    <3>1. PICK a \in arcs : a.from = u /\ a.to = v /\ s.cost[v] = k + a.cost
      BY <2>3 DEF Improved
    <3>2. D[v] <= D[u] + a.cost
      BY <3>1 DEF Potential
    <3>3. QED
      BY <2>1, <3>1, <3>2, <1>2, InfAssumption
  <2>4. QED
    BY <2>2, <2>3, <1>1
<1>10. IsTree(s, arcs, root)
  <2> SUFFICES ASSUME NEW v \in Vertex \ {root}, s.cost[v] < INF
               PROVE  /\ s.predecessor[v] \in s.finished
                      /\ \E a \in arcs : /\ a.from = s.predecessor[v] /\ a.to = v
                                         /\ s.cost[v] = s.cost[a.from] + a.cost
    BY DEF IsTree
  <2>1. CASE Untouched(s, p, v)
    <3>1. side.predecessor[v] \in side.finished
      BY <2>1 DEF SideInv, IsTree, Untouched
    <3>2. PICK a \in arcs : /\ a.from = side.predecessor[v] /\ a.to = v
                            /\ side.cost[v] = side.cost[a.from] + a.cost
      BY <2>1 DEF SideInv, IsTree, Untouched
    <3>3. s.cost[a.from] = side.cost[a.from]
      BY <3>1, <3>2, <1>1, <1>5 DEF Untouched
    <3>4. QED
      BY <2>1, <3>1, <3>2, <3>3, <1>1 DEF Untouched
  <2>2. CASE Improved(s, p, arcs, u, k, v)
    <3>1. s.cost[u] = k
      BY <1>1, <1>5 DEF Untouched
    <3>2. QED
      BY <2>2, <3>1, <1>1 DEF Improved
  <2>3. QED
    BY <2>1, <2>2, <1>1
<1>11. QED
  BY <1>1, <1>6, <1>8, <1>9, <1>10 DEF SideInv

\* Popping the top and settling its vertex keeps the invariant of the side.
LEMMA SettleKeepsSide ==
  ASSUME NEW arcs \in SUBSET Arc, NEW root \in Vertex,
         NEW side, SideInv(side, arcs, root),
         NEW q, IsTop(q, side.queue), q[1] < INF
  PROVE  SideInv(Settle(side, arcs, q), arcs, root)
<1> DEFINE p == Pop(side, q)
<1>1. PICK k \in Nat, u \in Vertex : q = <<k, u>>
  BY DEF SideInv, Side, IsTop
<1>2. /\ side \in Side
      /\ q \in side.queue
      /\ k < INF
      /\ \A r \in side.queue : k <= r[1]
  BY <1>1 DEF SideInv, Side, IsTop
<1>3. /\ p.cost = side.cost /\ p.predecessor = side.predecessor
      /\ p.finished = side.finished /\ p.queue = side.queue \ {<<k, u>>}
      /\ p \in Side
  BY <1>1, <1>2 DEF Pop, Side
<1>4. CASE u \in side.finished
  <2>1. Settle(side, arcs, q) = p
    BY <1>1, <1>4 DEF Settle
  <2>2. Labelled(p, arcs, root)
    BY <1>1, <1>3, <1>4 DEF SideInv, Labelled
  <2>3. Settled(p, arcs) /\ NotBelowPotentials(p, arcs, root) /\ IsTree(p, arcs, root)
    BY <1>3 DEF SideInv, Settled, NotBelowPotentials, IsTree
  <2>4. QED
    BY <1>3, <2>1, <2>2, <2>3 DEF SideInv
<1>5. CASE u \notin side.finished
  <2>1. Settle(side, arcs, q) = Explore(p, arcs, u, k, NoEstimate)
    BY <1>1, <1>5 DEF Settle
  <2>2. side.cost[u] = k
    <3>1. side.cost[u] <= k /\ side.cost[u] \in 0..INF
      BY <1>1, <1>2 DEF SideInv, Labelled, Side
    <3>2. <<side.cost[u], u>> \in side.queue
      BY <1>2, <1>5, <3>1, InfAssumption DEF SideInv, Labelled
    <3>3. k <= side.cost[u]
      BY <1>2, <3>2
    <3>4. QED
      BY <3>1, <3>3, InfAssumption
  <2>3. QED
    BY <1>2, <1>3, <1>5, <2>1, <2>2, ExploreKeepsSide
<1>6. QED
  BY <1>4, <1>5

\* The certificate of Dijkstra's theorem: cut off at the label of v, the labels
\* of a side are a potential, and no potential exceeds them.
LEMMA SettledIsDistance ==
  ASSUME NEW arcs \in SUBSET Arc, NEW root \in Vertex,
         NEW side, SideInv(side, arcs, root), NEW v \in side.finished
  PROVE  IsDistance(arcs, root, v, side.cost[v])
<1> DEFINE d == side.cost[v]
           D == [w \in Vertex |-> IF side.cost[w] <= d THEN side.cost[w] ELSE d]
<1>1. /\ v \in Vertex /\ d \in 0..INF
      /\ \A w \in Vertex : side.cost[w] \in 0..INF
  BY DEF SideInv, Side
<1>2. \A a \in arcs : a.cost \in Nat /\ a.from \in Vertex /\ a.to \in Vertex
  BY DEF Arc
<1>3. D \in [Vertex -> 0..INF] /\ D[v] = d
  BY <1>1
<1>4. \A w \in Vertex : D[w] = IF side.cost[w] <= d THEN side.cost[w] ELSE d
  OBVIOUS
<1> HIDE DEF D
<1>5. D[root] = 0
  BY <1>1, <1>4 DEF SideInv, Labelled
<1>6. ASSUME NEW a \in arcs PROVE D[a.to] <= D[a.from] + a.cost
  <2>1. CASE a.from \in side.finished
    <3>1. side.cost[a.to] <= side.cost[a.from] + a.cost
      BY <2>1 DEF SideInv, Settled
    <3>2. QED
      BY <3>1, <1>1, <1>2, <1>4, InfAssumption
  <2>2. CASE a.from \notin side.finished
    <3>1. d <= side.cost[a.from]
      <4>1. CASE side.cost[a.from] < INF
        <5>1. <<side.cost[a.from], a.from>> \in side.queue
          BY <4>1, <2>2, <1>2 DEF SideInv, Labelled
        <5>2. QED
          BY <5>1 DEF SideInv, Settled
      <4>2. CASE ~ (side.cost[a.from] < INF)
        BY <4>2, <1>1, <1>2, InfAssumption
      <4>3. QED
        BY <4>1, <4>2
    <3>2. QED
      BY <3>1, <1>1, <1>2, <1>4, InfAssumption
  <2>3. QED
    BY <2>1, <2>2
<1>7. Potential(arcs, root, D)
  BY <1>3, <1>5, <1>6 DEF Potential
<1>8. \A P \in [Vertex -> 0..INF] : Potential(arcs, root, P) => P[v] <= d
  BY <1>1 DEF SideInv, NotBelowPotentials
<1> DEFINE Grounded(E) == [w \in Vertex |-> IF w = root THEN 0 ELSE E[w]]
           Rest == [w \in Vertex \ {root} |-> D[w]]
<1>9. Rest \in [Vertex \ {root} -> 0..INF] /\ Grounded(Rest) = D
  BY <1>3, <1>5
<1>10. \A E \in [Vertex \ {root} -> 0..INF] : Grounded(E) \in [Vertex -> 0..INF]
  BY InfAssumption
<1>11. \E E \in [Vertex \ {root} -> 0..INF] :
         Grounded(E)[v] = d /\ Potential(arcs, root, Grounded(E))
  BY <1>3, <1>7, <1>9
<1>12. \A E \in [Vertex \ {root} -> 0..INF] :
         Potential(arcs, root, Grounded(E)) => Grounded(E)[v] <= d
  BY <1>8, <1>10
<1>13. QED
  BY <1>11, <1>12 DEF IsDistance

----------------------------------------------------------------------------
(***************************************************************************)
(* The search.                                                             *)
(***************************************************************************)
\* The element a search takes next: the cheapest of a queue that still has one within reach.
Settling(side, arcs, root, q) ==
  /\ arcs \in SUBSET Arc /\ root \in Vertex
  /\ SideInv(side, arcs, root)
  /\ IsTop(q, side.queue) /\ q[1] < INF

\* A finished vertex keeps its label when its side settles another one.
LEMMA FinishedStay ==
  ASSUME NEW arcs, NEW root, NEW side, NEW q, Settling(side, arcs, root, q)
  PROVE  \A v \in side.finished : /\ v \in Settle(side, arcs, q).finished
                                  /\ Settle(side, arcs, q).cost[v] = side.cost[v]
<1> DEFINE p == Pop(side, q)
<1> TAKE v \in side.finished
<1>0. /\ arcs \in SUBSET Arc /\ root \in Vertex
      /\ SideInv(side, arcs, root) /\ IsTop(q, side.queue) /\ q[1] < INF
  BY DEF Settling
<1>1. PICK k \in Nat, u \in Vertex : q = <<k, u>>
  BY <1>0 DEF SideInv, Side, IsTop
<1>2. /\ p \in Side /\ p.cost = side.cost /\ p.finished = side.finished
      /\ v \in Vertex
  BY <1>0, <1>1 DEF Pop, SideInv, Side, IsTop
<1>3. CASE u \in side.finished
  BY <1>1, <1>2, <1>3 DEF Settle
<1>4. CASE u \notin side.finished
  <2>1. Explored(Settle(side, arcs, q), p, arcs, u, k)
    <3>1. Settle(side, arcs, q) = Explore(p, arcs, u, k, NoEstimate)
      BY <1>1, <1>4 DEF Settle
    <3>2. QED
      BY <1>0, <1>1, <1>2, <3>1, ExploreEffect
  <2>2. Untouched(Settle(side, arcs, q), p, v)
    BY <1>2, <2>1 DEF Explored, Improved
  <2>3. v \in Settle(side, arcs, q).finished
    BY <1>2, <2>1 DEF Explored
  <2>4. QED
    BY <1>2, <2>2, <2>3 DEF Untouched
<1>5. QED
  BY <1>3, <1>4

\* The invariant behind the theorems: types, both sides, and the meeting.
SearchInv ==
  /\ TypeOK
  /\ SideInv(forward, graph, query.source)
  /\ SideInv(backward, Reversed(graph), query.target)
  /\ MeetingIsFinal

\* Every query starts from two rooted sides and no meeting.
LEMMA SidesRooted ==
  ASSUME NEW g \in Graphs, NEW a \in Vertex
  PROVE  /\ SideInv(Rooted(a), g, a)
         /\ SideInv(Rooted(a), Reversed(g), a)
<1>1. g \in SUBSET Arc
  BY GraphsAssumption
<1>2. QED
  BY <1>1, RootedSide, ReversedArcs

\* The initial states satisfy the invariant.
LEMMA InitSearchInv == Init => SearchInv
<1> SUFFICES ASSUME Init PROVE SearchInv
  OBVIOUS
<1>1. Min(Vertex) \in Vertex
  BY VertexAssumption, MinOfNaturals
<1>2. /\ graph \in Graphs /\ query.source \in Vertex /\ query.target \in Vertex
      /\ forward = Rooted(query.source) /\ backward = Rooted(query.target)
      /\ query \in Query
  BY <1>1 DEF Init, Query
<1>3. /\ SideInv(forward, graph, query.source)
      /\ SideInv(backward, Reversed(graph), query.target)
  BY <1>2, SidesRooted
<1>4. TypeOK
  BY <1>1, <1>2, <1>3, InfAssumption DEF Init, TypeOK, Status, SideInv
<1>5. MeetingIsFinal
  BY InfAssumption DEF Init, MeetingIsFinal
<1>6. QED
  BY <1>3, <1>4, <1>5 DEF SearchInv

\* found(), given sides that kept the labels of their finished vertices.
LEMMA FoundKeepsMeeting ==
  ASSUME SearchInv,
         SideInv(forward', graph', query'.source),
         SideInv(backward', Reversed(graph)', query'.target),
         \A v \in forward.finished : v \in forward'.finished /\ forward'.cost[v] = forward.cost[v],
         \A v \in backward.finished : v \in backward'.finished /\ backward'.cost[v] = backward.cost[v],
         NEW v \in Vertex, Found(v), status = "searching"
  PROVE  /\ MeetingIsFinal'
         /\ status' \in Status /\ v_min_node' \in Vertex /\ best_cost' \in Nat
<1>1. forward'.cost[v] \in Nat /\ backward'.cost[v] \in Nat
  BY InfAssumption DEF SideInv, Side
<1>2. TypeOK /\ MeetingIsFinal
  BY DEF SearchInv
<1>3. CASE Common(v) /\ best_cost >= Through(v) /\ v_min_node' = v
           /\ best_cost' = Through(v) /\ UNCHANGED status
  BY <1>1, <1>2, <1>3 DEF Common, Through, MeetingIsFinal, TypeOK
<1>4. CASE UNCHANGED <<v_min_node, best_cost>> /\ status' \in {status, "stopped"}
  BY <1>2, <1>4 DEF MeetingIsFinal, TypeOK, Status
<1>5. QED
  BY <1>3, <1>4 DEF Found

\* Every step keeps the invariant.
LEMMA NextSearchInv == SearchInv /\ [Next]_vars => SearchInv'
<1> SUFFICES ASSUME SearchInv, [Next]_vars PROVE SearchInv'
  OBVIOUS
<1>1. /\ TypeOK /\ MeetingIsFinal
      /\ SideInv(forward, graph, query.source)
      /\ SideInv(backward, Reversed(graph), query.target)
      /\ graph \in SUBSET Arc /\ Reversed(graph) \in SUBSET Arc
      /\ query.source \in Vertex /\ query.target \in Vertex
  BY GraphsAssumption, ReversedArcs DEF SearchInv, TypeOK, Query
<1>2. CASE pgr_bdDijkstra
  <2>1. PICK s \in Vertex, t \in Vertex, only_cost \in BOOLEAN : Ask(s, t, only_cost)
    BY <1>2 DEF pgr_bdDijkstra
  <2>2. /\ SideInv(forward', graph', query'.source)
        /\ SideInv(backward', Reversed(graph'), query'.target)
    BY <1>1, <2>1, SidesRooted DEF Ask, TypeOK
  <2>3. Min(Vertex) \in Vertex
    BY VertexAssumption, MinOfNaturals
  <2>4. TypeOK'
    BY <1>1, <2>1, <2>2, <2>3, InfAssumption DEF Ask, TypeOK, Status, Query, SideInv
  <2>5. MeetingIsFinal'
    BY <2>1, InfAssumption DEF Ask, MeetingIsFinal
  <2>6. QED
    BY <2>2, <2>4, <2>5 DEF SearchInv
<1>3. CASE StepForward
  <2>1. PICK f \in forward.queue :
          /\ status = "searching" /\ IsTop(f, forward.queue) /\ f[1] < INF
          /\ forward' = Settle(forward, graph, f)
          /\ Found(f[2])
    BY <1>3 DEF StepForward, Continue
  <2>2. UNCHANGED <<graph, query, backward>>
    BY <1>3 DEF StepForward
  <2>3. SideInv(forward', graph', query'.source)
    BY <1>1, <2>1, <2>2, SettleKeepsSide
  <2>4. SideInv(backward', Reversed(graph)', query'.target)
    BY <1>1, <2>2
  <2>5. \A v \in forward.finished : v \in forward'.finished /\ forward'.cost[v] = forward.cost[v]
    <3>1. Settling(forward, graph, query.source, f)
      BY <1>1, <2>1 DEF Settling
    <3>2. \A v \in forward.finished : /\ v \in Settle(forward, graph, f).finished
                                    /\ Settle(forward, graph, f).cost[v] = forward.cost[v]
      BY <3>1, FinishedStay
    <3>3. QED
      BY <2>1, <3>2
  <2>6. f[2] \in Vertex
    BY <1>1, <2>1 DEF TypeOK, Side
  <2>7. /\ MeetingIsFinal'
        /\ status' \in Status /\ v_min_node' \in Vertex /\ best_cost' \in Nat
    BY <2>1, <2>2, <2>3, <2>4, <2>5, <2>6, FoundKeepsMeeting
  <2>8. TypeOK'
    BY <1>1, <2>2, <2>3, <2>4, <2>7 DEF TypeOK, SideInv
  <2>9. QED
    BY <2>3, <2>4, <2>7, <2>8 DEF SearchInv
<1>4. CASE StepBackward
  <2>1. PICK b \in backward.queue :
          /\ status = "searching" /\ IsTop(b, backward.queue) /\ b[1] < INF
          /\ backward' = Settle(backward, Reversed(graph), b)
          /\ Found(b[2])
    BY <1>4 DEF StepBackward, Continue
  <2>2. UNCHANGED <<graph, query, forward>>
    BY <1>4 DEF StepBackward
  <2>3. SideInv(forward', graph', query'.source)
    BY <1>1, <2>2
  <2>4. SideInv(backward', Reversed(graph)', query'.target)
    BY <1>1, <2>1, <2>2, SettleKeepsSide
  <2>5. \A v \in backward.finished : v \in backward'.finished /\ backward'.cost[v] = backward.cost[v]
    <3>1. Settling(backward, Reversed(graph), query.target, b)
      BY <1>1, <2>1 DEF Settling
    <3>2. \A v \in backward.finished : /\ v \in Settle(backward, Reversed(graph), b).finished
                                    /\ Settle(backward, Reversed(graph), b).cost[v] = backward.cost[v]
      BY <3>1, FinishedStay
    <3>3. QED
      BY <2>1, <3>2
  <2>6. b[2] \in Vertex
    BY <1>1, <2>1 DEF TypeOK, Side
  <2>7. /\ MeetingIsFinal'
        /\ status' \in Status /\ v_min_node' \in Vertex /\ best_cost' \in Nat
    BY <2>1, <2>2, <2>3, <2>4, <2>5, <2>6, FoundKeepsMeeting
  <2>8. TypeOK'
    BY <1>1, <2>2, <2>3, <2>4, <2>7 DEF TypeOK, SideInv
  <2>9. QED
    BY <2>3, <2>4, <2>7, <2>8 DEF SearchInv
<1>5. CASE Exhausted \/ Return \/ UNCHANGED vars
  <2>1. /\ UNCHANGED <<graph, query, forward, backward, v_min_node, best_cost>>
        /\ status' \in Status
    BY <1>1, <1>5 DEF Exhausted, Return, vars, TypeOK, Status
  <2>2. QED
    BY <1>1, <2>1 DEF SearchInv, TypeOK, MeetingIsFinal
<1>6. QED
  BY <1>2, <1>3, <1>4, <1>5 DEF Next

----------------------------------------------------------------------------
\* The invariant holds of the specification.
THEOREM SearchInvariant == Spec => []SearchInv
<1>1. QED
  BY InitSearchInv, NextSearchInv, PTL DEF Spec

\* Type correctness of the search, for every graph and sequence of queries.
THEOREM TypeCorrect == Spec => []TypeOK
<1>1. SearchInv => TypeOK
  BY DEF SearchInv
<1>2. QED
  BY <1>1, SearchInvariant, PTL

\* Dijkstra's theorem: what either side has finished carries its distance, in
\* every query asked of the same object.
THEOREM SettledIsExactTheorem == Spec => []SettledIsExact
<1>1. SearchInv => SettledIsExact
  <2> SUFFICES ASSUME SearchInv PROVE SettledIsExact
    OBVIOUS
  <2>1. /\ graph \in SUBSET Arc /\ Reversed(graph) \in SUBSET Arc
        /\ query.source \in Vertex /\ query.target \in Vertex
    BY GraphsAssumption, ReversedArcs DEF SearchInv, TypeOK, Query
  <2>2. QED
    BY <2>1, SettledIsDistance DEF SearchInv, SettledIsExact
<1>2. QED
  BY <1>1, SearchInvariant, PTL

\* complete_path follows a tree of finished vertices.
THEOREM TreesHoldTheorem == Spec => []TreesHold
<1>1. SearchInv => TreesHold
  BY DEF SearchInv, SideInv, TreesHold
<1>2. QED
  BY <1>1, SearchInvariant, PTL

\* A meeting that was recorded stays the sum of two final labels.
THEOREM MeetingIsFinalTheorem == Spec => []MeetingIsFinal
<1>1. SearchInv => MeetingIsFinal
  BY DEF SearchInv
<1>2. QED
  BY <1>1, SearchInvariant, PTL

----------------------------------------------------------------------------
(***************************************************************************)
(* The way back from a vertex (complete_path): where it ends, for every    *)
(* number of vertices.                                                     *)
(***************************************************************************)
\* The root is its own predecessor; every other vertex with a label was labelled from a
\* vertex of a lower rank.  Costs do not fall where they are zero.
Descends(side, root, rank) ==
  /\ side \in Side /\ root \in Vertex /\ rank \in [Vertex -> Nat]
  /\ side.cost[root] < INF /\ side.predecessor[root] = root /\ rank[root] = 0
  /\ \A v \in Vertex \ {root} : side.cost[v] < INF =>
       /\ side.cost[side.predecessor[v]] < INF
       /\ rank[side.predecessor[v]] < rank[v]

IsRanked(side, root) == \E rank \in [Vertex -> Nat] : Descends(side, root, rank)

Higher(rank, v) == {w \in Vertex : rank[v] < rank[w]}

\* After n steps the root is reached, or n vertices have been left behind.
IsBack(c, n, v) ==
  /\ v \in Vertex /\ c.side.cost[v] < INF
  /\ v = c.root \/ Cardinality(Higher(c.rank, v)) >= n

Way == INSTANCE Recursion WITH
  Start <- LAMBDA c : c.from,
  Step  <- LAMBDA c, n, v : c.side.predecessor[v],
  Pick  <- LAMBDA c, s : CHOOSE x \in s : TRUE,
  Claim <- LAMBDA c, n, v : IsBack(c, n, v)

From(side, root, rank, v) == [side |-> side, root |-> root, rank |-> rank, from |-> v]

Up(side, root, rank, v) == Way!Counted(From(side, root, rank, v), 0, Cardinality(Vertex))

Depth(up) == Min({n \in 0..Cardinality(Vertex) - 1 : up[n] = up[n + 1]})

\* The vertices are finitely many, and so are those of a higher rank than one of them.
LEMMA HigherAreCounted ==
  ASSUME NEW rank, NEW v
  PROVE  /\ Cardinality(Vertex) \in Nat \ {0}
         /\ IsFiniteSet(Higher(rank, v)) /\ Cardinality(Higher(rank, v)) \in Nat
<1>1. Higher(rank, v) \subseteq Vertex
  BY DEF Higher
<1>2. IsFiniteSet(Higher(rank, v))
  BY <1>1, VertexAssumption, FS_Subset
<1>3. Cardinality(Vertex) \in Nat /\ Cardinality(Vertex) # 0
  BY VertexAssumption, FS_CardinalityType, FS_EmptySet
<1>4. QED
  BY <1>2, <1>3, FS_CardinalityType

\* One step back.
LEMMA StepBack ==
  ASSUME NEW c, Descends(c.side, c.root, c.rank), NEW n \in Nat, NEW v, IsBack(c, n - 1, v)
  PROVE  IsBack(c, n, c.side.predecessor[v])
<1>0. PICK side, rank : side = c.side /\ rank = c.rank
  OBVIOUS
<1> DEFINE p == side.predecessor[v]
<1>1. /\ side \in Side /\ c.root \in Vertex /\ v \in Vertex /\ side.cost[v] < INF
      /\ rank \in [Vertex -> Nat] /\ side.predecessor[c.root] = c.root
  BY <1>0 DEF Descends, IsBack
<1>2. p \in Vertex /\ \A w \in Vertex : rank[w] \in Nat
  BY <1>1 DEF Side
<1>3. CASE v = c.root
  BY <1>0, <1>1, <1>3 DEF IsBack
<1>4. CASE v # c.root
  <2>1. rank[p] < rank[v] /\ side.cost[p] < INF
    BY <1>0, <1>1, <1>4 DEF Descends
  <2>2. Cardinality(Higher(rank, v)) >= n - 1
    BY <1>0, <1>4 DEF IsBack
  <2>3. Higher(rank, v) \cup {v} \subseteq Higher(rank, p)
    BY <2>1, <1>1, <1>2 DEF Higher
  <2>4. v \notin Higher(rank, v)
    BY <1>1, <1>2 DEF Higher
  <2>5. Cardinality(Higher(rank, v) \cup {v}) = Cardinality(Higher(rank, v)) + 1
    BY <2>4, HigherAreCounted, FS_AddElement
  <2>6. Cardinality(Higher(rank, v) \cup {v}) <= Cardinality(Higher(rank, p))
    BY <2>3, HigherAreCounted, FS_Subset
  <2>7. Cardinality(Higher(rank, v)) \in Nat /\ Cardinality(Higher(rank, p)) \in Nat
    BY HigherAreCounted
  <2>8. Cardinality(Higher(rank, p)) >= n
    BY <2>2, <2>5, <2>6, <2>7
  <2>9. QED
    BY <2>1, <2>8, <1>0, <1>2 DEF IsBack
<1>5. QED
  BY <1>3, <1>4

\* complete_path is that recursion, up to the vertex that is its own predecessor.
LEMMA WalkIsCounted ==
  ASSUME NEW side, NEW root, NEW rank, NEW v, NEW up, up = Up(side, root, rank, v)
  PROVE  TreeWalk(side, v) = [i \in 1..Depth(up) + 1 |-> up[Depth(up) + 1 - i]]
BY DEF TreeWalk, Up, Depth, From, Way!Counted, Way!IsCounted

\* A function on the indices up to n is a list.
LEMMA FunctionIsList ==
  ASSUME NEW n \in Nat, NEW X, NEW f \in [1..n -> X]
  PROVE  f \in Seq(X) /\ Len(f) = n
<1>1. f \in Seq(X)
  OBVIOUS
<1>2. DOMAIN f = 1..n /\ DOMAIN f = 1..Len(f) /\ Len(f) \in Nat
  BY <1>1
<1>3. QED
  BY <1>1, <1>2

\* w is the way back from v to the root.
IsWalk(w, d, side, root, v) ==
  /\ w = [i \in 1..d + 1 |-> w[i]] /\ Len(w) = d + 1
  /\ w[1] = root /\ w[d + 1] = v
  /\ \A i \in 1..d + 1 : w[i] \in Vertex
  /\ \A i \in 1..d : /\ w[i + 1] # root /\ side.cost[w[i + 1]] < INF
                      /\ w[i] = side.predecessor[w[i + 1]]

\* The way reaches the root in time, and takes each vertex to its predecessor.
LEMMA WalkDescends ==
  ASSUME NEW side, NEW root, IsRanked(side, root), NEW v \in Vertex, side.cost[v] < INF
  PROVE  \E d \in Nat : IsWalk(TreeWalk(side, v), d, side, root, v)
<1>0. PICK rank \in [Vertex -> Nat] : Descends(side, root, rank)
  BY DEF IsRanked
<1> DEFINE N == Cardinality(Vertex)
           c == From(side, root, rank, v)
<1>1. PICK up : up = Up(side, root, rank, v)
  OBVIOUS
<1>2. N \in Nat \ {0}
  BY HigherAreCounted
<1>3. c.side = side /\ c.root = root /\ c.rank = rank /\ c.from = v
  BY DEF From
<1> HIDE DEF N, c
<1>4. up = Way!Counted(c, 0, N)
  BY <1>1 DEF Up, N, c
<1>5. Way!IsCounted(Way!Counted(c, 0, N), c, 0, N)
  <2>1. 0 \in Int /\ N \in Int
    BY <1>2
  <2>2. QED
    BY ONLY <2>1, Way!CountedExists, Zenon
<1>6. \A i \in 0..N : up[i] = IF i = 0 THEN c.from ELSE c.side.predecessor[up[i - 1]]
  BY <1>4, <1>5 DEF Way!IsCounted
<1>7. \A i \in 0..N : IsBack(c, i, up[i])
  <2>1. IsBack(c, 0, c.from)
    BY <1>3, HigherAreCounted DEF IsBack
  <2>2. \A i \in 0 + 1..N : \A x : IsBack(c, i - 1, x) => IsBack(c, i, c.side.predecessor[x])
    <3>1. \A i \in 0 + 1..N : i \in Nat
      BY <1>2
    <3>2. Descends(c.side, c.root, c.rank)
      BY <1>0, <1>3
    <3>3. QED
      BY ONLY <3>1, <3>2, StepBack
  <2>3. 0 \in Int /\ N \in Int
    BY <1>2
  <2>4. \A i \in 0..N : IsBack(c, i, Way!Counted(c, 0, N)[i])
    BY ONLY <2>1, <2>2, <2>3, Way!CountedClaim, Zenon
  <2>5. QED
    BY <2>4, <1>4
<1>8. N - 1 \in 0..N - 1 /\ N - 1 \in 0..N /\ N \in 0..N /\ N # 0
  BY <1>2
<1>9. up[N - 1] = root
  <2>1. SUFFICES ASSUME up[N - 1] # root PROVE FALSE
    OBVIOUS
  <2> DEFINE w == up[N - 1]
             D == Higher(rank, w)
  <2>2. w \in Vertex /\ Cardinality(D) >= N - 1
    BY <2>1, <1>3, <1>7, <1>8 DEF IsBack
  <2>3. root \in Vertex /\ rank[root] = 0 /\ \A x \in Vertex : rank[x] \in Nat
    BY <1>0 DEF Descends
  <2>4. D \cup {w} \subseteq Vertex \ {root}
    BY <2>1, <2>2, <2>3 DEF Higher
  <2>5. w \notin D
    BY <2>2, <2>3 DEF Higher
  <2>6. IsFiniteSet(D) /\ Cardinality(D) \in Nat
    BY HigherAreCounted
  <2> HIDE DEF D
  <2>7. Cardinality(D \cup {w}) = Cardinality(D) + 1
    BY <2>5, <2>6, FS_AddElement
  <2>8. IsFiniteSet(Vertex \ {root}) /\ Cardinality(Vertex \ {root}) = N - 1
    BY <2>3, VertexAssumption, FS_RemoveElement DEF N
  <2>9. Cardinality(D \cup {w}) <= N - 1
    BY <2>4, <2>8, FS_Subset
  <2>10. Cardinality(D) + 1 <= N - 1
    BY <2>7, <2>9
  <2>11. PICK k : k = Cardinality(D)
    OBVIOUS
  <2>12. k \in Nat /\ k >= N - 1 /\ k + 1 <= N - 1
    BY <2>2, <2>6, <2>10, <2>11
  <2>13. QED
    BY ONLY <2>12, <1>2
<1>10. up[N] = root
  BY <1>0, <1>2, <1>3, <1>6, <1>8, <1>9 DEF Descends
<1> DEFINE S == {n \in 0..N - 1 : up[n] = up[n + 1]}
<1>11. N - 1 \in S
  BY <1>8, <1>9, <1>10, <1>2
<1>12. PICK d : d = Depth(up)
  OBVIOUS
<1>13. d \in S /\ \A n \in S : d <= n
  <2>1. S \in SUBSET Nat /\ S # {}
    BY <1>11
  <2>2. Min(S) \in S /\ \A n \in S : Min(S) <= n
    BY <2>1, MinOfNaturals
  <2>3. d = Min(S)
    BY <1>12 DEF Depth, N
  <2>4. QED
    BY <2>2, <2>3
<1>14. d \in Nat /\ d <= N - 1
  BY <1>13, <1>2
<1>15. \A n \in 0..N - 1 : up[n + 1] = side.predecessor[up[n]]
  <2>1. ASSUME NEW n \in 0..N - 1 PROVE up[n + 1] = side.predecessor[up[n]]
    <3>1. n + 1 \in 0..N /\ n + 1 # 0 /\ n + 1 - 1 = n
      BY <1>2
    <3>2. QED
      BY <3>1, <1>3, <1>6
  <2>2. QED
    BY <2>1
<1>16. \A n \in 0..N : up[n] \in Vertex /\ side.cost[up[n]] < INF
  BY <1>3, <1>7 DEF IsBack
<1>17. up[d] = root
  <2>1. SUFFICES ASSUME up[d] # root PROVE FALSE
    OBVIOUS
  <2>2. d \in 0..N /\ d \in 0..N - 1
    BY <1>2, <1>14
  <2>3. up[d] = side.predecessor[up[d]]
    BY <2>2, <1>13, <1>15
  <2>4. rank[side.predecessor[up[d]]] < rank[up[d]] /\ up[d] \in Vertex
    BY <2>1, <2>2, <1>0, <1>16 DEF Descends
  <2>5. PICK m : m = rank[up[d]]
    OBVIOUS
  <2>6. m \in Nat /\ m < m
    BY <2>3, <2>4, <2>5
  <2>7. QED
    BY ONLY <2>6
<1>18. \A n \in 0..N - 1 : n < d => up[n] # root
  <2>1. ASSUME NEW n \in 0..N - 1, n < d, up[n] = root PROVE FALSE
    <3>1. up[n + 1] = up[n]
      BY <2>1, <1>0, <1>15 DEF Descends
    <3>2. n \in S
      BY <3>1
    <3>3. d <= n /\ n \in Nat
      BY <3>2, <1>13
    <3>4. QED
      BY <2>1, <3>3, <1>14
  <2>2. QED
    BY <2>1
<1> DEFINE w == TreeWalk(side, v)
<1>19. w = [i \in 1..d + 1 |-> up[d + 1 - i]]
  BY <1>1, <1>12, WalkIsCounted
<1> HIDE DEF w, S
<1>20. Len(w) = d + 1 /\ w = [i \in 1..d + 1 |-> w[i]]
  <2> DEFINE X == {up[d + 1 - i] : i \in 1..d + 1}
  <2>1. w \in [1..d + 1 -> X] /\ d + 1 \in Nat
    BY <1>14, <1>19
  <2> HIDE DEF X
  <2>2. Len(w) = d + 1
    BY <2>1, FunctionIsList
  <2>3. QED
    BY <2>1, <2>2
<1>21. \A i \in 1..d + 1 : w[i] = up[d + 1 - i] /\ d + 1 - i \in 0..N
  BY <1>2, <1>14, <1>19
<1>22. up[0] = v
  <2>1. 0 \in 0..N
    BY <1>2
  <2>2. QED
    BY <2>1, <1>3, <1>6
<1>23. w[1] = root /\ w[d + 1] = v
  <2>1. 1 \in 1..d + 1 /\ d + 1 \in 1..d + 1 /\ d + 1 - 1 = d /\ d + 1 - (d + 1) = 0
    BY <1>14
  <2>2. QED
    BY <2>1, <1>17, <1>21, <1>22
<1>24. ASSUME NEW i \in 1..d
       PROVE  /\ w[i + 1] # root /\ side.cost[w[i + 1]] < INF
              /\ w[i] = side.predecessor[w[i + 1]]
  <2>1. PICK n : n = d - i
    OBVIOUS
  <2>2. /\ n \in 0..N - 1 /\ n \in 0..N /\ n < d
        /\ i \in 1..d + 1 /\ i + 1 \in 1..d + 1
        /\ d + 1 - i = n + 1 /\ d + 1 - (i + 1) = n
    BY <2>1, <1>2, <1>14
  <2>3. w[i + 1] = up[n] /\ w[i] = up[n + 1]
    BY <2>2, <1>21
  <2>4. QED
    BY <2>2, <2>3, <1>15, <1>16, <1>18
<1>25. \A i \in 1..d + 1 : w[i] \in Vertex
  BY <1>16, <1>21
<1>26. IsWalk(w, d, side, root, v)
  BY <1>20, <1>23, <1>24, <1>25 DEF IsWalk
<1>27. QED
  BY <1>14, <1>26 DEF w

----------------------------------------------------------------------------
(***************************************************************************)
(* Both sides have such ranks, whatever the costs are.                     *)
(***************************************************************************)
WaysBack == IsRanked(forward, query.source) /\ IsRanked(backward, query.target)

\* A side that has not begun is ranked by zeros.
LEMMA RootedIsRanked ==
  ASSUME NEW root \in Vertex
  PROVE  IsRanked(Rooted(root), root)
<1> DEFINE rank == [v \in Vertex |-> 0]
<1>1. Rooted(root) \in Side
  BY InfAssumption DEF Rooted, Side
<1>2. \A v \in Vertex \ {root} : Rooted(root).cost[v] = INF
  BY DEF Rooted
<1>3. Rooted(root).cost[root] = 0 /\ Rooted(root).predecessor[root] = root
  BY DEF Rooted
<1>4. rank \in [Vertex -> Nat] /\ rank[root] = 0
  OBVIOUS
<1> HIDE DEF rank
<1>5. Descends(Rooted(root), root, rank)
  BY <1>1, <1>2, <1>3, <1>4, InfAssumption DEF Descends
<1>6. QED
  BY <1>4, <1>5 DEF IsRanked

\* A vertex that settling the top makes cheaper is ranked anew, above the vertex it is
\* reached from: no vertex has been reached from it, as it is not finished.
LEMMA SettleKeepsRanks ==
  ASSUME NEW arcs \in SUBSET Arc, NEW root \in Vertex,
         NEW side, SideInv(side, arcs, root), IsRanked(side, root),
         NEW q, IsTop(q, side.queue), q[1] < INF
  PROVE  IsRanked(Settle(side, arcs, q), root)
<1> DEFINE p == Pop(side, q)
           s == Settle(side, arcs, q)
<1>1. PICK k \in Nat, u \in Vertex : q = <<k, u>>
  BY DEF SideInv, Side, IsTop
<1>2. PICK rank \in [Vertex -> Nat] : Descends(side, root, rank)
  BY DEF IsRanked
<1>3. /\ p \in Side /\ p.cost = side.cost /\ p.finished = side.finished
      /\ p.predecessor = side.predecessor /\ side \in Side /\ side.cost[root] = 0
      /\ side.predecessor[root] = root
  BY <1>2 DEF Pop, SideInv, Side, Labelled, Descends
<1>4. CASE u \in side.finished
  <2>1. s = p
    BY <1>1, <1>4 DEF Settle
  <2>2. Descends(s, root, rank)
    BY <2>1, <1>2, <1>3 DEF Descends
  <2>3. QED
    BY <2>2 DEF IsRanked
<1>5. CASE u \notin side.finished
  <2>1. Explored(s, p, arcs, u, k)
    <3>1. s = Explore(p, arcs, u, k, NoEstimate)
      BY <1>1, <1>5 DEF Settle
    <3>2. QED
      BY <1>3, <3>1, ExploreEffect
  <2>2. side.cost[u] <= k /\ k < INF
    BY <1>1 DEF SideInv, Labelled, IsTop
  <2> HIDE DEF s, p
  <2> DEFINE New(v) == Improved(s, p, arcs, u, k, v)
             ranked == [v \in Vertex |-> IF New(v) THEN rank[u] + 1 ELSE rank[v]]
  <2>3. /\ s \in Side
        /\ \A v \in Vertex : Untouched(s, p, v) \/ New(v)
    BY <2>1 DEF Explored
  <2>4. \A v \in Vertex : side.cost[v] \in Nat /\ s.cost[v] \in Nat
    BY <1>3, <2>3, InfAssumption DEF Side
  <2>5. ~ New(root)
    BY <2>4, <1>3 DEF Improved
  <2>6. ~ New(u)
    <3>1. \A a \in arcs : a.cost \in Nat
      BY DEF Arc
    <3>2. SUFFICES ASSUME New(u) PROVE FALSE
      OBVIOUS
    <3>3. PICK a \in arcs : s.cost[u] = k + a.cost
      BY <3>2 DEF Improved
    <3>4. s.cost[u] < side.cost[u]
      BY <3>2, <1>3 DEF Improved
    <3>5. QED
      BY <3>1, <3>3, <3>4, <2>2, <2>4
  <2>7. \A v \in side.finished : ~ New(v)
    BY <1>3 DEF Improved
  <2>8. \A v \in Vertex : /\ New(v) => s.predecessor[v] = u
                          /\ ~ New(v) => /\ s.predecessor[v] = side.predecessor[v]
                                         /\ s.cost[v] = side.cost[v]
    BY <2>3, <1>3 DEF Improved, Untouched
  <2>9. IsTree(side, arcs, root)
    BY DEF SideInv
  <2>10. \A v \in side.finished : v \in Vertex
    BY <1>3 DEF Side
  <2>11. \A v \in Vertex : rank[v] \in Nat
    OBVIOUS
  <2> HIDE DEF New
  <2>12. /\ ranked \in [Vertex -> Nat]
         /\ \A v \in Vertex : ranked[v] = IF New(v) THEN rank[u] + 1 ELSE rank[v]
    BY <2>11
  <2> HIDE DEF ranked
  <2>13. ASSUME NEW v \in Vertex \ {root}, s.cost[v] < INF
         PROVE  /\ s.cost[s.predecessor[v]] < INF
                /\ ranked[s.predecessor[v]] < ranked[v]
    <3>1. CASE New(v)
      <4>1. s.predecessor[v] = u /\ s.cost[u] = side.cost[u]
        BY <3>1, <2>6, <2>8
      <4>2. ranked[u] = rank[u] /\ ranked[v] = rank[u] + 1
        BY <3>1, <2>6, <2>12
      <4>3. side.cost[u] < INF
        BY <2>2, <2>4, InfAssumption
      <4>4. QED
        BY <4>1, <4>2, <4>3, <2>11
    <3>2. CASE ~ New(v)
      <4>1. s.predecessor[v] = side.predecessor[v] /\ side.cost[v] < INF
        BY <3>2, <2>8, <2>13
      <4> DEFINE w == side.predecessor[v]
      <4>2. w \in side.finished /\ side.cost[w] < INF /\ rank[w] < rank[v]
        BY <4>1, <2>9, <1>2 DEF IsTree, Descends
      <4>3. w \in Vertex /\ ~ New(w)
        BY <4>2, <2>7, <2>10
      <4>4. s.cost[w] = side.cost[w]
        BY <4>3, <2>8
      <4>5. ranked[w] = rank[w] /\ ranked[v] = rank[v]
        BY <4>3, <3>2, <2>12
      <4>6. QED
        BY <4>1, <4>2, <4>4, <4>5
    <3>3. QED
      BY <3>1, <3>2
  <2>14. /\ s.cost[root] < INF /\ s.predecessor[root] = root /\ ranked[root] = 0
    <3>1. rank[root] = 0
      BY <1>2 DEF Descends
    <3>2. QED
      BY <3>1, <2>5, <2>8, <2>12, <1>3, InfAssumption
  <2>15. Descends(s, root, ranked)
    BY <2>3, <2>12, <2>13, <2>14 DEF Descends
  <2>16. QED
    BY <2>12, <2>15 DEF IsRanked, s
<1>6. QED
  BY <1>4, <1>5

\* The initial states have them,
LEMMA InitWaysBack == Init => WaysBack
<1>1. Min(Vertex) \in Vertex
  BY VertexAssumption, MinOfNaturals
<1>2. QED
  BY <1>1, RootedIsRanked DEF Init, WaysBack

\* and every step keeps them.
LEMMA NextWaysBack == SearchInv /\ WaysBack /\ [Next]_vars => WaysBack'
<1> SUFFICES ASSUME SearchInv, WaysBack, [Next]_vars PROVE WaysBack'
  OBVIOUS
<1>1. /\ graph \in SUBSET Arc /\ Reversed(graph) \in SUBSET Arc
      /\ query.source \in Vertex /\ query.target \in Vertex
      /\ SideInv(forward, graph, query.source)
      /\ SideInv(backward, Reversed(graph), query.target)
  BY GraphsAssumption, ReversedArcs DEF SearchInv, TypeOK, Query
<1>2. IsRanked(forward, query.source) /\ IsRanked(backward, query.target)
  BY DEF WaysBack
<1>3. CASE pgr_bdDijkstra
  <2>1. PICK s \in Vertex, t \in Vertex, only_cost \in BOOLEAN : Ask(s, t, only_cost)
    BY <1>3 DEF pgr_bdDijkstra
  <2>2. /\ query'.source = s /\ query'.target = t
        /\ forward' = Rooted(s) /\ backward' = Rooted(t)
    BY <2>1 DEF Ask
  <2>3. QED
    BY <2>2, RootedIsRanked DEF WaysBack
<1>4. CASE StepForward
  <2>1. PICK f \in forward.queue :
          IsTop(f, forward.queue) /\ f[1] < INF /\ forward' = Settle(forward, graph, f)
    BY <1>4 DEF StepForward, Continue
  <2>2. UNCHANGED <<query, backward>>
    BY <1>4 DEF StepForward
  <2>3. IsRanked(Settle(forward, graph, f), query.source)
    BY <1>1, <1>2, <2>1, SettleKeepsRanks
  <2>4. QED
    BY <2>1, <2>2, <2>3, <1>2 DEF WaysBack
<1>5. CASE StepBackward
  <2>1. PICK b \in backward.queue :
          IsTop(b, backward.queue) /\ b[1] < INF /\ backward' = Settle(backward, Reversed(graph), b)
    BY <1>5 DEF StepBackward, Continue
  <2>2. UNCHANGED <<query, forward>>
    BY <1>5 DEF StepBackward
  <2>3. IsRanked(Settle(backward, Reversed(graph), b), query.target)
    BY <1>1, <1>2, <2>1, SettleKeepsRanks
  <2>4. QED
    BY <2>1, <2>2, <2>3, <1>2 DEF WaysBack
<1>6. CASE Exhausted \/ Return \/ UNCHANGED vars
  BY <1>2, <1>6 DEF Exhausted, Return, vars, WaysBack
<1>7. QED
  BY <1>3, <1>4, <1>5, <1>6 DEF Next

----------------------------------------------------------------------------
(***************************************************************************)
(* The rows of the Path that is returned.                                  *)
(***************************************************************************)
IsList(x) == \E X : x \in Seq(X)

\* The edges of a name that leave a vertex make rows, one at least if there is any.
LEMMA RowsAreLists ==
  ASSUME graph \in Graphs, NEW u, NEW id
  PROVE  /\ IsList(RowsOf(u, id))
         /\ (\E a \in graph : a.from = u /\ a.id = id) => RowsOf(u, id) # <<>>
<1> DEFINE named == {b \in OutArcs(graph, u) : b.id = id}
           nth(i) == CHOOSE a \in named : Cardinality({b \in named : b.pos <= a.pos}) = i
           row(i) == [node |-> u, edge |-> id, cost |-> nth(i).cost, pos |-> nth(i).pos]
           n == Cardinality(named)
<1>1. IsFiniteSet(graph)
  BY GraphsAssumption
<1>2. named \subseteq graph /\ ((\E a \in graph : a.from = u /\ a.id = id) => named # {})
  BY DEF OutArcs
<1>3. IsFiniteSet(named)
  BY <1>1, <1>2, FS_Subset
<1>4. n \in Nat /\ (named # {} => n # 0)
  BY <1>3, FS_CardinalityType, FS_EmptySet
<1>5. RowsOf(u, id) = [i \in 1..n |-> row(i)]
  BY DEF RowsOf
<1> HIDE DEF named, nth, row, n
<1>6. /\ [i \in 1..n |-> row(i)] \in Seq({row(i) : i \in 1..n})
      /\ n # 0 => [i \in 1..n |-> row(i)] # <<>>
  <2> DEFINE f == [i \in 1..n |-> row(i)]
  <2>1. DOMAIN f = 1..n /\ f \in [1..n -> {row(i) : i \in 1..n}]
    OBVIOUS
  <2> DEFINE X == {row(i) : i \in 1..n}
  <2> HIDE DEF f, X
  <2>2. f \in Seq(X) /\ Len(f) = n
    <3>1. f \in [1..n -> X]
      BY <2>1 DEF X
    <3>2. QED
      BY <3>1, <1>4, FunctionIsList
  <2>3. n # 0 => f # <<>>
    BY <2>2, <1>4
  <2>4. QED
    BY <2>2, <2>3 DEF f, X
<1>7. QED
  BY <1>2, <1>4, <1>5, <1>6 DEF IsList

\* get_edge_id finds an edge between the vertices of an arc.
LEMMA EdgeIsFound ==
  ASSUME graph \in Graphs, NEW a \in graph
  PROVE  \E b \in graph : /\ b.from = a.from /\ b.to = a.to
                          /\ b.id = EdgeId(graph, a.from, a.to, a.cost)
<1> DEFINE exact == {b \in graph : b.from = a.from /\ b.to = a.to /\ b.cost = a.cost}
           P == {b.pos : b \in exact}
<1>1. \A b \in graph : b.pos \in Nat
  BY GraphsAssumption DEF Arc
<1>2. a \in exact
  OBVIOUS
<1>3. P \in SUBSET Nat /\ P # {}
  BY <1>1, <1>2
<1>4. Min(P) \in P /\ \A x \in P : Min(P) <= x
  BY <1>3, MinOfNaturals
<1>5. \E b \in exact : \A x \in exact : b.pos <= x.pos
  BY <1>4
<1>6. First(exact) \in exact
  BY <1>5 DEF First
<1>7. EdgeId(graph, a.from, a.to, a.cost) = First(exact).id
  BY <1>2 DEF EdgeId
<1>8. QED
  BY <1>6, <1>7

\* The difference of two labels is the cost of the arc between them, whichever is the
\* greater one.
LEMMA DifferenceIsCost ==
  ASSUME graph \in Graphs, NEW a \in graph, NEW cost, cost[a.from] \in Nat, cost[a.to] \in Nat,
         cost[a.to] = cost[a.from] + a.cost \/ cost[a.from] = cost[a.to] + a.cost
  PROVE  StepEdge(cost, a.from, a.to) = EdgeId(graph, a.from, a.to, a.cost)
<1> DEFINE x == cost[a.to] - cost[a.from]
           y == cost[a.from] - cost[a.to]
<1>1. a.cost \in Nat
  BY GraphsAssumption DEF Arc
<1>2. x \in Int /\ y \in Int /\ a.cost \in {x, y} /\ x <= a.cost /\ y <= a.cost
  BY <1>1
<1> HIDE DEF x, y
<1>3. Max({x, y}) = a.cost
  <2>1. \A m \in {x, y} : (\A z \in {x, y} : m >= z) => m = a.cost
    BY <1>1, <1>2
  <2>2. \A z \in {x, y} : a.cost >= z
    BY <1>1, <1>2
  <2>3. QED
    BY <1>2, <2>1, <2>2 DEF Max
<1>4. QED
  BY <1>3 DEF StepEdge, x, y

\* The step along an arc is found again.
LEMMA StepIsFound ==
  ASSUME graph \in Graphs, NEW a \in graph, NEW cost, cost[a.from] \in Nat, cost[a.to] \in Nat,
         cost[a.to] = cost[a.from] + a.cost \/ cost[a.from] = cost[a.to] + a.cost
  PROVE  LET rows == RowsOf(a.from, StepEdge(cost, a.from, a.to))
         IN  IsList(rows) /\ rows # <<>>
<1>1. StepEdge(cost, a.from, a.to) = EdgeId(graph, a.from, a.to, a.cost)
  BY DifferenceIsCost
<1>2. PICK b \in graph : b.from = a.from /\ b.id = EdgeId(graph, a.from, a.to, a.cost)
  BY EdgeIsFound
<1>3. IsList(RowsOf(b.from, b.id)) /\ RowsOf(b.from, b.id) # <<>>
  BY RowsAreLists
<1>4. QED
  BY <1>1, <1>2, <1>3

Flat == INSTANCE Recursion WITH
  Start <- LAMBDA c : c[1],
  Step  <- LAMBDA c, n, x : x \o c[n],
  Pick  <- LAMBDA c, s : CHOOSE x \in s : TRUE,
  Claim <- LAMBDA c, n, x : IsList(x) /\ ((\E k \in 1..n : c[k] # <<>>) => x # <<>>)

\* Lists one after the other.
LEMMA ListsJoined ==
  ASSUME NEW x, IsList(x), NEW y, IsList(y)
  PROVE  IsList(x \o y) /\ (x # <<>> \/ y # <<>> => x \o y # <<>>)
<1>1. PICK X : x \in Seq(X)
  BY DEF IsList
<1>2. PICK Y : y \in Seq(Y)
  BY DEF IsList
<1>3. x \in Seq(X \cup Y) /\ y \in Seq(X \cup Y)
  BY <1>1, <1>2
<1>4. x \o y \in Seq(X \cup Y) /\ Len(x \o y) = Len(x) + Len(y) /\ Len(x) \in Nat /\ Len(y) \in Nat
  BY <1>3
<1>5. x # <<>> => Len(x) # 0
  BY <1>3
<1>6. y # <<>> => Len(y) # 0
  BY <1>3
<1>7. x \o y = <<>> => Len(x \o y) = 0
  OBVIOUS
<1>8. IsList(x \o y)
  BY <1>4 DEF IsList
<1>9. QED
  BY <1>4, <1>5, <1>6, <1>7, <1>8

\* Rows put together are none only when there are none.
LEMMA FlattenedLists ==
  ASSUME NEW n \in Nat \ {0}, NEW c, Len(c) = n, \A i \in 1..n : IsList(c[i]),
         NEW k \in 1..n, c[k] # <<>>
  PROVE  IsList(FlattenSeq(c)) /\ FlattenSeq(c) # <<>>
<1>1. FlattenSeq(c) = Flat!Counted(c, 1, n)[n]
  BY DEF FlattenSeq, Flat!Counted, Flat!IsCounted
<1> DEFINE Ok(i, x) == IsList(x) /\ ((\E j \in 1..i : c[j] # <<>>) => x # <<>>)
<1>2. Ok(1, c[1])
  <2>1. 1 \in 1..n /\ \A j \in 1..1 : j = 1
    OBVIOUS
  <2>2. QED
    BY <2>1
<1>3. \A i \in 1 + 1..n : \A x : Ok(i - 1, x) => Ok(i, x \o c[i])
  <2>1. SUFFICES ASSUME NEW i \in 1 + 1..n, NEW x, Ok(i - 1, x) PROVE Ok(i, x \o c[i])
    OBVIOUS
  <2>2. i \in 1..n /\ \A j \in 1..i : j \in 1..i - 1 \/ j = i
    OBVIOUS
  <2>3. IsList(x) /\ IsList(c[i])
    BY <2>1, <2>2
  <2>4. IsList(x \o c[i]) /\ (x # <<>> \/ c[i] # <<>> => x \o c[i] # <<>>)
    BY <2>3, ListsJoined
  <2>5. ASSUME NEW j \in 1..i, c[j] # <<>> PROVE x # <<>> \/ c[i] # <<>>
    BY <2>1, <2>2, <2>5
  <2>6. QED
    BY <2>4, <2>5
<1>4. \A i \in 1..n : Ok(i, Flat!Counted(c, 1, n)[i])
  <2>1. 1 \in Int /\ n \in Int
    OBVIOUS
  <2>2. QED
    BY ONLY <1>2, <1>3, <2>1, Flat!CountedClaim, Zenon
<1>5. n \in 1..n
  OBVIOUS
<1>6. QED
  BY <1>1, <1>4, <1>5

\* Two lists, one after the other.
LEMMA JoinedAt ==
  ASSUME NEW d \in Nat, NEW e \in Nat, NEW f, NEW g,
         f = [i \in 1..d |-> f[i]], g = [i \in 1..e |-> g[i]]
  PROVE  /\ IsList(f \o g) /\ Len(f \o g) = d + e
         /\ \A i \in 1..d : (f \o g)[i] = f[i]
         /\ \A i \in 1..e : (f \o g)[d + i] = g[i]
<1> DEFINE X == {f[i] : i \in 1..d} \cup {g[i] : i \in 1..e}
<1>1. f \in [1..d -> X] /\ g \in [1..e -> X]
  OBVIOUS
<1> HIDE DEF X
<1>2. f \in Seq(X) /\ Len(f) = d /\ g \in Seq(X) /\ Len(g) = e
  BY <1>1, FunctionIsList
<1>3. f \o g \in Seq(X) /\ Len(f \o g) = d + e
  BY <1>2
<1>4. ASSUME NEW i \in 1..d PROVE (f \o g)[i] = f[i]
  <2>1. i \in 1..Len(f) + Len(g) /\ i <= Len(f)
    BY <1>2
  <2>2. QED
    BY <2>1, <1>2
<1>5. ASSUME NEW i \in 1..e PROVE (f \o g)[d + i] = g[i]
  <2>1. Len(f) + i \in 1..Len(f) + Len(g) /\ ~ (Len(f) + i <= Len(f)) /\ Len(f) + i - Len(f) = i
    BY <1>2
  <2>2. (f \o g)[Len(f) + i] = g[Len(f) + i - Len(f)]
    BY <2>1, <1>2
  <2>3. QED
    BY <2>1, <2>2, <1>2
<1>6. QED
  BY <1>3, <1>4, <1>5 DEF IsList

\* The rows of the two halves of the path, when the step before or the step behind the
\* meeting has any.
LEMMA LegsJoined ==
  ASSUME NEW d \in Nat, NEW e \in Nat, NEW f, NEW g,
         f = [i \in 1..d |-> f[i]], g = [i \in 1..e |-> g[i]],
         \A i \in 1..d : IsList(f[i]), \A i \in 1..e : IsList(g[i]),
         (d > 0 /\ f[d] # <<>>) \/ (e > 0 /\ g[1] # <<>>)
  PROVE  IsList(FlattenSeq(f \o g)) /\ FlattenSeq(f \o g) # <<>>
<1> DEFINE c == f \o g
<1>1. /\ Len(c) = d + e
      /\ \A i \in 1..d : c[i] = f[i]
      /\ \A i \in 1..e : c[d + i] = g[i]
  BY JoinedAt
<1> HIDE DEF c
<1>2. ASSUME NEW i \in 1..d + e PROVE IsList(c[i])
  <2>1. CASE i <= d
    <3>1. i \in 1..d
      BY <2>1
    <3>2. QED
      BY <3>1, <1>1
  <2>2. CASE ~ (i <= d)
    <3>1. PICK j : j = i - d
      OBVIOUS
    <3>2. j \in 1..e /\ i = d + j
      BY <2>2, <3>1, SMTT(40)
    <3>3. c[i] = g[j]
      BY <3>2, <1>1
    <3>4. QED
      BY <3>2, <3>3
  <2>3. QED
    BY <2>1, <2>2
<1>3. d + e \in Nat \ {0} /\ \E k \in 1..d + e : c[k] # <<>>
  <2>1. CASE d > 0 /\ f[d] # <<>>
    <3>1. d \in 1..d /\ d \in 1..d + e /\ d + e \in Nat \ {0}
      BY <2>1
    <3>2. c[d] # <<>>
      BY <3>1, <2>1, <1>1
    <3>3. QED
      BY <3>1, <3>2
  <2>2. CASE e > 0 /\ g[1] # <<>>
    <3>1. 1 \in 1..e /\ d + 1 \in 1..d + e /\ d + e \in Nat \ {0}
      BY <2>2
    <3>2. c[d + 1] # <<>>
      BY <3>1, <2>2, <1>1
    <3>3. QED
      BY <3>1, <3>2
  <2>3. QED
    BY <2>1, <2>2
<1>4. IsList(FlattenSeq(c)) /\ FlattenSeq(c) # <<>>
  BY <1>1, <1>2, <1>3, FlattenedLists
<1>5. QED
  BY <1>4 DEF c

\* The lists that are put together, step by step.
Outward(there, d) == [i \in 1..d |-> RowsOf(there[i], StepEdge(forward.cost, there[i], there[i + 1]))]

StepAway(u, v) == RowsOf(u, StepEdge(backward.cost, u, v))

Homeward(back, e) == [i \in 1..e |-> StepAway(back[(e + 1) - i + 1], back[(e + 1) - i])]

\* The path is made of them.
LEMMA RowsOfPath ==
  ASSUME NEW there, NEW back, NEW d \in Nat, NEW e \in Nat,
         Len(there) = d + 1, Len(back) = e + 1
  PROVE  PathRows(there, back) = FlattenSeq(Outward(there, d) \o Homeward(back, e))
<1> DEFINE f(m) == [i \in 1..m |-> RowsOf(there[i], StepEdge(forward.cost, there[i], there[i + 1]))]
           g(m, l) == [i \in 1..m |-> StepAway(back[l - i + 1], back[l - i])]
<1>1. PathRows(there, back) = FlattenSeq(f(Len(there) - 1) \o g(Len(back) - 1, Len(back)))
  BY DEF PathRows, StepAway
<1>2. Outward(there, d) = f(d) /\ Homeward(back, e) = g(e, e + 1)
  BY DEF Outward, Homeward
<1>3. Len(there) - 1 = d /\ Len(back) - 1 = e
  OBVIOUS
<1> HIDE DEF f, g
<1>4. QED
  BY <1>1, <1>2, <1>3

\* The path that is put together has rows, if its ends are two vertices.
LEMMA PathHasRows ==
  ASSUME SearchInv, WaysBack,
         best_cost < INF, query.source # query.target
  PROVE  LET rows == PathRows(TreeWalk(forward, v_min_node), TreeWalk(backward, v_min_node))
         IN  IsList(rows) /\ rows # <<>>
<1> DEFINE v == v_min_node
           there == TreeWalk(forward, v)
           back == TreeWalk(backward, v)
<1>1. /\ graph \in Graphs /\ forward \in Side /\ backward \in Side
      /\ query.source \in Vertex /\ query.target \in Vertex /\ v \in Vertex
      /\ IsTree(forward, graph, query.source)
      /\ IsTree(backward, Reversed(graph), query.target)
  BY DEF SearchInv, SideInv, TypeOK, Query
<1>2. forward.cost[v] < INF /\ backward.cost[v] < INF
  BY DEF SearchInv, MeetingIsFinal, SideInv, Labelled
<1>3. \A w \in Vertex : /\ forward.cost[w] \in Nat /\ backward.cost[w] \in Nat
                        /\ forward.predecessor[w] \in Vertex /\ backward.predecessor[w] \in Vertex
  BY <1>1, InfAssumption DEF Side
<1>4. PICK d \in Nat : IsWalk(there, d, forward, query.source, v)
  BY <1>1, <1>2, WalkDescends DEF WaysBack
<1>5. PICK e \in Nat : IsWalk(back, e, backward, query.target, v)
  BY <1>1, <1>2, WalkDescends DEF WaysBack
<1> HIDE DEF there, back
<1> DEFINE f == Outward(there, d)
           g == Homeward(back, e)
<1>6. PathRows(there, back) = FlattenSeq(f \o g)
  <2>1. Len(there) = d + 1 /\ Len(back) = e + 1
    BY <1>4, <1>5 DEF IsWalk
  <2>2. QED
    BY <2>1, RowsOfPath
<1>7. /\ f = [i \in 1..d |-> f[i]] /\ g = [i \in 1..e |-> g[i]]
      /\ \A i \in 1..d : IsList(f[i])
      /\ \A i \in 1..e : IsList(g[i])
  BY <1>1, RowsAreLists DEF Outward, Homeward, StepAway
<1>8. ASSUME d > 0, v # query.source PROVE f[d] # <<>>
  <2>1. PICK a \in graph : /\ a.from = forward.predecessor[v] /\ a.to = v
                           /\ forward.cost[v] = forward.cost[a.from] + a.cost
    BY <1>1, <1>2, <1>8 DEF IsTree
  <2>2. RowsOf(a.from, StepEdge(forward.cost, a.from, a.to)) # <<>>
    BY <2>1, <1>1, <1>3, StepIsFound
  <2>3. f[d] = RowsOf(there[d], StepEdge(forward.cost, there[d], there[d + 1]))
    BY <1>8 DEF Outward
  <2>4. d \in 1..d
    BY <1>8
  <2>5. there[d + 1] = v /\ there[d] = forward.predecessor[there[d + 1]]
    BY <2>4, <1>4 DEF IsWalk
  <2>6. QED
    BY <2>1, <2>2, <2>3, <2>5
<1>9. ASSUME e > 0, v # query.target PROVE g[1] # <<>>
  <2>1. PICK r \in Reversed(graph) : /\ r.from = backward.predecessor[v] /\ r.to = v
                                     /\ backward.cost[v] = backward.cost[r.from] + r.cost
    BY <1>1, <1>2, <1>9 DEF IsTree
  <2>2. PICK a \in graph : a.from = r.to /\ a.to = r.from /\ a.cost = r.cost
    BY <1>1, GraphsAssumption DEF Reversed, Arc
  <2>3. RowsOf(a.from, StepEdge(backward.cost, a.from, a.to)) # <<>>
    BY <2>1, <2>2, <1>1, <1>3, StepIsFound
  <2>4. 1 \in 1..e /\ (e + 1) - 1 + 1 = e + 1 /\ (e + 1) - 1 = e
    BY <1>9
  <2>5. g[1] = StepAway(back[e + 1], back[e])
    BY <2>4 DEF Homeward
  <2>6. e \in 1..e /\ back[e + 1] = v /\ back[e] = backward.predecessor[v]
    BY <1>5, <1>9 DEF IsWalk
  <2>7. QED
    BY <2>1, <2>2, <2>3, <2>5, <2>6 DEF StepAway
<1>10. (d > 0 /\ f[d] # <<>>) \/ (e > 0 /\ g[1] # <<>>)
  <2>1. (d = 0 => v = query.source) /\ (e = 0 => v = query.target)
    <3>1. 0 + 1 = 1
      OBVIOUS
    <3>2. QED
      BY <3>1, <1>4, <1>5 DEF IsWalk
  <2>2. (v # query.source => d > 0) /\ (v # query.target => e > 0)
    BY <2>1
  <2>3. QED
    BY <2>2, <1>8, <1>9
<1> HIDE DEF f, g
<1>11. IsList(FlattenSeq(f \o g)) /\ FlattenSeq(f \o g) # <<>>
  BY <1>7, <1>10, LegsJoined
<1>12. QED
  BY <1>6, <1>11 DEF there, back

\* A meeting of two vertices is answered.
LEMMA MeetingIsAnswered ==
  ASSUME SearchInv, WaysBack,
         best_cost < INF, query.source # query.target, Return
  PROVE  answer' # <<>>
<1>1. PICK rows : rows = PathRows(TreeWalk(forward, v_min_node), TreeWalk(backward, v_min_node))
  OBVIOUS
<1>2. IsList(rows) /\ rows # <<>>
  BY <1>1, PathHasRows
<1> DEFINE listed == [i \in DOMAIN rows |->
                        [node |-> rows[i].node, edge |-> rows[i].edge, cost |-> rows[i].cost]]
<1>3. answer' = IF best_cost = INF \/ rows = <<>> THEN <<>>
                ELSE IF query.only_cost THEN <<LastRow(TotalCost(rows))>>
                ELSE Append(listed, LastRow(0))
  BY <1>1 DEF Return
<1>4. best_cost # INF
  BY InfAssumption DEF SearchInv, TypeOK
<1>5. Append(listed, LastRow(0)) # <<>>
  <2>1. PICK X : rows \in Seq(X)
    BY <1>2 DEF IsList
  <2>2. DOMAIN rows = 1..Len(rows) /\ Len(rows) \in Nat
    BY <2>1
  <2> DEFINE Y == {listed[i] : i \in 1..Len(rows)}
  <2>3. listed \in [1..Len(rows) -> Y]
    BY <2>2
  <2> HIDE DEF listed, Y
  <2>4. listed \in Seq(Y) /\ Len(listed) = Len(rows)
    BY <2>2, <2>3, FunctionIsList
  <2>5. PICK r : r = LastRow(0)
    OBVIOUS
  <2>6. Append(listed, r) \in Seq(Y \cup {r}) /\ Len(Append(listed, r)) = Len(listed) + 1
    BY <2>4
  <2>7. Append(listed, r) # <<>>
    BY <2>6, <2>4, <2>2
  <2>8. QED
    BY <2>5, <2>7
<1>6. <<LastRow(TotalCost(rows))>> # <<>>
  OBVIOUS
<1> HIDE DEF listed
<1>7. QED
  BY <1>2, <1>3, <1>4, <1>5, <1>6

----------------------------------------------------------------------------
(***************************************************************************)
(* Neither queue runs empty first.                                         *)
(***************************************************************************)
\* A queue that is not empty has a top.
LEMMA TopExists ==
  ASSUME NEW side \in Side, side.queue # {}
  PROVE  \E q \in side.queue : IsTop(q, side.queue)
<1> DEFINE Q == side.queue
           K == {q[1] : q \in Q}
           k == Min(K)
           V == {v \in Vertex : <<k, v>> \in Q}
           v == Min(V)
<1>1. Q \subseteq Nat \X Vertex /\ Q # {}
  BY DEF Side
<1>2. K \in SUBSET Nat /\ K # {}
  BY <1>1
<1>3. k \in K /\ \A x \in K : k <= x
  BY <1>2, MinOfNaturals
<1> HIDE DEF k
<1>4. V \in SUBSET Nat /\ V # {}
  <2>1. PICK r \in Q : r[1] = k
    BY <1>3
  <2>2. r = <<k, r[2]>> /\ r[2] \in Vertex
    BY <2>1, <1>1
  <2>3. r[2] \in V
    BY <2>1, <2>2
  <2>4. QED
    BY <2>3, VertexAssumption
<1>5. v \in V /\ \A x \in V : v <= x
  BY <1>4, MinOfNaturals
<1> HIDE DEF v
<1>6. ASSUME NEW r \in Q PROVE k < r[1] \/ (k = r[1] /\ v <= r[2])
  <2>1. r[1] \in Nat /\ r[2] \in Vertex /\ r = <<r[1], r[2]>> /\ k <= r[1] /\ k \in Nat
    BY <1>1, <1>2, <1>3
  <2>2. k = r[1] => r[2] \in V
    BY <2>1
  <2>3. QED
    BY <2>1, <2>2, <1>5
<1>7. <<k, v>> \in Q /\ IsTop(<<k, v>>, Q)
  BY <1>5, <1>6 DEF IsTop
<1>8. QED
  BY <1>7

\* A side with an empty queue has finished all it can reach.
LEMMA EmptyIsComplete ==
  ASSUME NEW arcs \in SUBSET Arc, NEW root \in Vertex,
         NEW side, SideInv(side, arcs, root), side.queue = {}
  PROVE  /\ \A v \in Vertex : side.cost[v] < INF => v \in side.finished
         /\ \A a \in arcs : side.cost[a.to] <= side.cost[a.from] + a.cost
<1>1. \A v \in Vertex : side.cost[v] \in 0..INF
  BY DEF SideInv, Side
<1>2. \A v \in Vertex : side.cost[v] < INF => v \in side.finished
  BY DEF SideInv, Labelled
<1>3. ASSUME NEW a \in arcs PROVE side.cost[a.to] <= side.cost[a.from] + a.cost
  <2>1. a.from \in Vertex /\ a.to \in Vertex /\ a.cost \in Nat
    BY DEF Arc
  <2>2. CASE a.from \in side.finished
    BY <2>2 DEF SideInv, Settled
  <2>3. CASE a.from \notin side.finished
    <3>1. side.cost[a.from] = INF
      BY <2>1, <2>3, <1>1, <1>2, InfAssumption
    <3>2. QED
      BY <3>1, <2>1, <1>1, InfAssumption
  <2>4. QED
    BY <2>2, <2>3
<1>4. QED
  BY <1>2, <1>3

\* No potential exceeds the distance.
LEMMA BelowDistance ==
  ASSUME NEW arcs \in SUBSET Arc, NEW root \in Vertex, NEW v \in Vertex,
         NEW D, Potential(arcs, root, D)
  PROVE  D[v] <= Distance(arcs, root, v)
<1>1. PICK G : IsGreatest(arcs, root, G)
  BY GreatestExists
<1>2. Distance(arcs, root, v) = G[v]
  BY <1>1, DistanceIsGreatest
<1>3. QED
  BY <1>1, <1>2 DEF IsGreatest, Potential

\* What there is a way to, the forward side has finished when its queue is empty,
LEMMA ForwardSeesTarget ==
  ASSUME NEW arcs \in SUBSET Arc, NEW s \in Vertex, NEW t \in Vertex,
         NEW side, SideInv(side, arcs, s), side.queue = {}, Distance(arcs, s, t) < INF
  PROVE  t \in side.finished
<1>1. side.cost \in [Vertex -> 0..INF] /\ side.cost[s] = 0
  BY DEF SideInv, Side, Labelled
<1>2. Potential(arcs, s, side.cost)
  BY <1>1, EmptyIsComplete DEF Potential
<1>3. side.cost[t] <= Distance(arcs, s, t) /\ Distance(arcs, s, t) \in 0..INF
  BY <1>2, BelowDistance, DistanceFacts
<1>4. side.cost[t] < INF
  BY <1>1, <1>3, InfAssumption
<1>5. QED
  BY <1>4, EmptyIsComplete

\* and so has the backward side the vertex the way begins at: what is left of INF
\* would be a potential otherwise.
LEMMA BackwardSeesSource ==
  ASSUME NEW arcs \in SUBSET Arc, NEW s \in Vertex, NEW t \in Vertex,
         NEW side, SideInv(side, Reversed(arcs), t), side.queue = {}, Distance(arcs, s, t) < INF
  PROVE  s \in side.finished
<1> DEFINE D == [v \in Vertex |-> INF - side.cost[v]]
<1>1. side.cost \in [Vertex -> 0..INF] /\ side.cost[t] = 0
  BY DEF SideInv, Side, Labelled
<1>2. Reversed(arcs) \in SUBSET Arc
  BY ReversedArcs
<1>3. SUFFICES ASSUME side.cost[s] = INF PROVE FALSE
  <2>1. side.cost[s] # INF => side.cost[s] < INF
    BY <1>1, InfAssumption
  <2>2. side.cost[s] < INF => s \in side.finished
    BY <1>2, EmptyIsComplete
  <2>3. QED
    BY <2>1, <2>2
<1>4. ASSUME NEW a \in arcs PROVE D[a.to] <= D[a.from] + a.cost
  <2>1. a.from \in Vertex /\ a.to \in Vertex /\ a.cost \in Nat
    BY DEF Arc
  <2>2. PICK r \in Reversed(arcs) : r.from = a.to /\ r.to = a.from /\ r.cost = a.cost
    <3>1. [a EXCEPT !.from = a.to, !.to = a.from] \in Reversed(arcs)
      BY DEF Reversed
    <3>2. QED
      BY <3>1 DEF Arc
  <2>3. side.cost[a.from] <= side.cost[a.to] + a.cost
    BY <1>2, <2>2, EmptyIsComplete
  <2>4. D[a.to] = INF - side.cost[a.to] /\ D[a.from] = INF - side.cost[a.from]
    BY <2>1
  <2>5. side.cost[a.from] \in Int /\ side.cost[a.to] \in Int /\ INF \in Int
    BY <1>1, <2>1, InfAssumption
  <2>6. QED
    BY <2>1, <2>3, <2>4, <2>5
<1>5. D \in [Vertex -> 0..INF] /\ D[s] = 0 /\ D[t] = INF
  BY <1>1, <1>3, InfAssumption
<1>6. Potential(arcs, s, D)
  BY <1>4, <1>5 DEF Potential
<1> HIDE DEF D
<1>7. D[t] <= Distance(arcs, s, t) /\ Distance(arcs, s, t) \in 0..INF
  BY <1>6, BelowDistance, DistanceFacts
<1>8. QED
  BY <1>5, <1>7, InfAssumption

\* What settling the top does to the root, and to the set of finished vertices.
LEMMA SettleKeepsRoot ==
  ASSUME NEW arcs, NEW root, NEW side, NEW q, Settling(side, arcs, root, q),
         side.predecessor[root] = root
  PROVE  /\ Settle(side, arcs, q).predecessor[root] = root
         /\ Settle(side, arcs, q).finished = side.finished \cup {q[2]}
<1> DEFINE p == Pop(side, q)
           s == Settle(side, arcs, q)
<1>0. /\ arcs \in SUBSET Arc /\ root \in Vertex
      /\ SideInv(side, arcs, root) /\ IsTop(q, side.queue) /\ q[1] < INF
  BY DEF Settling
<1>1. PICK k \in Nat, u \in Vertex : q = <<k, u>>
  BY <1>0 DEF SideInv, Side, IsTop
<1>2. /\ p \in Side /\ p.cost = side.cost /\ p.finished = side.finished
      /\ p.predecessor = side.predecessor /\ side.cost[root] = 0
  BY <1>0, <1>1 DEF Pop, SideInv, Side, IsTop, Labelled
<1>3. CASE u \in side.finished
  BY <1>1, <1>2, <1>3 DEF Settle
<1>4. CASE u \notin side.finished
  <2>1. Explored(s, p, arcs, u, k)
    <3>1. s = Explore(p, arcs, u, k, NoEstimate)
      BY <1>1, <1>4 DEF Settle
    <3>2. QED
      BY <1>0, <1>1, <1>2, <3>1, ExploreEffect
  <2> HIDE DEF s, p
  <2>2. s.cost[root] \in Nat
    BY <1>0, <2>1, InfAssumption DEF Explored, Side
  <2>3. ~ Improved(s, p, arcs, u, k, root)
    BY <2>2, <1>2 DEF Improved
  <2>4. Untouched(s, p, root)
    BY <1>0, <2>1, <2>3 DEF Explored
  <2>5. s.predecessor[root] = root /\ s.finished = side.finished \cup {u}
    BY <2>1, <2>4, <1>2 DEF Untouched, Explored
  <2>6. QED
    BY <2>5, <1>1 DEF s
<1>5. QED
  BY <1>3, <1>4

----------------------------------------------------------------------------
(***************************************************************************)
(* Connected vertices meet.                                                *)
(***************************************************************************)
RootsKept ==
  /\ forward.predecessor[query.source] = query.source
  /\ backward.predecessor[query.target] = query.target

\* No vertex that both sides have finished is a better meeting.
BestIsLeast ==
  \A v \in forward.finished \cap backward.finished :
    best_cost <= forward.cost[v] + backward.cost[v]

\* The two roots are finished first, each by its own side.
RootsFirst ==
  status = "searching" /\ PositiveCosts =>
    /\ \/ query.target \in backward.finished
       \/ backward = Rooted(query.target) /\ forward.finished \subseteq {query.source}
    /\ \/ query.source \in forward.finished
       \/ forward = Rooted(query.source) /\ backward.finished = {}

Connected ==
  /\ query.source # query.target /\ PositiveCosts
  /\ Distance(graph, query.source, query.target) < INF

\* The loop is left with a meeting.
HasMet == status \in {"stopped", "answered"} /\ Connected => best_cost < INF

MeetingInv == RootsKept /\ BestIsLeast /\ RootsFirst /\ HasMet /\ FoundWhenConnected

\* Along positive costs the labels fall towards the root.
LEMMA PositiveFalls ==
  ASSUME graph \in SUBSET Arc, PositiveCosts,
         NEW root \in Vertex, NEW side, SideInv(side, graph, root),
         NEW v \in Vertex \ {root}, side.cost[v] < INF
  PROVE  side.cost[side.predecessor[v]] < side.cost[v]
<1>1. side \in Side /\ IsTree(side, graph, root)
  BY DEF SideInv
<1>2. PICK a \in graph : /\ a.from = side.predecessor[v] /\ a.to = v
                        /\ side.cost[v] = side.cost[a.from] + a.cost
  BY <1>1 DEF IsTree
<1>3. a.from \in Vertex /\ a.cost \in Nat /\ a.cost > 0
  BY DEF Arc, PositiveCosts
<1>4. side.cost[a.from] \in Nat
  BY <1>1, <1>3, InfAssumption DEF Side
<1>5. side.cost[a.from] < side.cost[v]
  BY <1>2, <1>3, <1>4
<1>6. QED
  BY <1>2, <1>5

\* With positive costs a label of zero is that of the root.
LEMMA ZeroIsRoot ==
  ASSUME graph \in SUBSET Arc, PositiveCosts,
         NEW root \in Vertex, NEW side, SideInv(side, graph, root),
         NEW v \in Vertex, side.cost[v] <= 0
  PROVE  v = root
<1>1. SUFFICES ASSUME v # root PROVE FALSE
  OBVIOUS
<1>2. side.cost[v] \in Nat /\ side.predecessor[v] \in Vertex
  BY InfAssumption DEF SideInv, Side
<1>3. side.cost[v] < INF
  BY <1>2, InfAssumption
<1>4. side.cost[side.predecessor[v]] < side.cost[v]
  BY <1>1, <1>3, PositiveFalls
<1>5. side.cost[side.predecessor[v]] \in Nat
  BY <1>2, InfAssumption DEF SideInv, Side
<1>6. QED
  BY <1>2, <1>4, <1>5

\* found(), evaluated on the vertex that was finished last, keeps the best meeting.
LEMMA FoundKeepsBest ==
  ASSUME SearchInv, SearchInv', BestIsLeast, NEW u, Found(u),
         \A v \in forward'.finished \cap backward'.finished :
           v = u \/ /\ v \in forward.finished /\ forward'.cost[v] = forward.cost[v]
                    /\ v \in backward.finished /\ backward'.cost[v] = backward.cost[v]
  PROVE  /\ BestIsLeast'
         /\ \/ status' = status
            \/ /\ status' = "stopped"
               /\ Common(u) /\ best_cost' = best_cost /\ best_cost < Through(u)
<1>1. /\ \A v \in Vertex : forward'.cost[v] \in Nat /\ backward'.cost[v] \in Nat
      /\ forward'.finished \subseteq Vertex
  BY InfAssumption DEF SearchInv, SideInv, Side
<1>2. best_cost \in Nat /\ best_cost' \in Nat
  BY DEF SearchInv, TypeOK
<1>3. ASSUME NEW v \in forward'.finished \cap backward'.finished
      PROVE  best_cost' <= forward'.cost[v] + backward'.cost[v]
  <2>1. v \in Vertex /\ forward'.cost[v] \in Nat /\ backward'.cost[v] \in Nat
    BY <1>1
  <2>2. CASE v = u
    <3>1. Common(u) /\ Through(u) = forward'.cost[v] + backward'.cost[v]
      BY <2>2 DEF Common, Through
    <3>2. CASE best_cost >= Through(u) /\ best_cost' = Through(u)
      BY <3>1, <3>2, <2>1
    <3>3. CASE best_cost < Through(u) /\ best_cost' = best_cost
      BY <3>1, <3>3, <2>1, <1>2
    <3>4. QED
      BY <3>1, <3>2, <3>3 DEF Found
  <2>3. CASE v # u
    <3>1. best_cost <= forward'.cost[v] + backward'.cost[v]
      <4>1. /\ v \in forward.finished /\ forward'.cost[v] = forward.cost[v]
            /\ v \in backward.finished /\ backward'.cost[v] = backward.cost[v]
        BY <2>3
      <4>2. QED
        BY <4>1 DEF BestIsLeast
    <3>2. best_cost' <= best_cost
      <4>1. CASE best_cost' = best_cost
        BY <4>1, <1>2
      <4>2. CASE best_cost >= Through(u) /\ best_cost' = Through(u)
        BY <4>2, <1>2
      <4>3. QED
        BY <4>1, <4>2 DEF Found
    <3>3. QED
      BY <3>1, <3>2, <2>1, <1>2
  <2>4. QED
    BY <2>2, <2>3
<1>4. BestIsLeast'
  BY <1>3 DEF BestIsLeast
<1>5. QED
  BY <1>4 DEF Found

\* A search that found() ends has met, when no sum of two distances is too great.
LEMMA FoundHasMet ==
  ASSUME TotalsFit, SearchInv', NEW u, u \in forward'.finished, u \in backward'.finished,
         best_cost' < Through(u)
  PROVE  best_cost' < INF
<1>1. /\ graph' \in Graphs /\ graph' \in SUBSET Arc /\ Reversed(graph') \in SUBSET Arc
      /\ query'.source \in Vertex /\ query'.target \in Vertex
      /\ SideInv(forward', graph', query'.source)
      /\ SideInv(backward', Reversed(graph'), query'.target)
      /\ best_cost' \in Nat
  BY GraphsAssumption, ReversedArcs DEF SearchInv, TypeOK, Query
<1>2. u \in Vertex /\ forward'.cost[u] < INF /\ backward'.cost[u] < INF
      /\ forward'.cost[u] \in Nat /\ backward'.cost[u] \in Nat
  BY <1>1, InfAssumption DEF SideInv, Side, Labelled
<1>3. IsDistance(graph', query'.source, u, forward'.cost[u])
  BY <1>1, SettledIsDistance
<1>4. IsDistance(Reversed(graph'), query'.target, u, backward'.cost[u])
  BY <1>1, SettledIsDistance
<1>5. /\ forward'.cost[u] = Distance(graph', query'.source, u)
      /\ backward'.cost[u] = Distance(Reversed(graph'), query'.target, u)
  BY <1>1, <1>2, <1>3, <1>4, DistanceTheorem
<1>6. Distance(graph', query'.source, u) + Distance(Reversed(graph'), query'.target, u) <= INF
  BY <1>1, <1>2, <1>5 DEF TotalsFit
<1>7. Through(u) = forward'.cost[u] + backward'.cost[u]
  BY DEF Through
<1>8. Through(u) <= INF /\ Through(u) \in Nat
  BY <1>2, <1>5, <1>6, <1>7
<1>9. QED
  BY <1>1, <1>8, InfAssumption

\* Running out of entries, the loop has met the two roots.
LEMMA ExhaustedHasMet ==
  ASSUME SearchInv, RootsFirst, BestIsLeast, Exhausted, Connected
  PROVE  best_cost < INF
<1>1. /\ graph \in SUBSET Arc /\ Reversed(graph) \in SUBSET Arc
      /\ query.source \in Vertex /\ query.target \in Vertex
      /\ SideInv(forward, graph, query.source)
      /\ SideInv(backward, Reversed(graph), query.target)
      /\ forward \in Side /\ backward \in Side /\ best_cost \in Nat
  BY GraphsAssumption, ReversedArcs DEF SearchInv, SideInv, TypeOK, Query
<1>2. /\ status = "searching" /\ query.source # query.target
      /\ Distance(graph, query.source, query.target) < INF
      /\ \/ query.target \in backward.finished
         \/ backward = Rooted(query.target) /\ forward.finished \subseteq {query.source}
      /\ \/ query.source \in forward.finished
         \/ forward = Rooted(query.source) /\ backward.finished = {}
  BY DEF Exhausted, Connected, RootsFirst
<1>3. forward.queue = {} \/ backward.queue = {}
  <2>1. SUFFICES ASSUME forward.queue # {}, backward.queue # {} PROVE FALSE
    OBVIOUS
  <2>2. PICK f \in forward.queue : IsTop(f, forward.queue)
    BY <2>1, <1>1, TopExists
  <2>3. PICK b \in backward.queue : IsTop(b, backward.queue)
    BY <2>1, <1>1, TopExists
  <2>4. f[1] < INF /\ b[1] < INF
    BY <1>1 DEF SideInv, Labelled
  <2>5. Continue(f, b)
    BY <2>2, <2>3, <2>4, <1>2 DEF Continue
  <2>6. QED
    BY <2>5 DEF Exhausted
<1>4. ASSUME NEW v, v \in forward.finished, v \in backward.finished,
             v = query.source \/ v = query.target
      PROVE  best_cost < INF
  <2>1. best_cost <= forward.cost[v] + backward.cost[v]
    BY <1>4 DEF BestIsLeast
  <2>2. v \in Vertex /\ forward.cost[v] < INF /\ backward.cost[v] < INF
    BY <1>1, <1>4 DEF SideInv, Side, Labelled
  <2>3. forward.cost[v] \in Nat /\ backward.cost[v] \in Nat
    BY <1>1, <2>2, InfAssumption DEF Side
  <2>4. forward.cost[v] = 0 \/ backward.cost[v] = 0
    BY <1>1, <1>4 DEF SideInv, Labelled
  <2>5. QED
    BY <2>1, <2>2, <2>3, <2>4, <1>1, InfAssumption
<1>5. CASE forward.queue = {}
  <2>1. query.target \in forward.finished
    BY <1>1, <1>2, <1>5, ForwardSeesTarget
  <2>2. query.target \in backward.finished
    BY <2>1, <1>2
  <2>3. QED
    BY <2>1, <2>2, <1>4
<1>6. CASE backward.queue = {}
  <2>1. query.source \in backward.finished
    BY <1>1, <1>2, <1>6, BackwardSeesSource
  <2>2. query.source \in forward.finished
    BY <2>1, <1>2
  <2>3. QED
    BY <2>1, <2>2, <1>4
<1>7. QED
  BY <1>3, <1>5, <1>6

\* The only entry of a side that has not begun is that of its root.
LEMMA RootedTop ==
  ASSUME NEW root, NEW q, IsTop(q, Rooted(root).queue)
  PROVE  q = <<0, root>> /\ q[1] = 0 /\ q[2] = root
<1>1. q \in {<<0, root>>}
  BY DEF IsTop, Rooted
<1>2. QED
  BY <1>1

\* What the loop leaves behind when found() has been asked.
LEMMA IterationKeepsMeeting ==
  ASSUME TotalsFit, SearchInv, SearchInv', MeetingInv, status = "searching",
         UNCHANGED <<graph, query, answer>>, RootsKept', RootsFirst', NEW u, Found(u),
         \A v \in forward'.finished \cap backward'.finished :
           v = u \/ /\ v \in forward.finished /\ forward'.cost[v] = forward.cost[v]
                    /\ v \in backward.finished /\ backward'.cost[v] = backward.cost[v]
  PROVE  MeetingInv'
<1>1. /\ BestIsLeast'
      /\ \/ status' = status
         \/ /\ status' = "stopped"
            /\ Common(u) /\ best_cost' = best_cost /\ best_cost < Through(u)
  BY FoundKeepsBest DEF MeetingInv
<1>2. HasMet'
  <2>1. CASE status' = status
    BY <2>1 DEF HasMet
  <2>2. CASE Common(u) /\ best_cost' = best_cost /\ best_cost < Through(u)
    <3>1. best_cost' < INF
      BY <2>2, FoundHasMet DEF Common
    <3>2. QED
      BY <3>1 DEF HasMet
  <2>3. QED
    BY <1>1, <2>1, <2>2
<1>3. status' # "answered"
  BY <1>1
<1>4. FoundWhenConnected'
  BY <1>3 DEF FoundWhenConnected
<1>5. QED
  BY <1>1, <1>2, <1>4 DEF MeetingInv

\* The forward side moves.
LEMMA ForwardKeepsMeeting ==
  ASSUME TotalsFit, SearchInv, SearchInv', MeetingInv, StepForward
  PROVE  MeetingInv'
<1> DEFINE s == query.source
           t == query.target
<1>1. /\ graph \in SUBSET Arc /\ s \in Vertex /\ t \in Vertex
      /\ SideInv(forward, graph, s) /\ forward \in Side /\ backward \in Side
  BY GraphsAssumption DEF SearchInv, SideInv, TypeOK, Query
<1>2. PICK f \in forward.queue, b \in backward.queue :
        /\ Continue(f, b) /\ f[1] <= b[1]
        /\ forward' = Settle(forward, graph, f) /\ Found(f[2])
  BY DEF StepForward
<1>3. UNCHANGED <<graph, query, answer, backward>>
  BY DEF StepForward
<1>4. /\ status = "searching"
      /\ IsTop(f, forward.queue) /\ IsTop(b, backward.queue) /\ f[1] < INF
  BY <1>2 DEF Continue
<1>5. f[1] \in Nat /\ f[2] \in Vertex
  BY <1>1, <1>2 DEF Side
<1>6. RootsKept /\ RootsFirst
  BY DEF MeetingInv
<1>7. /\ Settle(forward, graph, f).predecessor[s] = s
      /\ Settle(forward, graph, f).finished = forward.finished \cup {f[2]}
  <2>1. forward.predecessor[s] = s
    BY <1>6 DEF RootsKept
  <2>2. Settling(forward, graph, s, f)
    BY <1>1, <1>2, <1>4 DEF Settling
  <2>3. QED
    BY <2>1, <2>2, SettleKeepsRoot
<1>8. forward'.predecessor[s] = s /\ forward'.finished = forward.finished \cup {f[2]}
  BY <1>2, <1>7
<1>9. \A v \in forward.finished : forward'.cost[v] = forward.cost[v]
  <2>1. Settling(forward, graph, s, f)
    BY <1>1, <1>2, <1>4 DEF Settling
  <2>2. \A v \in forward.finished : Settle(forward, graph, f).cost[v] = forward.cost[v]
    BY <2>1, FinishedStay
  <2>3. QED
    BY <2>2, <1>2
<1>10. RootsKept'
  BY <1>3, <1>6, <1>8 DEF RootsKept
<1>11. ASSUME status' = "searching", PositiveCosts'
       PROVE  /\ t \in backward.finished \/ (backward = Rooted(t) /\ forward'.finished \subseteq {s})
              /\ s \in forward'.finished
  <2>1. PositiveCosts
    BY <1>3, <1>11 DEF PositiveCosts
  <2>2. /\ t \in backward.finished \/ (backward = Rooted(t) /\ forward.finished \subseteq {s})
        /\ s \in forward.finished \/ forward = Rooted(s)
    BY <2>1, <1>4, <1>6 DEF RootsFirst, PositiveCosts
  <2>3. ASSUME backward = Rooted(t) PROVE f[2] = s
    <3>1. b[1] = 0
      BY <2>3, <1>4, RootedTop
    <3>2. forward.cost[f[2]] <= f[1]
      BY <1>1, <1>2 DEF SideInv, Labelled
    <3>3. forward.cost[f[2]] \in Nat
      BY <1>1, <1>5, InfAssumption DEF Side
    <3>4. forward.cost[f[2]] <= 0
      BY <3>1, <3>2, <3>3, <1>2, <1>5
    <3>5. QED
      BY <3>4, <2>1, <1>1, <1>5, ZeroIsRoot
  <2>4. ASSUME forward = Rooted(s) PROVE f[2] = s
    BY <2>4, <1>4, RootedTop
  <2>5. QED
    BY <2>2, <2>3, <2>4, <1>8
<1>12. RootsFirst'
  BY <1>3, <1>11 DEF RootsFirst
<1>13. \A v \in forward'.finished \cap backward'.finished :
         v = f[2] \/ /\ v \in forward.finished /\ forward'.cost[v] = forward.cost[v]
                     /\ v \in backward.finished /\ backward'.cost[v] = backward.cost[v]
  BY <1>3, <1>8, <1>9
<1>14. QED
  BY <1>2, <1>3, <1>4, <1>10, <1>12, <1>13, IterationKeepsMeeting

\* The backward side moves.
LEMMA BackwardKeepsMeeting ==
  ASSUME TotalsFit, SearchInv, SearchInv', MeetingInv, StepBackward
  PROVE  MeetingInv'
<1> DEFINE s == query.source
           t == query.target
           arcs == Reversed(graph)
<1>1. /\ arcs \in SUBSET Arc /\ s \in Vertex /\ t \in Vertex
      /\ SideInv(backward, arcs, t) /\ forward \in Side /\ backward \in Side
  BY GraphsAssumption, ReversedArcs DEF SearchInv, SideInv, TypeOK, Query
<1> HIDE DEF arcs
<1>2. PICK f \in forward.queue, b \in backward.queue :
        /\ Continue(f, b) /\ b[1] < f[1]
        /\ backward' = Settle(backward, arcs, b) /\ Found(b[2])
  BY DEF StepBackward, arcs
<1>3. UNCHANGED <<graph, query, answer, forward>>
  BY DEF StepBackward
<1>4. /\ status = "searching"
      /\ IsTop(f, forward.queue) /\ IsTop(b, backward.queue) /\ b[1] < INF
  BY <1>2 DEF Continue
<1>5. b[1] \in Nat /\ b[2] \in Vertex
  BY <1>1, <1>2 DEF Side
<1>6. RootsKept /\ RootsFirst
  BY DEF MeetingInv
<1>7. /\ Settle(backward, arcs, b).predecessor[t] = t
      /\ Settle(backward, arcs, b).finished = backward.finished \cup {b[2]}
  <2>1. backward.predecessor[t] = t
    BY <1>6 DEF RootsKept
  <2>2. Settling(backward, arcs, t, b)
    BY <1>1, <1>2, <1>4 DEF Settling
  <2>3. QED
    BY <2>1, <2>2, SettleKeepsRoot
<1>8. backward'.predecessor[t] = t /\ backward'.finished = backward.finished \cup {b[2]}
  BY <1>2, <1>7
<1>9. \A v \in backward.finished : backward'.cost[v] = backward.cost[v]
  <2>1. Settling(backward, arcs, t, b)
    BY <1>1, <1>2, <1>4 DEF Settling
  <2>2. \A v \in backward.finished : Settle(backward, arcs, b).cost[v] = backward.cost[v]
    BY <2>1, FinishedStay
  <2>3. QED
    BY <2>2, <1>2
<1>10. RootsKept'
  BY <1>3, <1>6, <1>8 DEF RootsKept
<1>11. ASSUME status' = "searching", PositiveCosts'
       PROVE  t \in backward'.finished /\ s \in forward.finished
  <2>1. /\ t \in backward.finished \/ backward = Rooted(t)
        /\ s \in forward.finished \/ forward = Rooted(s)
    BY <1>3, <1>4, <1>6, <1>11 DEF RootsFirst, PositiveCosts
  <2>2. forward # Rooted(s)
    <3>1. SUFFICES ASSUME forward = Rooted(s) PROVE FALSE
      OBVIOUS
    <3>2. f[1] = 0
      BY <3>1, <1>4, RootedTop
    <3>3. QED
      BY <3>2, <1>2, <1>5
  <2>3. ASSUME backward = Rooted(t) PROVE b[2] = t
    BY <2>3, <1>4, RootedTop
  <2>4. QED
    BY <2>1, <2>2, <2>3, <1>8
<1>12. RootsFirst'
  BY <1>3, <1>11 DEF RootsFirst
<1>13. \A v \in forward'.finished \cap backward'.finished :
         v = b[2] \/ /\ v \in forward.finished /\ forward'.cost[v] = forward.cost[v]
                     /\ v \in backward.finished /\ backward'.cost[v] = backward.cost[v]
  BY <1>3, <1>8, <1>9
<1>14. QED
  BY <1>2, <1>3, <1>4, <1>10, <1>12, <1>13, IterationKeepsMeeting

\* The initial states satisfy the meeting's invariant.
LEMMA InitMeetingInv == Init => MeetingInv
<1> SUFFICES ASSUME Init PROVE MeetingInv
  OBVIOUS
<1>1. query.source \in Vertex /\ query.target \in Vertex
  BY VertexAssumption, MinOfNaturals DEF Init
<1>2. /\ forward = Rooted(query.source) /\ backward = Rooted(query.target)
      /\ status = "idle"
  BY DEF Init
<1>3. RootsKept
  BY <1>1, <1>2 DEF RootsKept, Rooted
<1>4. BestIsLeast
  BY <1>2 DEF BestIsLeast, Rooted
<1>5. RootsFirst /\ HasMet /\ FoundWhenConnected
  BY <1>2 DEF RootsFirst, HasMet, FoundWhenConnected
<1>6. QED
  BY <1>3, <1>4, <1>5 DEF MeetingInv

\* Every step keeps it.
LEMMA NextMeetingInv ==
  ASSUME TotalsFit
  PROVE  SearchInv /\ SearchInv' /\ WaysBack /\ MeetingInv /\ [Next]_vars => MeetingInv'
<1> SUFFICES ASSUME SearchInv, SearchInv', WaysBack, MeetingInv, [Next]_vars PROVE MeetingInv'
  OBVIOUS
<1>1. CASE pgr_bdDijkstra
  <2>1. PICK s \in Vertex, t \in Vertex, only_cost \in BOOLEAN : Ask(s, t, only_cost)
    BY <1>1 DEF pgr_bdDijkstra
  <2>2. /\ query'.source = s /\ query'.target = t /\ status' = "searching"
        /\ forward' = Rooted(s) /\ backward' = Rooted(t)
    BY <2>1 DEF Ask
  <2>3. RootsKept'
    BY <2>2 DEF RootsKept, Rooted
  <2>4. BestIsLeast'
    BY <2>2 DEF BestIsLeast, Rooted
  <2>5. RootsFirst'
    <3>1. Rooted(s).finished = {} /\ Rooted(t).finished = {}
      BY DEF Rooted
    <3>2. QED
      BY <2>2, <3>1 DEF RootsFirst
  <2>6. HasMet' /\ FoundWhenConnected'
    BY <2>2 DEF HasMet, FoundWhenConnected
  <2>7. QED
    BY <2>3, <2>4, <2>5, <2>6 DEF MeetingInv
<1>2. CASE StepForward
  BY <1>2, ForwardKeepsMeeting
<1>3. CASE StepBackward
  BY <1>3, BackwardKeepsMeeting
<1>4. CASE Exhausted
  <2>1. /\ UNCHANGED <<graph, query, forward, backward, v_min_node, best_cost, answer>>
        /\ status' = "stopped"
    BY <1>4 DEF Exhausted
  <2>2. RootsKept' /\ BestIsLeast'
    BY <2>1 DEF MeetingInv, RootsKept, BestIsLeast
  <2>3. RootsFirst' /\ FoundWhenConnected'
    BY <2>1 DEF RootsFirst, FoundWhenConnected
  <2>4. HasMet'
    <3>1. Connected => best_cost < INF
      BY <1>4, ExhaustedHasMet DEF MeetingInv
    <3>2. Connected' <=> Connected
      BY <2>1 DEF Connected, PositiveCosts
    <3>3. QED
      BY <2>1, <3>1, <3>2 DEF HasMet
  <2>5. QED
    BY <2>2, <2>3, <2>4 DEF MeetingInv
<1>5. CASE Return
  <2>1. /\ UNCHANGED <<graph, query, forward, backward, v_min_node, best_cost>>
        /\ status = "stopped" /\ status' = "answered"
    BY <1>5 DEF Return
  <2>2. RootsKept' /\ BestIsLeast'
    BY <2>1 DEF MeetingInv, RootsKept, BestIsLeast
  <2>3. RootsFirst'
    BY <2>1 DEF RootsFirst
  <2>4. Connected' <=> Connected
    BY <2>1 DEF Connected, PositiveCosts
  <2>5. Connected => best_cost < INF
    BY <2>1 DEF MeetingInv, HasMet
  <2>6. HasMet'
    BY <2>1, <2>4, <2>5 DEF HasMet
  <2>7. ASSUME Connected PROVE answer' # <<>>
    <3>1. query.source # query.target
      BY <2>7 DEF Connected
    <3>2. QED
      BY <3>1, <2>5, <2>7, <1>5, MeetingIsAnswered
  <2>8. FoundWhenConnected'
    BY <2>4, <2>7 DEF FoundWhenConnected, Connected
  <2>9. QED
    BY <2>2, <2>3, <2>6, <2>8 DEF MeetingInv
<1>6. CASE UNCHANGED vars
  BY <1>6 DEF vars, MeetingInv, RootsKept, BestIsLeast, RootsFirst, HasMet, FoundWhenConnected,
              Connected, PositiveCosts
<1>7. QED
  BY <1>1, <1>2, <1>3, <1>4, <1>5, <1>6 DEF Next

\* Two vertices that are connected by positive costs always get an answer, if no two
\* distances of a graph add up to more than INF: the loop is left with a meeting,
\* whichever of its tests ends it, and the path that is put together has rows.
THEOREM FoundWhenConnectedTheorem ==
  ASSUME TotalsFit
  PROVE  Spec => []FoundWhenConnected
<1>1. Init => SearchInv /\ WaysBack /\ MeetingInv
  BY InitSearchInv, InitWaysBack, InitMeetingInv
<1>2. (SearchInv /\ WaysBack /\ MeetingInv) /\ [Next]_vars => (SearchInv /\ WaysBack /\ MeetingInv)'
  BY NextSearchInv, NextWaysBack, NextMeetingInv
<1>3. SearchInv /\ WaysBack /\ MeetingInv => FoundWhenConnected
  BY DEF MeetingInv
<1>4. QED
  BY <1>1, <1>2, <1>3, PTL DEF Spec
----------------------------------------------------------------------------
(***************************************************************************)
(* The path that is put together leads from the source to the target.      *)
(***************************************************************************)
\* The rows lead along the vertices at[1], at[2] and so on, each one by an arc of its name.
IsWay(rows, n, at) ==
  /\ IsList(rows) /\ Len(rows) = n
  /\ at[1] = query.source /\ at[n + 1] = query.target
  /\ \A i \in 1..n + 1 : at[i] \in Vertex
  /\ \A i \in 1..n : \E a \in graph : /\ a.from = at[i] /\ a.to = at[i + 1]
                                      /\ rows[i].node = a.from /\ rows[i].edge = a.id
                                      /\ rows[i].cost = a.cost

\* The row of an arc.
RowOf(a) == [node |-> a.from, edge |-> a.id, cost |-> a.cost, pos |-> a.pos]

IsRowFrom(c, u, v) == \E a \in graph : a.from = u /\ a.to = v /\ c = <<RowOf(a)>>

\* Where names are unique, one edge is found for the step along an arc that is no loop, and
\* it leads to the same vertex.
LEMMA OneIsFound ==
  ASSUME NamesAreOwn, graph \in Graphs, NEW a \in graph, a.from # a.to,
         NEW cost, cost[a.from] \in Nat, cost[a.to] \in Nat,
         cost[a.to] = cost[a.from] + a.cost \/ cost[a.from] = cost[a.to] + a.cost
  PROVE  IsRowFrom(RowsOf(a.from, StepEdge(cost, a.from, a.to)), a.from, a.to)
<1>1. PICK b \in graph : /\ b.from = a.from /\ b.to = a.to
                         /\ b.id = StepEdge(cost, a.from, a.to)
  BY EdgeIsFound, DifferenceIsCost
<1> DEFINE named == {x \in OutArcs(graph, b.from) : x.id = b.id}
           nth(i) == CHOOSE x \in named : Cardinality({y \in named : y.pos <= x.pos}) = i
           row(i) == [node |-> b.from, edge |-> b.id, cost |-> nth(i).cost, pos |-> nth(i).pos]
<1>2. RowsOf(b.from, b.id) = [i \in 1..Cardinality(named) |-> row(i)]
  BY DEF RowsOf
<1>3. named = {b}
  BY <1>1 DEF NamesAreOwn, OutArcs
<1>4. Cardinality({b}) = 1
  BY FS_Singleton
<1>5. nth(1) = b
  <2>1. {y \in {b} : y.pos <= b.pos} = {b}
    <3>1. b.pos \in Nat
      BY GraphsAssumption DEF Arc
    <3>2. QED
      BY <3>1
  <2> DEFINE good(x) == Cardinality({y \in named : y.pos <= x.pos}) = 1
  <2>2. good(b)
    BY <2>1, <1>3, <1>4
  <2> HIDE DEF good
  <2>3. b \in named /\ \A x \in named : x = b
    BY <1>3
  <2>4. (CHOOSE x \in named : good(x)) = b
    BY <2>2, <2>3
  <2>5. QED
    BY <2>4 DEF good
<1> HIDE DEF nth, named
<1>6. RowsOf(b.from, b.id) = [i \in 1..1 |-> row(i)]
  BY <1>2, <1>3, <1>4
<1>7. row(1) = RowOf(b)
  BY <1>5 DEF RowOf
<1>8. [i \in 1..1 |-> row(i)] = <<row(1)>>
  <2> HIDE DEF row
  <2>1. \A i \in 1..1 : row(i) = row(1)
    <3>1. \A i \in 1..1 : i = 1
      OBVIOUS
    <3>2. QED
      BY <3>1
  <2>2. PICK r : r = row(1)
    OBVIOUS
  <2>3. [i \in 1..1 |-> row(i)] = [i \in 1..1 |-> r]
    BY <2>1, <2>2
  <2>4. [i \in 1..1 |-> r] = <<r>>
    OBVIOUS
  <2>5. QED
    BY <2>2, <2>3, <2>4
<1>9. RowsOf(a.from, StepEdge(cost, a.from, a.to)) = <<RowOf(b)>>
  BY <1>1, <1>6, <1>7, <1>8
<1>10. QED
  BY <1>1, <1>9 DEF IsRowFrom

Single == INSTANCE Recursion WITH
  Start <- LAMBDA c : c[1],
  Step  <- LAMBDA c, n, x : x \o c[n],
  Pick  <- LAMBDA c, s : CHOOSE x \in s : TRUE,
  Claim <- LAMBDA c, n, x : IsList(x) /\ Len(x) = n /\ \A j \in 1..n : <<x[j]>> = c[j]

\* One more row.
LEMMA OneMore ==
  ASSUME NEW n \in Nat, NEW x, IsList(x), Len(x) = n, NEW r
  PROVE  /\ IsList(x \o <<r>>) /\ Len(x \o <<r>>) = n + 1
         /\ (x \o <<r>>)[n + 1] = r /\ \A j \in 1..n : (x \o <<r>>)[j] = x[j]
<1>1. PICK X : x \in Seq(X)
  BY DEF IsList
<1>2. x \in Seq(X \cup {r}) /\ <<r>> \in Seq(X \cup {r}) /\ Len(<<r>>) = 1
  BY <1>1
<1>3. x \o <<r>> \in Seq(X \cup {r}) /\ Len(x \o <<r>>) = n + 1
  BY <1>2
<1>4. (x \o <<r>>)[n + 1] = r
  BY <1>2
<1>5. \A j \in 1..n : (x \o <<r>>)[j] = x[j]
  BY <1>2
<1>6. QED
  BY <1>3, <1>4, <1>5 DEF IsList

\* Lists of one row each, put together.
LEMMA SinglesJoined ==
  ASSUME NEW n \in Nat \ {0}, NEW c, Len(c) = n, \A i \in 1..n : \E r : c[i] = <<r>>
  PROVE  /\ IsList(FlattenSeq(c)) /\ Len(FlattenSeq(c)) = n
         /\ \A j \in 1..n : <<FlattenSeq(c)[j]>> = c[j]
<1>1. FlattenSeq(c) = Single!Counted(c, 1, n)[n]
  BY DEF FlattenSeq, Single!Counted, Single!IsCounted
<1> DEFINE Ok(i, x) == IsList(x) /\ Len(x) = i /\ \A j \in 1..i : <<x[j]>> = c[j]
<1>2. Ok(1, c[1])
  <2>1. 1 \in 1..n /\ \A j \in 1..1 : j = 1
    OBVIOUS
  <2>2. PICK r : c[1] = <<r>>
    BY <2>1
  <2>3. <<r>> \in Seq({r}) /\ Len(<<r>>) = 1 /\ <<r>>[1] = r
    OBVIOUS
  <2>4. QED
    BY <2>1, <2>2, <2>3 DEF IsList
<1>3. \A i \in 1 + 1..n : \A x : Ok(i - 1, x) => Ok(i, x \o c[i])
  <2>1. SUFFICES ASSUME NEW i \in 1 + 1..n, NEW x, Ok(i - 1, x) PROVE Ok(i, x \o c[i])
    OBVIOUS
  <2>2. i - 1 \in Nat /\ i \in 1..n /\ i - 1 + 1 = i /\ \A j \in 1..i : j \in 1..i - 1 \/ j = i
    OBVIOUS
  <2>3. PICK r : c[i] = <<r>>
    BY <2>2
  <2>4. /\ IsList(x \o <<r>>) /\ Len(x \o <<r>>) = i - 1 + 1
        /\ (x \o <<r>>)[i - 1 + 1] = r /\ \A j \in 1..i - 1 : (x \o <<r>>)[j] = x[j]
    BY <2>1, <2>2, OneMore
  <2>5. PICK y : y = x \o <<r>>
    OBVIOUS
  <2>6. IsList(y) /\ Len(y) = i /\ y[i] = r /\ \A j \in 1..i - 1 : y[j] = x[j]
    BY <2>2, <2>4, <2>5
  <2>7. ASSUME NEW j \in 1..i PROVE <<y[j]>> = c[j]
    BY <2>1, <2>2, <2>3, <2>6
  <2>8. QED
    BY <2>3, <2>5, <2>6, <2>7
<1>4. \A i \in 1..n : Ok(i, Single!Counted(c, 1, n)[i])
  <2>1. 1 \in Int /\ n \in Int
    OBVIOUS
  <2>2. QED
    BY ONLY <1>2, <1>3, <2>1, Single!CountedClaim, Zenon
<1>5. n \in 1..n
  OBVIOUS
<1>6. QED
  BY <1>1, <1>4, <1>5

\* The step to a vertex from its predecessor, on either side.
LEMMA StepThere ==
  ASSUME NamesAreOwn, SearchInv, WaysBack,
         NEW v \in Vertex \ {query.source}, forward.cost[v] < INF
  PROVE  IsRowFrom(RowsOf(forward.predecessor[v], StepEdge(forward.cost, forward.predecessor[v], v)),
                   forward.predecessor[v], v)
<1>1. /\ graph \in Graphs /\ forward \in Side /\ IsTree(forward, graph, query.source)
  BY DEF SearchInv, SideInv, TypeOK
<1>2. PICK rank \in [Vertex -> Nat] : Descends(forward, query.source, rank)
  BY DEF WaysBack, IsRanked
<1>3. PICK a \in graph : /\ a.from = forward.predecessor[v] /\ a.to = v
                         /\ forward.cost[v] = forward.cost[a.from] + a.cost
  BY <1>1 DEF IsTree
<1>4. a.from # a.to
  <2>1. rank[forward.predecessor[v]] < rank[v]
    BY <1>2 DEF Descends
  <2>2. rank[v] \in Nat /\ ~ (rank[v] < rank[v])
    OBVIOUS
  <2>3. QED
    BY <2>1, <2>2, <1>3
<1>5. forward.cost[a.from] \in Nat /\ forward.cost[a.to] \in Nat
  BY <1>1, GraphsAssumption, InfAssumption DEF Side, Arc
<1>6. IsRowFrom(RowsOf(a.from, StepEdge(forward.cost, a.from, a.to)), a.from, a.to)
  BY <1>1, <1>3, <1>4, <1>5, OneIsFound
<1>7. QED
  BY <1>3, <1>6

\* The backward side goes along the arcs turned around.
LEMMA StepOnward ==
  ASSUME NamesAreOwn, SearchInv, WaysBack,
         NEW v \in Vertex \ {query.target}, backward.cost[v] < INF
  PROVE  IsRowFrom(RowsOf(v, StepEdge(backward.cost, v, backward.predecessor[v])),
                   v, backward.predecessor[v])
<1>1. /\ graph \in Graphs /\ backward \in Side /\ IsTree(backward, Reversed(graph), query.target)
  BY DEF SearchInv, SideInv, TypeOK
<1>2. PICK rank \in [Vertex -> Nat] : Descends(backward, query.target, rank)
  BY DEF WaysBack, IsRanked
<1>3. PICK r \in Reversed(graph) : /\ r.from = backward.predecessor[v] /\ r.to = v
                                   /\ backward.cost[v] = backward.cost[r.from] + r.cost
  BY <1>1 DEF IsTree
<1>4. PICK a \in graph : a.from = r.to /\ a.to = r.from /\ a.cost = r.cost
  BY <1>1, GraphsAssumption DEF Reversed, Arc
<1>5. a.from # a.to
  <2>1. rank[backward.predecessor[v]] < rank[v]
    BY <1>2 DEF Descends
  <2>2. rank[v] \in Nat /\ ~ (rank[v] < rank[v])
    OBVIOUS
  <2>3. QED
    BY <2>1, <2>2, <1>3, <1>4
<1>6. backward.cost[a.from] \in Nat /\ backward.cost[a.to] \in Nat
  BY <1>1, GraphsAssumption, InfAssumption DEF Side, Arc
<1>7. backward.cost[a.from] = backward.cost[a.to] + a.cost
  BY <1>3, <1>4
<1>8. IsRowFrom(RowsOf(a.from, StepEdge(backward.cost, a.from, a.to)), a.from, a.to)
  BY <1>1, <1>5, <1>6, <1>7, OneIsFound
<1>9. QED
  BY <1>3, <1>4, <1>8

\* The rows follow the way from the source to the meeting, and from there, backwards, the
\* way from the meeting to the target.
LEMMA PathIsWay ==
  ASSUME NamesAreOwn, SearchInv, WaysBack, best_cost < INF,
         NEW rows, rows = PathRows(TreeWalk(forward, v_min_node), TreeWalk(backward, v_min_node)),
         rows # <<>>
  PROVE  \E n \in Nat \ {0} : \E at : IsWay(rows, n, at)
<1> DEFINE v == v_min_node
           there == TreeWalk(forward, v)
           back == TreeWalk(backward, v)
<1>1. /\ query.source \in Vertex /\ query.target \in Vertex /\ v \in Vertex
  BY DEF SearchInv, TypeOK, Query
<1>2. forward.cost[v] < INF /\ backward.cost[v] < INF
  BY DEF SearchInv, MeetingIsFinal, SideInv, Labelled
<1>3. PICK d \in Nat : IsWalk(there, d, forward, query.source, v)
  BY <1>1, <1>2, WalkDescends DEF WaysBack
<1>4. PICK e \in Nat : IsWalk(back, e, backward, query.target, v)
  BY <1>1, <1>2, WalkDescends DEF WaysBack
<1> DEFINE f == Outward(there, d)
           g == Homeward(back, e)
           at == [i \in 1..d + e + 1 |-> IF i <= d THEN there[i] ELSE back[e + d + 2 - i]]
           c == f \o g
<1> HIDE DEF there, back
<1>5. rows = FlattenSeq(c)
  <2>1. Len(there) = d + 1 /\ Len(back) = e + 1
    BY <1>3, <1>4 DEF IsWalk
  <2>2. PathRows(there, back) = FlattenSeq(f \o g)
    BY <2>1, RowsOfPath
  <2>3. QED
    BY <2>2 DEF there, back
<1>6. /\ \A i \in 1..d + 1 : there[i] \in Vertex
      /\ there[1] = query.source /\ there[d + 1] = v
      /\ \A i \in 1..d : /\ there[i + 1] # query.source /\ forward.cost[there[i + 1]] < INF
                         /\ there[i] = forward.predecessor[there[i + 1]]
  BY <1>3 DEF IsWalk
<1>7. /\ \A i \in 1..e + 1 : back[i] \in Vertex
      /\ back[1] = query.target /\ back[e + 1] = v
      /\ \A i \in 1..e : /\ back[i + 1] # query.target /\ backward.cost[back[i + 1]] < INF
                         /\ back[i] = backward.predecessor[back[i + 1]]
  BY <1>4 DEF IsWalk
<1>8. \A i \in 1..d + e + 1 : at[i] = IF i <= d THEN there[i] ELSE back[e + d + 2 - i]
  OBVIOUS
<1>9. \A i \in 1..d : f[i] = RowsOf(there[i], StepEdge(forward.cost, there[i], there[i + 1]))
  BY DEF Outward
<1>10. \A i \in 1..e : g[i] = StepAway(back[(e + 1) - i + 1], back[(e + 1) - i])
  BY DEF Homeward
<1>11. f = [i \in 1..d |-> f[i]] /\ g = [i \in 1..e |-> g[i]]
  BY DEF Outward, Homeward
<1> HIDE DEF f, g, at
<1>12. /\ IsList(c) /\ Len(c) = d + e
       /\ \A i \in 1..d : c[i] = f[i]
       /\ \A i \in 1..e : c[d + i] = g[i]
  BY <1>11, JoinedAt
<1> HIDE DEF c
<1>13. at[d + 1] = v /\ at[1] = query.source /\ at[d + e + 1] = query.target
  <2>1. d + 1 \in 1..d + e + 1 /\ ~ (d + 1 <= d) /\ e + d + 2 - (d + 1) = e + 1
    OBVIOUS
  <2>2. at[d + 1] = v
    BY <2>1, <1>7, <1>8
  <2>3. at[1] = query.source
    <3>1. CASE d = 0
      <4>1. d + 1 = 1
        BY <3>1
      <4>2. QED
        BY <4>1, <2>2, <1>6
    <3>2. CASE d # 0
      <4>1. 1 \in 1..d + e + 1 /\ 1 <= d
        BY <3>2
      <4>2. QED
        BY <4>1, <1>6, <1>8
    <3>3. QED
      BY <3>1, <3>2
  <2>4. d + e + 1 \in 1..d + e + 1 /\ ~ (d + e + 1 <= d) /\ e + d + 2 - (d + e + 1) = 1
    OBVIOUS
  <2>5. at[d + e + 1] = query.target
    BY <2>4, <1>7, <1>8
  <2>6. QED
    BY <2>2, <2>3, <2>5
<1>14. ASSUME NEW i \in 1..d + e + 1 PROVE at[i] \in Vertex
  <2>1. CASE i <= d
    <3>1. i \in 1..d + 1
      BY <2>1
    <3>2. QED
      BY <3>1, <2>1, <1>6, <1>8
  <2>2. CASE ~ (i <= d)
    <3>1. e + d + 2 - i \in 1..e + 1
      BY <2>2
    <3>2. QED
      BY <3>1, <2>2, <1>7, <1>8
  <2>3. QED
    BY <2>1, <2>2
<1>15. ASSUME NEW i \in 1..d PROVE IsRowFrom(c[i], at[i], at[i + 1])
  <2>1. /\ i \in 1..d + e + 1 /\ i <= d /\ i + 1 \in 1..d + e + 1 /\ i + 1 \in 1..d + 1
        /\ (i + 1 <= d \/ i + 1 = d + 1)
    OBVIOUS
  <2>2. at[i] = there[i]
    BY <2>1, <1>8
  <2>3. at[i + 1] = there[i + 1]
    <3>1. CASE i + 1 <= d
      BY <3>1, <2>1, <1>8
    <3>2. CASE i + 1 = d + 1
      BY <3>2, <1>6, <1>13
    <3>3. QED
      BY <2>1, <3>1, <3>2
  <2> DEFINE w == there[i + 1]
  <2>4. w \in Vertex \ {query.source} /\ forward.cost[w] < INF /\ there[i] = forward.predecessor[w]
    BY <2>1, <1>6
  <2>5. IsRowFrom(RowsOf(there[i], StepEdge(forward.cost, there[i], w)), there[i], w)
    BY <2>4, StepThere
  <2>6. c[i] = RowsOf(there[i], StepEdge(forward.cost, there[i], w))
    BY <1>9, <1>12
  <2>7. QED
    BY <2>2, <2>3, <2>5, <2>6
<1>16. ASSUME NEW i \in 1..e PROVE IsRowFrom(c[d + i], at[d + i], at[d + i + 1])
  <2>1. PICK j : j = (e + 1) - i
    OBVIOUS
  <2>2. /\ j \in 1..e /\ j \in 1..e + 1 /\ j + 1 \in 1..e + 1
        /\ d + i \in 1..d + e + 1 /\ d + i + 1 \in 1..d + e + 1
        /\ ~ (d + i <= d) /\ ~ (d + i + 1 <= d)
        /\ e + d + 2 - (d + i) = j + 1 /\ e + d + 2 - (d + i + 1) = j
        /\ (e + 1) - i + 1 = j + 1
    BY <2>1
  <2>3. at[d + i] = back[j + 1] /\ at[d + i + 1] = back[j]
    BY <2>2, <1>8
  <2> DEFINE w == back[j + 1]
  <2>4. w \in Vertex \ {query.target} /\ backward.cost[w] < INF /\ back[j] = backward.predecessor[w]
    BY <2>2, <1>7
  <2>5. IsRowFrom(RowsOf(w, StepEdge(backward.cost, w, back[j])), w, back[j])
    BY <2>4, StepOnward
  <2>6. c[d + i] = RowsOf(w, StepEdge(backward.cost, w, back[j]))
    BY <2>1, <2>2, <1>10, <1>12 DEF StepAway
  <2>7. QED
    BY <2>3, <2>5, <2>6
<1>17. ASSUME NEW i \in 1..d + e PROVE IsRowFrom(c[i], at[i], at[i + 1])
  <2>1. CASE i <= d
    <3>1. i \in 1..d
      BY <2>1
    <3>2. QED
      BY <3>1, <1>15
  <2>2. CASE ~ (i <= d)
    <3>1. PICK j : j = i - d
      OBVIOUS
    <3>2. j \in 1..e /\ i = d + j
      BY <2>2, <3>1
    <3>3. QED
      BY <3>2, <1>16
  <2>3. QED
    BY <2>1, <2>2
<1>18. d + e # 0
  <2>1. SUFFICES ASSUME d + e = 0 PROVE FALSE
    OBVIOUS
  <2>2. Len(c) = 0
    BY <2>1, <1>12
  <2>3. FlattenSeq(c) = c
    BY <2>2 DEF FlattenSeq
  <2>4. c = <<>>
    BY <2>2, <1>12 DEF IsList
  <2>5. QED
    BY <2>3, <2>4, <1>5
<1>19. PICK n : n = d + e
  OBVIOUS
<1>20. n \in Nat \ {0} /\ Len(c) = n /\ n + 1 = d + e + 1
  BY <1>12, <1>18, <1>19
<1>21. \A i \in 1..n : \E r : c[i] = <<r>>
  BY <1>17, <1>19 DEF IsRowFrom
<1>22. /\ IsList(rows) /\ Len(rows) = n
       /\ \A j \in 1..n : <<rows[j]>> = c[j]
  BY <1>5, <1>20, <1>21, SinglesJoined
<1>23. ASSUME NEW i \in 1..n
       PROVE  \E a \in graph : /\ a.from = at[i] /\ a.to = at[i + 1]
                               /\ rows[i].node = a.from /\ rows[i].edge = a.id
                               /\ rows[i].cost = a.cost
  <2>1. PICK a \in graph : a.from = at[i] /\ a.to = at[i + 1] /\ c[i] = <<RowOf(a)>>
    BY <1>17, <1>19 DEF IsRowFrom
  <2>2. PICK r : r = RowOf(a)
    OBVIOUS
  <2>3. PICK x : x = rows[i]
    OBVIOUS
  <2>4. <<x>> = <<r>>
    BY <2>1, <2>2, <2>3, <1>22
  <2>5. x = r
    BY <2>4
  <2>6. rows[i] = RowOf(a)
    BY <2>2, <2>3, <2>5
  <2>7. rows[i].node = a.from /\ rows[i].edge = a.id /\ rows[i].cost = a.cost
    BY <2>6 DEF RowOf
  <2>8. QED
    BY <2>1, <2>7
<1>24. IsWay(rows, n, at)
  BY <1>13, <1>14, <1>20, <1>22, <1>23 DEF IsWay
<1>25. QED
  BY <1>20, <1>24

----------------------------------------------------------------------------
(***************************************************************************)
(* What the rows cost together.                                            *)
(***************************************************************************)
\* Values along the way that grow by no more than what the rows of s cost.
Climbs(rows, s, h) ==
  /\ h \in [1..Len(rows) + 1 -> Nat] /\ h[1] = 0
  /\ \A i \in 1..Len(rows) : h[i + 1] <= h[i] + (IF i \in s THEN rows[i].cost ELSE 0)

Covers(rows, s, x) == x \in Nat /\ \A h : Climbs(rows, s, h) => h[Len(rows) + 1] <= x

Added == INSTANCE Recursion WITH
  Start <- LAMBDA c : 0,
  Step  <- LAMBDA c, i, x : c[i].cost + x,
  Pick  <- LAMBDA c, s : CHOOSE i \in s : TRUE,
  Claim <- LAMBDA c, s, x : Covers(c, s, x)

\* Without rows nothing is gained.
LEMMA NothingGained ==
  ASSUME NEW rows, Len(rows) \in Nat
  PROVE  Covers(rows, {}, 0)
<1> DEFINE n == Len(rows)
<1>1. ASSUME NEW h, Climbs(rows, {}, h) PROVE h[n + 1] <= 0
  <2> DEFINE Bad == {i \in 1..n + 1 : h[i] # 0}
  <2>1. /\ h \in [1..n + 1 -> Nat] /\ h[1] = 0
        /\ \A i \in 1..n : h[i + 1] <= h[i] + 0
    BY <1>1 DEF Climbs
  <2> HIDE DEF n
  <2>2. n \in Nat
    BY DEF n
  <2>3. SUFFICES ASSUME Bad # {} PROVE FALSE
    <3>1. n + 1 \in 1..n + 1
      BY <2>2
    <3>2. n + 1 \notin Bad => h[n + 1] = 0
      BY <3>1
    <3>3. QED
      BY <3>2
  <2>4. Bad \in SUBSET Nat
    OBVIOUS
  <2>5. PICK i \in Bad : \A j \in Bad : i <= j
    BY <2>3, <2>4, Way!LeastElement
  <2>6. i \in 1..n + 1 /\ i # 1 /\ h[i] # 0
    BY <2>1, <2>5
  <2>7. i - 1 \in 1..n /\ i - 1 \in 1..n + 1 /\ i - 1 + 1 = i /\ ~ (i <= i - 1)
    BY <2>2, <2>6
  <2>8. h[i - 1] = 0
    BY <2>5, <2>7
  <2>9. h[i] <= h[i - 1] + 0
    BY <2>1, <2>7
  <2>10. h[i] \in Nat
    BY <2>1, <2>6
  <2>11. QED
    BY <2>6, <2>8, <2>9, <2>10
<1>2. QED
  BY <1>1 DEF Covers

\* Taking away the cost of one row from the values behind it, the others remain.
LEMMA OneRowMore ==
  ASSUME NEW rows, Len(rows) \in Nat, \A i \in 1..Len(rows) : rows[i].cost \in Nat,
         NEW s \in SUBSET (1..Len(rows)), NEW j \in s,
         NEW x, Covers(rows, s \ {j}, x)
  PROVE  Covers(rows, s, rows[j].cost + x)
<1>1. PICK n : n = Len(rows)
  OBVIOUS
<1>2. PICK k : k = rows[j].cost
  OBVIOUS
<1>3. n \in Nat /\ j \in 1..n /\ k \in Nat /\ x \in Nat
  BY <1>1, <1>2 DEF Covers
<1>4. ASSUME NEW h, Climbs(rows, s, h) PROVE h[n + 1] <= k + x
  <2>1. /\ h \in [1..n + 1 -> Nat] /\ h[1] = 0
        /\ \A i \in 1..n : h[i + 1] <= h[i] + (IF i \in s THEN rows[i].cost ELSE 0)
    BY <1>1, <1>4 DEF Climbs
  <2> DEFINE Less(m) == IF m <= k THEN 0 ELSE m - k
             l == [i \in 1..n + 1 |-> IF i <= j THEN h[i] ELSE Less(h[i])]
  <2>2. \A m \in Nat : Less(m) \in Nat /\ Less(m) <= m /\ m <= Less(m) + k
    BY <1>3
  <2>3. \A p, q, c \in Nat : p <= q + c => Less(p) <= Less(q) + c
    BY <1>3
  <2>4. \A p, q \in Nat : p <= q + k => Less(p) <= q + 0
    BY <1>3
  <2> HIDE DEF Less
  <2>5. \A i \in 1..n + 1 : h[i] \in Nat
    BY <2>1
  <2>6. /\ l \in [1..n + 1 -> Nat]
        /\ \A i \in 1..n + 1 : l[i] = IF i <= j THEN h[i] ELSE Less(h[i])
    BY <2>2, <2>5
  <2> HIDE DEF l
  <2>7. l[1] = 0
    BY <2>1, <2>6, <1>3
  <2>8. ASSUME NEW i \in 1..n
        PROVE  l[i + 1] <= l[i] + (IF i \in s \ {j} THEN rows[i].cost ELSE 0)
    <3>1. i \in 1..n + 1 /\ i + 1 \in 1..n + 1
      BY <1>3
    <3>2. PICK c : c = IF i \in s THEN rows[i].cost ELSE 0
      OBVIOUS
    <3>3. c \in Nat /\ h[i + 1] <= h[i] + c
      BY <2>1, <3>2, <1>1
    <3>4. h[i] \in Nat /\ h[i + 1] \in Nat
      BY <2>5, <3>1
    <3>5. CASE i = j
      <4>1. l[i] = h[i] /\ l[i + 1] = Less(h[i + 1])
        BY <3>1, <3>5, <2>6, <1>3
      <4>2. c = k
        BY <3>2, <3>5, <1>2
      <4>3. Less(h[i + 1]) <= h[i] + 0
        BY <2>4, <3>3, <3>4, <4>2
      <4>4. QED
        BY <4>1, <4>3, <3>5
    <3>6. CASE i # j
      <4>1. (IF i \in s \ {j} THEN rows[i].cost ELSE 0) = c
        BY <3>2, <3>6
      <4>2. CASE i < j
        <5>1. i <= j /\ i + 1 <= j
          BY <4>2, <1>3
        <5>2. l[i] = h[i] /\ l[i + 1] = h[i + 1]
          BY <5>1, <3>1, <2>6
        <5>3. QED
          BY <5>2, <4>1, <3>3
      <4>3. CASE ~ (i < j)
        <5>1. ~ (i <= j) /\ ~ (i + 1 <= j)
          BY <4>3, <3>6, <1>3
        <5>2. l[i] = Less(h[i]) /\ l[i + 1] = Less(h[i + 1])
          BY <5>1, <3>1, <2>6
        <5>3. Less(h[i + 1]) <= Less(h[i]) + c
          BY <2>3, <3>3, <3>4
        <5>4. QED
          BY <5>2, <5>3, <4>1
      <4>4. QED
        BY <4>2, <4>3
    <3>7. QED
      BY <3>5, <3>6
  <2>9. Climbs(rows, s \ {j}, l)
    BY <2>6, <2>7, <2>8, <1>1 DEF Climbs
  <2>10. l[n + 1] <= x
    BY <2>9, <1>1 DEF Covers
  <2>11. n + 1 \in 1..n + 1 /\ ~ (n + 1 <= j)
    BY <1>3
  <2>12. l[n + 1] = Less(h[n + 1]) /\ h[n + 1] \in Nat
    BY <2>5, <2>6, <2>11
  <2>13. Less(h[n + 1]) \in Nat /\ h[n + 1] <= Less(h[n + 1]) + k
    BY <2>2, <2>12
  <2>14. PICK y : y = Less(h[n + 1])
    OBVIOUS
  <2>15. y \in Nat /\ y <= x /\ h[n + 1] <= y + k
    BY <2>10, <2>12, <2>13, <2>14
  <2>16. QED
    BY <2>12, <2>15, <1>3
<1>5. k + x \in Nat
  BY <1>3
<1>6. QED
  BY <1>1, <1>2, <1>4, <1>5 DEF Covers

\* The rows together cost no less than any values gain that grow by no more than the cost
\* of each row, in whatever order they are added up.
LEMMA TotalCovers ==
  ASSUME NEW rows, IsList(rows), \A i \in 1..Len(rows) : rows[i].cost \in Nat
  PROVE  Covers(rows, 1..Len(rows), TotalCost(rows))
<1> DEFINE S == 1..Len(rows)
<1>1. Len(rows) \in Nat /\ DOMAIN rows = S
  BY DEF IsList
<1>2. TotalCost(rows) = Added!Folded(rows, DOMAIN rows)[DOMAIN rows]
  BY DEF TotalCost, FoldSeq, FoldFunction, FoldFunctionOnSet, MapThenFoldSet, Added!Folded, Added!IsFolded
<1>3. Added!IsFiniteSet(S)
  <2>1. IsFiniteSet(S)
    BY <1>1, FS_Interval
  <2>2. QED
    BY <2>1 DEF IsFiniteSet, Added!IsFiniteSet
<1>4. \A s \in SUBSET S : s # {} => (CHOOSE i \in s : TRUE) \in s
  OBVIOUS
<1>5. Covers(rows, {}, 0)
  BY <1>1, NothingGained
<1>6. \A s \in SUBSET S : s # {} =>
        \A x : Covers(rows, s \ {CHOOSE i \in s : TRUE}, x)
                 => Covers(rows, s, rows[CHOOSE i \in s : TRUE].cost + x)
  <2>1. SUFFICES ASSUME NEW s \in SUBSET S, s # {}, NEW x, NEW j, j = CHOOSE i \in s : TRUE,
                        Covers(rows, s \ {j}, x)
                 PROVE  Covers(rows, s, rows[j].cost + x)
    OBVIOUS
  <2>2. j \in s
    BY <2>1
  <2>3. QED
    BY <1>1, <2>1, <2>2, OneRowMore
<1> HIDE DEF S
<1>7. \A s \in SUBSET S : Covers(rows, s, Added!Folded(rows, S)[s])
  BY ONLY <1>3, <1>4, <1>5, <1>6, Added!FoldedClaim, Zenon
<1>8. S \in SUBSET S
  OBVIOUS
<1>9. Covers(rows, S, TotalCost(rows))
  BY <1>1, <1>2, <1>7, <1>8
<1>10. QED
  BY <1>9 DEF S

\* The distance to the target is no greater than what the rows cost,
LEMMA TotalIsEnough ==
  ASSUME graph \in Graphs, query.source \in Vertex, query.target \in Vertex,
         NEW rows, NEW n \in Nat, NEW at, IsWay(rows, n, at)
  PROVE  /\ TotalCost(rows) \in Nat
         /\ Distance(graph, query.source, query.target) <= TotalCost(rows)
<1>1. /\ graph \in SUBSET Arc /\ \A a \in graph : a.cost \in Nat
  BY GraphsAssumption DEF Arc
<1>2. /\ IsList(rows) /\ Len(rows) = n
      /\ at[1] = query.source /\ at[n + 1] = query.target
      /\ \A i \in 1..n + 1 : at[i] \in Vertex
      /\ \A i \in 1..n : \E a \in graph : /\ a.from = at[i] /\ a.to = at[i + 1]
                                          /\ rows[i].cost = a.cost
  BY DEF IsWay
<1>3. PICK G : IsGreatest(graph, query.source, G)
  BY <1>1, GreatestExists
<1>4. Distance(graph, query.source, query.target) = G[query.target]
  BY <1>1, <1>3, DistanceIsGreatest
<1>5. Potential(graph, query.source, G)
  BY <1>3 DEF IsGreatest
<1>6. /\ G \in [Vertex -> 0..INF] /\ G[query.source] = 0
      /\ \A a \in graph : G[a.to] <= G[a.from] + a.cost
  BY <1>5 DEF Potential
<1> DEFINE h == [i \in 1..n + 1 |-> G[at[i]]]
<1>7. /\ h \in [1..n + 1 -> Nat]
      /\ \A i \in 1..n + 1 : h[i] = G[at[i]]
  BY <1>2, <1>6, InfAssumption
<1> HIDE DEF h
<1>8. 1 \in 1..n + 1 /\ n + 1 \in 1..n + 1
  OBVIOUS
<1>9. h[1] = 0 /\ h[n + 1] = G[query.target]
  BY <1>2, <1>6, <1>7, <1>8
<1>10. ASSUME NEW i \in 1..n
       PROVE  h[i + 1] <= h[i] + (IF i \in 1..n THEN rows[i].cost ELSE 0)
  <2>1. i \in 1..n + 1 /\ i + 1 \in 1..n + 1
    OBVIOUS
  <2>2. PICK a \in graph : a.from = at[i] /\ a.to = at[i + 1] /\ rows[i].cost = a.cost
    BY <1>2
  <2>3. G[a.to] <= G[a.from] + a.cost
    BY <1>6
  <2>4. h[i] = G[a.from] /\ h[i + 1] = G[a.to]
    BY <2>1, <2>2, <1>7
  <2>5. QED
    BY <2>2, <2>3, <2>4
<1>11. Climbs(rows, 1..n, h)
  BY <1>2, <1>7, <1>9, <1>10 DEF Climbs
<1>12. \A i \in 1..n : rows[i].cost \in Nat
  BY <1>1, <1>2
<1>13. Covers(rows, 1..n, TotalCost(rows))
  BY <1>2, <1>12, TotalCovers
<1>14. TotalCost(rows) \in Nat /\ h[n + 1] <= TotalCost(rows)
  BY <1>2, <1>11, <1>13 DEF Covers
<1>15. QED
  BY <1>4, <1>9, <1>14

\* and two sides that have met are connected: what is left of the distance is a potential
\* of the arcs turned around.
LEMMA MetIsConnected ==
  ASSUME SearchInv, best_cost < INF
  PROVE  Distance(graph, query.source, query.target) < INF
<1> DEFINE s == query.source
           t == query.target
           v == v_min_node
<1>1. /\ graph \in SUBSET Arc /\ Reversed(graph) \in SUBSET Arc
      /\ s \in Vertex /\ t \in Vertex /\ v \in Vertex
      /\ forward \in Side /\ backward \in Side
      /\ NotBelowPotentials(forward, graph, s)
      /\ NotBelowPotentials(backward, Reversed(graph), t)
      /\ best_cost = forward.cost[v] + backward.cost[v]
  BY GraphsAssumption, ReversedArcs DEF SearchInv, SideInv, TypeOK, Query, MeetingIsFinal
<1>2. PICK G : IsGreatest(graph, s, G)
  BY <1>1, GreatestExists
<1>3. Distance(graph, s, t) = G[t]
  BY <1>1, <1>2, DistanceIsGreatest
<1>4. Potential(graph, s, G)
  BY <1>2 DEF IsGreatest
<1>5. /\ G \in [Vertex -> 0..INF]
      /\ \A a \in graph : G[a.to] <= G[a.from] + a.cost
  BY <1>4 DEF Potential
<1>6. \A w \in Vertex : G[w] \in Nat /\ G[w] <= INF
  BY <1>5, InfAssumption
<1>7. G[v] <= forward.cost[v]
  BY <1>1, <1>4, <1>5 DEF NotBelowPotentials
<1> DEFINE Left(m) == IF m <= G[t] THEN G[t] - m ELSE 0
           D == [w \in Vertex |-> Left(G[w])]
<1>8. PICK g : g = G[t]
  OBVIOUS
<1>9. g \in Nat /\ g <= INF
  BY <1>1, <1>6, <1>8
<1>10. /\ \A m \in Nat : Left(m) \in 0..INF /\ g <= Left(m) + m
       /\ \A p, q, c \in Nat : p <= q + c => Left(q) <= Left(p) + c
       /\ Left(g) = 0
  BY <1>8, <1>9, InfAssumption
<1> HIDE DEF Left
<1>11. D \in [Vertex -> 0..INF] /\ \A w \in Vertex : D[w] = Left(G[w])
  BY <1>6, <1>10
<1> HIDE DEF D
<1>12. ASSUME NEW r \in Reversed(graph) PROVE D[r.to] <= D[r.from] + r.cost
  <2>1. PICK a \in graph : a.from = r.to /\ a.to = r.from /\ a.cost = r.cost
    BY <1>1 DEF Reversed, Arc
  <2>2. a.from \in Vertex /\ a.to \in Vertex /\ a.cost \in Nat
    BY <1>1 DEF Arc
  <2>3. G[a.to] <= G[a.from] + a.cost
    BY <1>5
  <2>4. Left(G[a.from]) <= Left(G[a.to]) + a.cost
    BY <2>2, <2>3, <1>6, <1>10
  <2>5. QED
    BY <2>1, <2>2, <2>4, <1>11
<1>13. D[t] = 0
  BY <1>1, <1>8, <1>10, <1>11
<1>14. Potential(Reversed(graph), t, D)
  BY <1>11, <1>12, <1>13 DEF Potential
<1>15. D[v] <= backward.cost[v]
  BY <1>1, <1>11, <1>14 DEF NotBelowPotentials
<1>16. PICK x : x = G[v]
  OBVIOUS
<1>17. PICK y : y = D[v]
  OBVIOUS
<1>18. PICK f : f = forward.cost[v]
  OBVIOUS
<1>19. PICK b : b = backward.cost[v]
  OBVIOUS
<1>20. x \in Nat /\ y \in Nat /\ g <= y + x
  <2>1. x \in Nat
    BY <1>1, <1>6, <1>16
  <2>2. y = Left(x)
    BY <1>1, <1>11, <1>16, <1>17
  <2>3. Left(x) \in 0..INF /\ g <= Left(x) + x
    BY <2>1, <1>10
  <2>4. QED
    BY <2>1, <2>2, <2>3, InfAssumption
<1>21. f \in Nat /\ b \in Nat
  BY <1>1, <1>18, <1>19, InfAssumption DEF Side
<1>22. x <= f /\ y <= b /\ f + b < INF
  BY <1>1, <1>7, <1>15, <1>16, <1>17, <1>18, <1>19
<1>23. g < INF
  BY ONLY <1>20, <1>21, <1>22, <1>9, InfAssumption
<1>24. QED
  BY <1>3, <1>8, <1>23

----------------------------------------------------------------------------
(***************************************************************************)
(* The search implements PathQuery.                                        *)
(***************************************************************************)
\* The distances of the specification are those of the search.
LEMMA SameDistance ==
  ASSUME NEW arcs, NEW root, NEW v
  PROVE  Caller!Distance(arcs, root, v) = Distance(arcs, root, v)
<1>1. Caller!WalkCosts(arcs, root) = WalkCosts(arcs, root)
  BY DEF Caller!WalkCosts, WalkCosts, Caller!Cardinality, Cardinality
<1>2. PICK W : W = WalkCosts(arcs, root)
  OBVIOUS
<1>3. PICK S : S = {INF} \cup {w[2] : w \in {x \in W : x[1] = v}}
  OBVIOUS
<1>4. Caller!Distance(arcs, root, v) = Caller!Min(S)
  BY <1>1, <1>2, <1>3 DEF Caller!Distance
<1>5. Distance(arcs, root, v) = Min(S)
  BY <1>2, <1>3 DEF Distance
<1>6. Caller!Min(S) = Min(S)
  BY DEF Caller!Min, Min
<1>7. QED
  BY <1>4, <1>5, <1>6

\* The rows that are returned are those of the path without their positions, and one more.
LEMMA ListedIsRoute ==
  ASSUME NEW rows, NEW n \in Nat \ {0}, NEW at, IsWay(rows, n, at),
         NEW listed, listed = [i \in DOMAIN rows |->
                       [node |-> rows[i].node, edge |-> rows[i].edge, cost |-> rows[i].cost]]
  PROVE  Caller!IsRoute(graph, query.source, query.target, Append(listed, LastRow(0)))
<1>1. /\ IsList(rows) /\ Len(rows) = n
      /\ at[1] = query.source /\ at[n + 1] = query.target
      /\ \A i \in 1..n : \E a \in graph : /\ a.from = at[i] /\ a.to = at[i + 1]
                                          /\ rows[i].node = a.from /\ rows[i].edge = a.id
                                          /\ rows[i].cost = a.cost
  BY DEF IsWay
<1>2. DOMAIN rows = 1..n
  BY <1>1 DEF IsList
<1> DEFINE X == {listed[i] : i \in 1..n}
<1>3. listed \in [1..n -> X]
  BY <1>2
<1> HIDE DEF X
<1>4. listed \in Seq(X) /\ Len(listed) = n
  BY <1>3, FunctionIsList
<1>5. PICK r : r = LastRow(0)
  OBVIOUS
<1>6. PICK all : all = Append(listed, r)
  OBVIOUS
<1>7. /\ Len(all) = n + 1 /\ all[n + 1] = r
      /\ \A i \in 1..n : all[i] = listed[i]
  BY <1>4, <1>6
<1>8. r = [node |-> query.target, edge |-> NoEdge, cost |-> 0]
  BY <1>5 DEF LastRow
<1>9. \A i \in 1..n : /\ all[i].node = rows[i].node /\ all[i].edge = rows[i].edge
                      /\ all[i].cost = rows[i].cost
  BY <1>2, <1>7
<1>10. \A i \in 1..n + 1 : all[i].node = at[i]
  <2>1. ASSUME NEW i \in 1..n + 1 PROVE all[i].node = at[i]
    <3>1. CASE i = n + 1
      BY <3>1, <1>1, <1>7, <1>8
    <3>2. CASE i # n + 1
      <4>1. i \in 1..n
        BY <3>2
      <4>2. QED
        BY <4>1, <1>1, <1>9
    <3>3. QED
      BY <3>1, <3>2
  <2>2. QED
    BY <2>1
<1>11. Len(all) > 1 /\ all[1].node = query.source /\ all[Len(all)] = r /\ Len(all) - 1 = n
  BY <1>1, <1>7, <1>10
<1>12. ASSUME NEW i \in 1..n
       PROVE  \E a \in graph : /\ a.from = all[i].node /\ a.to = all[i + 1].node
                               /\ a.id = all[i].edge /\ a.cost = all[i].cost
  <2>1. i \in 1..n + 1 /\ i + 1 \in 1..n + 1
    OBVIOUS
  <2>2. all[i].node = at[i] /\ all[i + 1].node = at[i + 1]
    BY <2>1, <1>10
  <2>3. PICK a \in graph : /\ a.from = at[i] /\ a.to = at[i + 1]
                           /\ rows[i].edge = a.id /\ rows[i].cost = a.cost
    BY <1>1
  <2>4. QED
    BY <2>2, <2>3, <1>9
<1>13. Caller!IsRoute(graph, query.source, query.target, all)
  <2>1. Caller!Last(all) = r
    BY <1>11 DEF Caller!Last
  <2>2. Caller!NoEdge = NoEdge
    BY DEF Caller!NoEdge, NoEdge
  <2>3. QED
    BY <2>1, <2>2, <1>8, <1>11, <1>12 DEF Caller!IsRoute
<1>14. QED
  BY <1>5, <1>6, <1>13

\* What Return answers.
LEMMA ReturnAnswers ==
  ASSUME NamesAreOwn, SearchInv, WaysBack, best_cost <= INF, Return
  PROVE  Caller!IsAnswer(answer')
<1>1. PICK rows : rows = PathRows(TreeWalk(forward, v_min_node), TreeWalk(backward, v_min_node))
  OBVIOUS
<1>2. PICK listed : listed = [i \in DOMAIN rows |->
                       [node |-> rows[i].node, edge |-> rows[i].edge, cost |-> rows[i].cost]]
  OBVIOUS
<1>3. /\ answer' = IF best_cost = INF \/ rows = <<>> THEN <<>>
                   ELSE IF query.only_cost THEN <<LastRow(TotalCost(rows))>>
                   ELSE Append(listed, LastRow(0))
      /\ UNCHANGED <<graph, query>>
  BY <1>1, <1>2 DEF Return
<1>4. /\ graph \in Graphs /\ query.source \in Vertex /\ query.target \in Vertex
      /\ query.only_cost \in BOOLEAN /\ best_cost \in Nat
  BY DEF SearchInv, TypeOK, Query
<1>5. CASE best_cost = INF \/ rows = <<>>
  BY <1>3, <1>5 DEF Caller!IsAnswer
<1>6. CASE ~ (best_cost = INF \/ rows = <<>>)
  <2>1. best_cost < INF
    BY <1>4, <1>6, InfAssumption
  <2>2. PICK n \in Nat \ {0} : \E at : IsWay(rows, n, at)
    BY <1>1, <1>6, <2>1, PathIsWay
  <2>3. PICK at : IsWay(rows, n, at)
    BY <2>2
  <2>4. CASE query.only_cost
    <3>1. PICK k : k = TotalCost(rows)
      OBVIOUS
    <3>2. k \in Nat /\ Distance(graph, query.source, query.target) <= k
      BY <3>1, <2>3, <1>4, TotalIsEnough
    <3>3. Distance(graph, query.source, query.target) < INF
      BY <2>1, MetIsConnected
    <3>4. PICK r : r = LastRow(k)
      OBVIOUS
    <3>5. r.node = query.target /\ r.edge = NoEdge /\ r.cost = k
      BY <3>4 DEF LastRow
    <3>6. answer' = <<r>>
      BY <3>1, <3>4, <2>4, <1>3, <1>6
    <3>7. Len(<<r>>) = 1 /\ <<r>>[1] = r
      OBVIOUS
    <3>8. PICK x : x = Distance(graph, query.source, query.target)
      OBVIOUS
    <3>9. x \in Int /\ x <= k
      <4>1. graph \in SUBSET Arc
        BY <1>4, GraphsAssumption
      <4>2. x \in 0..INF
        BY <4>1, <3>8, <1>4, DistanceFacts
      <4>3. QED
        BY <4>2, <3>2, <3>8, InfAssumption
    <3>10. k >= x
      BY <3>9, <3>2
    <3>11. Caller!IsTotal(graph, query.source, query.target, <<r>>)
      <4>1. Caller!Distance(graph, query.source, query.target) = x
        BY <3>8, SameDistance
      <4>2. Caller!NoEdge = NoEdge
        BY DEF Caller!NoEdge, NoEdge
      <4>3. x < INF
        BY <3>3, <3>8
      <4>4. QED
        BY <3>5, <3>7, <3>10, <4>1, <4>2, <4>3 DEF Caller!IsTotal
    <3>12. QED
      BY <3>6, <3>11, <2>4, <1>3 DEF Caller!IsAnswer
  <2>5. CASE ~ query.only_cost
    <3>1. answer' = Append(listed, LastRow(0))
      BY <2>5, <1>3, <1>6
    <3>2. Caller!IsRoute(graph, query.source, query.target, Append(listed, LastRow(0)))
      BY <2>3, <1>2, ListedIsRoute
    <3>3. QED
      BY <3>1, <3>2, <2>5, <1>3 DEF Caller!IsAnswer
  <2>6. QED
    BY <2>4, <2>5
<1>7. QED
  BY <1>5, <1>6

\* What the refinement rests on besides the invariant of the search.
AnswerInv == SearchInv /\ WaysBack /\ best_cost <= INF

\* The initial states satisfy it,
LEMMA InitAnswerInv == Init => AnswerInv
<1>1. Init => best_cost <= INF
  BY InfAssumption DEF Init
<1>2. QED
  BY <1>1, InitSearchInv, InitWaysBack DEF AnswerInv

\* and every step keeps it: a meeting is only ever replaced by one that costs no more.
LEMMA NextAnswerInv == AnswerInv /\ [Next]_vars => AnswerInv'
<1> SUFFICES ASSUME AnswerInv, [Next]_vars PROVE AnswerInv'
  OBVIOUS
<1>1. SearchInv' /\ WaysBack'
  BY NextSearchInv, NextWaysBack DEF AnswerInv
<1>2. best_cost \in Nat /\ best_cost' \in Nat /\ best_cost <= INF
  BY <1>1 DEF AnswerInv, SearchInv, TypeOK
<1>3. ASSUME NEW v, Found(v) PROVE best_cost' <= INF
  BY <1>2, <1>3, InfAssumption DEF Found
<1>4. best_cost' <= INF
  <2>1. CASE pgr_bdDijkstra
    BY <2>1, InfAssumption DEF pgr_bdDijkstra, Ask
  <2>2. CASE StepForward
    BY <2>2, <1>3 DEF StepForward
  <2>3. CASE StepBackward
    BY <2>3, <1>3 DEF StepBackward
  <2>4. CASE Exhausted \/ Return \/ UNCHANGED vars
    BY <2>4, <1>2 DEF Exhausted, Return, vars
  <2>5. QED
    BY <2>1, <2>2, <2>3, <2>4 DEF Next
<1>5. QED
  BY <1>1, <1>4 DEF AnswerInv

\* A call is a query; the loop is unseen; the return is the reply.
LEMMA StepImplements ==
  ASSUME NamesAreOwn
  PROVE  AnswerInv /\ [Next]_vars => [Caller!Next]_(Caller!vars)
<1> SUFFICES ASSUME AnswerInv, [Next]_vars PROVE [Caller!Next]_(Caller!vars)
  OBVIOUS
<1> USE DEF Caller!Next, Caller!vars
<1>1. CASE pgr_bdDijkstra
  <2>1. PICK s \in Vertex, t \in Vertex, only_cost \in BOOLEAN : Ask(s, t, only_cost)
    BY <1>1 DEF pgr_bdDijkstra
  <2>2. /\ status \in {"idle", "answered"} /\ status' = "searching"
        /\ s \in VerticesOf(graph) /\ t \in VerticesOf(graph)
        /\ query'.source = s /\ query'.target = t
        /\ answer' = <<>> /\ UNCHANGED graph
    BY <2>1 DEF Ask
  <2>3. Caller!Ask
    BY <2>2 DEF Caller!Ask, Caller!VerticesOf, VerticesOf
  <2>4. QED
    BY <2>3
<1>2. CASE StepForward \/ StepBackward
  <2>1. UNCHANGED <<graph, query, answer>>
    BY <1>2 DEF StepForward, StepBackward
  <2>2. status = "searching" /\ status' \in {"searching", "stopped"}
    BY <1>2 DEF StepForward, StepBackward, Continue, Found
  <2>3. QED
    BY <2>1, <2>2
<1>3. CASE Exhausted
  BY <1>3 DEF Exhausted
<1>4. CASE Return
  <2>1. Caller!IsAnswer(answer')
    BY <1>4, ReturnAnswers DEF AnswerInv
  <2>2. status = "stopped" /\ status' = "answered" /\ UNCHANGED <<graph, query>>
    BY <1>4 DEF Return
  <2>3. Caller!Reply
    BY <2>1, <2>2 DEF Caller!Reply
  <2>4. QED
    BY <2>3
<1>5. CASE UNCHANGED vars
  BY <1>5 DEF vars
<1>6. QED
  BY <1>1, <1>2, <1>3, <1>4, <1>5 DEF Next

\* Each query gets one answer, which is empty or a route from the source to the target, or a
\* cost no route goes below, where a vertex has one edge of each name.
THEOREM AnswersAreRoutesTheorem ==
  ASSUME NamesAreOwn
  PROVE  Spec => AnswersAreRoutes
<1>1. Init => AnswerInv /\ Caller!Init
  <2>1. ASSUME Init PROVE Caller!Init
    <3>1. Min(Vertex) \in Vertex
      BY VertexAssumption, MinOfNaturals
    <3>2. QED
      BY <2>1, <3>1 DEF Init, Caller!Init
  <2>2. QED
    BY <2>1, InitAnswerInv
<1>2. AnswerInv /\ [Next]_vars => AnswerInv' /\ [Caller!Next]_(Caller!vars)
  BY NextAnswerInv, StepImplements
<1>3. QED
  BY <1>1, <1>2, PTL DEF Spec, AnswersAreRoutes, Caller!Spec
=============================================================================
