--------------------------- MODULE BdAstarProofs ---------------------------
(***************************************************************************)
(* Proofs about BdAstar, for every graph, position of the vertices and     *)
(* sequence of queries.                                                    *)
(*                                                                         *)
(* The inductive invariant of the forward side (Towards) is that of A*:    *)
(* an unfinished vertex waits under its label and estimate, and no         *)
(* finished vertex has a greater one than an entry that is still queued.   *)
(* It begins with the first vertex that is taken out: the source waits     *)
(* under zero and not under its estimate.                                  *)
(***************************************************************************)
EXTENDS BdAstar, RoadGraphProofs

\* No label is less than a distance.
NotBelow(side, arcs, root) ==
  \A D : Potential(arcs, root, D) => \A v \in Vertex : D[v] <= side.cost[v]

\* The arcs out of what is finished have been relaxed.
Relaxed(side, arcs) ==
  \A a \in arcs : a.from \in side.finished => side.cost[a.to] <= side.cost[a.from] + a.cost

\* The key of a vertex that has a label.
Key(side, v, h) == side.cost[v] + h[v]

\* A side that has begun.
Towards(side, arcs, root, h) ==
  /\ side \in Side
  /\ side.cost[root] = 0
  /\ \A v \in side.finished : side.cost[v] < INF
  /\ \A v \in Vertex \ side.finished :
       side.cost[v] < INF => <<Key(side, v, h), v>> \in side.queue
  /\ \A q \in side.queue : Key(side, q[2], h) <= q[1]
  /\ \A v \in side.finished, q \in side.queue : Key(side, v, h) <= q[1]
  /\ Relaxed(side, arcs)
  /\ NotBelow(side, arcs, root)

\* A side whose least entry, of the unfinished vertex u, has been taken out.
Taken(side, arcs, root, u, h) ==
  /\ side \in Side
  /\ u \in Vertex \ side.finished /\ side.cost[u] < INF
  /\ side.cost[root] = 0
  /\ \A v \in side.finished : side.cost[v] < INF /\ Key(side, v, h) <= Key(side, u, h)
  /\ \A v \in Vertex \ side.finished :
       v # u /\ side.cost[v] < INF => <<Key(side, v, h), v>> \in side.queue
  /\ \A q \in side.queue : Key(side, q[2], h) <= q[1] /\ Key(side, u, h) <= q[1]
  /\ Relaxed(side, arcs)
  /\ NotBelow(side, arcs, root)

----------------------------------------------------------------------------
(***************************************************************************)
(* One side.                                                               *)
(***************************************************************************)
\* What Explore does: a vertex keeps its label or gets the cost of an arc that
\* relaxes it, no cheaper arc is left behind, and the queue receives the entry
\* that goes with a new label and no entry of another kind.
Untouched(s, side, v) ==
  s.cost[v] = side.cost[v] /\ s.predecessor[v] = side.predecessor[v]

Improved(s, side, arcs, u, k, h, v) ==
  /\ v \notin side.finished
  /\ s.cost[v] < side.cost[v]
  /\ s.predecessor[v] = u
  /\ <<s.cost[v] + h[v], v>> \in s.queue
  /\ \E a \in arcs : a.from = u /\ a.to = v /\ s.cost[v] = k + a.cost

NewEntry(q, side, arcs, u, k, h) ==
  \E a \in arcs : /\ a.from = u /\ a.to = q[2] /\ a.to \notin side.finished
                  /\ q[1] = k + a.cost + h[a.to] /\ k + a.cost < side.cost[a.to]

Explored(s, side, arcs, u, k, h) ==
  /\ s \in Side
  /\ s.finished = side.finished \cup {u}
  /\ \A v \in Vertex : Untouched(s, side, v) \/ Improved(s, side, arcs, u, k, h, v)
  /\ \A a \in arcs : a.from = u /\ a.to \notin side.finished =>
                       s.cost[a.to] <= k + a.cost
  /\ side.queue \subseteq s.queue
  /\ \A q \in s.queue \ side.queue : NewEntry(q, side, arcs, u, k, h)

\* What exploring the arcs out of one vertex changes, and what it leaves.
LEMMA ExploreEffect ==
  ASSUME NEW arcs \in SUBSET Arc, NEW side \in Side,
         NEW u \in Vertex, NEW k \in Nat, NEW h \in [Vertex -> Nat],
         NEW s, s = Explore(side, arcs, u, k, h)
  PROVE  Explored(s, side, arcs, u, k, h)
<1> DEFINE gains == Gains(side, arcs, u, k)
           C(v) == CostsTo(gains, v)
<1>1. /\ gains \subseteq arcs
      /\ \A a \in gains : /\ a.from = u /\ a.to \notin side.finished
                          /\ k + a.cost < side.cost[a.to]
                          /\ a.cost \in Nat /\ a.pos \in Nat /\ a.to \in Vertex
  BY DEF Gains, Arc
<1>2. \A a \in arcs : a.from = u /\ a.to \notin side.finished /\ a \notin gains =>
                        side.cost[a.to] <= k + a.cost
  BY InfAssumption DEF Gains, Arc, Side
<1>3. \A v \in Vertex : C(v) \in SUBSET Nat
  BY <1>1 DEF CostsTo
<1>4. \A v \in Vertex : C(v) # {} => Min(C(v)) \in C(v) /\ \A c \in C(v) : Min(C(v)) <= c
  BY <1>3, MinOfNaturals
<1>5. \A v \in Vertex : C(v) # {} =>
        \E a \in gains : a.to = v /\ a.cost = Min(C(v))
  BY <1>4 DEF CostsTo
<1>6. \A a \in gains : C(a.to) # {} /\ Min(C(a.to)) <= a.cost
  <2> SUFFICES ASSUME NEW a \in gains
               PROVE  C(a.to) # {} /\ Min(C(a.to)) <= a.cost
    OBVIOUS
  <2>1. a.cost \in C(a.to)
    BY DEF CostsTo
  <2>2. QED
    BY <1>1, <1>4, <2>1
<1>7. /\ s.cost = [v \in Vertex |-> IF C(v) # {} THEN k + Min(C(v)) ELSE side.cost[v]]
      /\ s.predecessor = [v \in Vertex |-> IF C(v) # {} THEN u ELSE side.predecessor[v]]
      /\ s.finished = side.finished \cup {u}
      /\ s.queue = side.queue \cup {<<k + a.cost + h[a.to], a.to>> : a \in Pushed(gains)}
      /\ s = [cost |-> s.cost, predecessor |-> s.predecessor,
              finished |-> s.finished, queue |-> s.queue]
  BY DEF Explore
<1>8. \A a \in gains : h[a.to] \in Nat
  BY <1>1
<1>9. ASSUME NEW v \in Vertex, C(v) # {}
      PROVE  /\ v \notin side.finished
             /\ s.cost[v] < side.cost[v]
             /\ s.cost[v] \in Nat
             /\ s.predecessor[v] = u
             /\ <<s.cost[v] + h[v], v>> \in s.queue
             /\ \E a \in arcs : a.from = u /\ a.to = v /\ s.cost[v] = k + a.cost
  <2> DEFINE cheapest == {b \in gains : b.to = v /\ b.cost = Min(C(v))}
             places   == {b.pos : b \in cheapest}
  <2>1. cheapest # {} /\ places # {} /\ places \in SUBSET Nat
    BY <1>5, <1>9, <1>1
  <2>2. PICK a \in cheapest : a.pos = Min(places)
    BY <2>1, MinOfNaturals
  <2>3. \A b \in cheapest : a.pos <= b.pos
    BY <2>1, <2>2, MinOfNaturals
  <2>4. a \in Pushed(gains)
    <3> SUFFICES ASSUME NEW b \in gains, b.to = v, b.pos < a.pos
                 PROVE  a.cost < b.cost
      BY <2>2 DEF Pushed
    <3>1. b \notin cheapest
      BY <2>3, <2>2, <1>1
    <3>2. a.cost <= b.cost /\ a.cost # b.cost
      BY <3>1, <1>6, <2>2
    <3>3. QED
      BY <3>2, <1>1, <2>2
  <2>5. s.cost[v] = k + a.cost
    BY <1>7, <1>9, <2>2
  <2>6. <<s.cost[v] + h[v], v>> \in s.queue
    BY <2>4, <2>5, <2>2, <1>7
  <2>7. QED
    BY <2>2, <2>5, <2>6, <1>1, <1>7, <1>9
<1>10. \A v \in Vertex : C(v) = {} =>
         s.cost[v] = side.cost[v] /\ s.predecessor[v] = side.predecessor[v]
  BY <1>7
<1>11. \A v \in Vertex : side.cost[v] \in 0..INF
  BY DEF Side
<1>12. s \in Side
  <2>1. ASSUME NEW v \in Vertex PROVE s.cost[v] \in 0..INF
    <3>1. CASE C(v) = {}
      BY <3>1, <1>10, <1>11
    <3>2. CASE C(v) # {}
      <4>1. s.cost[v] < side.cost[v] /\ s.cost[v] \in Nat
        BY <3>2, <1>9, Zenon
      <4>2. side.cost[v] \in 0..INF
        BY <1>11
      <4>3. QED
        BY <4>1, <4>2, InfAssumption
    <3>3. QED
      BY <3>1, <3>2
  <2>2. s.queue \in SUBSET (Nat \X Vertex)
    BY <1>7, <1>8, <1>1 DEF Side, Pushed
  <2>3. s.finished \in SUBSET Vertex
    BY <1>7 DEF Side
  <2>4. s.predecessor \in [Vertex -> Vertex]
    BY <1>7 DEF Side
  <2>5. s.cost \in [Vertex -> 0..INF]
    BY <2>1, <1>7
  <2>6. QED
    BY <2>2, <2>3, <2>4, <2>5, <1>7 DEF Side
<1>13. \A a \in arcs : a.from = u /\ a.to \notin side.finished => s.cost[a.to] <= k + a.cost
  <2> SUFFICES ASSUME NEW a \in arcs, a.from = u, a.to \notin side.finished
               PROVE  s.cost[a.to] <= k + a.cost
    OBVIOUS
  <2>1. a.to \in Vertex /\ a.cost \in Nat
    BY DEF Arc
  <2>2. CASE a \in gains
    <3>1. s.cost[a.to] = k + Min(C(a.to)) /\ Min(C(a.to)) <= a.cost /\ Min(C(a.to)) \in Nat
      BY <1>6, <1>7, <2>1, <2>2, <1>3, <1>4
    <3>2. QED
      BY <3>1, <2>1
  <2>3. CASE a \notin gains
    <3>1. side.cost[a.to] <= k + a.cost
      BY <1>2, <2>3
    <3>2. s.cost[a.to] <= side.cost[a.to]
      <4>1. CASE C(a.to) = {}
        BY <4>1, <1>10, <1>11, <2>1
      <4>2. CASE C(a.to) # {}
        <5>1. s.cost[a.to] < side.cost[a.to] /\ s.cost[a.to] \in Nat
          BY <4>2, <1>9, <2>1, Zenon
        <5>2. side.cost[a.to] \in 0..INF
          BY <1>11, <2>1
        <5>3. QED
          BY <5>1, <5>2, InfAssumption
      <4>3. QED
        BY <4>1, <4>2
    <3>3. QED
      BY <3>1, <3>2, <1>12, <1>11, <2>1, InfAssumption DEF Side
  <2>4. QED
    BY <2>2, <2>3
<1>14. \A q \in s.queue \ side.queue : NewEntry(q, side, arcs, u, k, h)
  BY <1>7, <1>1 DEF Pushed, NewEntry
<1>15. \A v \in Vertex : Untouched(s, side, v) \/ Improved(s, side, arcs, u, k, h, v)
  BY <1>9, <1>10 DEF Untouched, Improved
<1>16. QED
  BY <1>7, <1>12, <1>13, <1>14, <1>15 DEF Explored

\* The vertex that was taken out is finished, and the side has begun: a vertex that
\* was finished before is not closer by way of it, for the estimate drops by at most
\* the cost of the arc.
LEMMA TakenIsFinished ==
  ASSUME NEW arcs \in SUBSET Arc, NEW root \in Vertex, NEW u,
         NEW h \in [Vertex -> Nat], Consistent(arcs, h),
         NEW p, Taken(p, arcs, root, u, h),
         NEW s, s = Explore(p, arcs, u, p.cost[u], h)
  PROVE  Towards(s, arcs, root, h)
<1> DEFINE k == p.cost[u]
<1>0. INF \in Nat \ {0}
  BY InfAssumption
<1>1. /\ p \in Side /\ u \in Vertex /\ u \notin p.finished /\ k < INF
      /\ k \in 0..INF /\ k \in Nat
  BY <1>0 DEF Taken, Side
<1>2. /\ s \in Side
      /\ s.finished = p.finished \cup {u}
      /\ \A v \in Vertex : Untouched(s, p, v) \/ Improved(s, p, arcs, u, k, h, v)
      /\ \A a \in arcs : a.from = u /\ a.to \notin p.finished => s.cost[a.to] <= k + a.cost
      /\ p.queue \subseteq s.queue
      /\ \A q \in s.queue \ p.queue : NewEntry(q, p, arcs, u, k, h)
  <2>1. Explored(s, p, arcs, u, k, h)
    BY <1>1, ExploreEffect
  <2>2. QED
    BY <2>1 DEF Explored
<1>3. \A a \in arcs : a.cost \in Nat /\ a.from \in Vertex /\ a.to \in Vertex
  BY DEF Arc
<1>4. /\ \A v \in Vertex : s.cost[v] \in 0..INF /\ p.cost[v] \in 0..INF /\ h[v] \in Nat
      /\ \A q \in s.queue : q[1] \in Nat /\ q[2] \in Vertex
  BY <1>1, <1>2 DEF Side
<1>5. \A a \in arcs : h[a.from] <= a.cost + h[a.to]
  BY DEF Consistent
<1>6. \A v \in Vertex : s.cost[v] <= p.cost[v]
  <2> SUFFICES ASSUME NEW v \in Vertex PROVE s.cost[v] <= p.cost[v]
    OBVIOUS
  <2>1. s.cost[v] = p.cost[v] \/ s.cost[v] < p.cost[v]
    BY <1>2 DEF Untouched, Improved
  <2>2. QED
    BY <2>1, <1>0, <1>4
<1>7. \A v \in s.finished : v \in Vertex /\ s.cost[v] = p.cost[v]
  <2> SUFFICES ASSUME NEW v \in s.finished PROVE v \in Vertex /\ s.cost[v] = p.cost[v]
    OBVIOUS
  <2>1. v \in Vertex /\ (v \in p.finished \/ v = u)
    BY <1>1, <1>2 DEF Side
  <2>2. \A a \in arcs : ~ (k + a.cost < k)
    BY <1>1, <1>3
  <2>3. ~ Improved(s, p, arcs, u, k, h, v)
    BY <2>1, <2>2 DEF Improved
  <2>4. QED
    BY <2>1, <2>3, <1>2 DEF Untouched
<1>8. s.cost[root] = 0
  BY <1>4, <1>6 DEF Taken
<1>9. \A v \in s.finished : s.cost[v] < INF
  BY <1>1, <1>2, <1>7 DEF Taken
<1>10. ASSUME NEW v \in Vertex \ s.finished, s.cost[v] < INF
       PROVE  <<Key(s, v, h), v>> \in s.queue
  <2>1. CASE Untouched(s, p, v)
    <3>1. v # u /\ v \notin p.finished /\ s.cost[v] = p.cost[v]
      BY <2>1, <1>2 DEF Untouched
    <3>2. <<Key(p, v, h), v>> \in p.queue
      BY <3>1, <1>10 DEF Taken
    <3>3. QED
      BY <3>1, <3>2, <1>2 DEF Key
  <2>2. CASE Improved(s, p, arcs, u, k, h, v)
    BY <2>2 DEF Improved, Key
  <2>3. QED
    BY <2>1, <2>2, <1>2
<1>11. ASSUME NEW q \in s.queue
       PROVE  Key(s, q[2], h) <= q[1] /\ Key(p, u, h) <= q[1]
  <2>1. CASE q \in p.queue
    <3>1. Key(p, q[2], h) <= q[1] /\ Key(p, u, h) <= q[1]
      BY <2>1 DEF Taken
    <3>2. q[2] \in Vertex /\ s.cost[q[2]] <= p.cost[q[2]]
      BY <1>4, <1>6
    <3>3. QED
      BY <3>1, <3>2, <1>4 DEF Key
  <2>2. CASE q \notin p.queue
    <3>1. PICK a \in arcs : /\ a.from = u /\ a.to = q[2] /\ a.to \notin p.finished
                            /\ q[1] = k + a.cost + h[a.to]
      BY <2>2, <1>2 DEF NewEntry
    <3>2. s.cost[a.to] <= k + a.cost /\ h[u] <= a.cost + h[a.to]
      BY <3>1, <1>2, <1>5
    <3>3. a.cost \in Nat /\ a.to \in Vertex /\ s.cost[a.to] \in 0..INF /\ h[a.to] \in Nat /\ h[u] \in Nat
      BY <3>1, <1>1, <1>3, <1>4
    <3>4. QED
      BY <3>1, <3>2, <3>3, <1>1 DEF Key
  <2>3. QED
    BY <2>1, <2>2
<1>12. ASSUME NEW v \in s.finished PROVE Key(s, v, h) <= Key(p, u, h)
  <2>1. Key(s, v, h) = Key(p, v, h) /\ v \in Vertex /\ (v \in p.finished \/ v = u)
    BY <1>2, <1>7 DEF Key
  <2>2. Key(p, v, h) \in Nat
    BY <2>1, <1>4 DEF Key
  <2>3. QED
    BY <2>1, <2>2 DEF Taken
<1>13. ASSUME NEW v \in s.finished, NEW q \in s.queue PROVE Key(s, v, h) <= q[1]
  <2>1. Key(s, v, h) \in Nat /\ Key(p, u, h) \in Nat /\ q[1] \in Nat
    BY <1>1, <1>4, <1>7 DEF Key
  <2>2. QED
    BY <2>1, <1>11, <1>12
<1>14. ASSUME NEW a \in arcs, a.from \in s.finished
       PROVE  s.cost[a.to] <= s.cost[a.from] + a.cost
  <2>0. /\ a.cost \in Nat /\ a.from \in Vertex /\ a.to \in Vertex
        /\ s.cost[a.to] \in 0..INF /\ s.cost[a.from] \in 0..INF
        /\ p.cost[a.to] \in 0..INF /\ p.cost[a.from] \in 0..INF
        /\ h[a.to] \in Nat /\ h[a.from] \in Nat
        /\ s.cost[a.to] <= p.cost[a.to] /\ s.cost[a.from] = p.cost[a.from]
    BY <1>3, <1>4, <1>6, <1>7, <1>14
  <2>1. CASE a.from \in p.finished
    <3>1. p.cost[a.to] <= p.cost[a.from] + a.cost
      BY <2>1 DEF Taken, Relaxed
    <3>2. QED
      BY <3>1, <2>0
  <2>2. CASE a.from = u /\ a.to \notin p.finished
    BY <2>0, <2>2, <1>2
  <2>3. CASE a.from = u /\ a.to \in p.finished
    <3>1. p.cost[a.to] + h[a.to] <= p.cost[u] + h[u]
      BY <2>3 DEF Taken, Key
    <3>2. h[u] <= a.cost + h[a.to]
      BY <2>3, <1>5
    <3>3. QED
      BY <3>1, <3>2, <2>0, <2>3
  <2>4. QED
    BY <2>1, <2>2, <2>3, <1>2, <1>14
<1>15. ASSUME NEW D, Potential(arcs, root, D), NEW v \in Vertex PROVE D[v] <= s.cost[v]
  <2>0. /\ \A w \in Vertex : D[w] \in 0..INF
        /\ \A a \in arcs : D[a.to] <= D[a.from] + a.cost
        /\ \A w \in Vertex : D[w] <= p.cost[w]
    BY <1>15 DEF Potential, Taken, NotBelow
  <2>1. CASE Untouched(s, p, v)
    BY <2>0, <2>1 DEF Untouched
  <2>2. CASE Improved(s, p, arcs, u, k, h, v)
    <3>1. PICK a \in arcs : a.from = u /\ a.to = v /\ s.cost[v] = k + a.cost
      BY <2>2 DEF Improved
    <3>2. D[v] <= D[u] + a.cost /\ D[u] <= k /\ D[u] \in 0..INF /\ D[v] \in 0..INF
      BY <2>0, <3>1, <1>1
    <3>3. QED
      BY <3>1, <3>2, <1>1, <1>3
  <2>3. QED
    BY <2>1, <2>2, <1>2
<1>16. QED
  BY <1>2, <1>8, <1>9, <1>10, <1>11, <1>13, <1>14, <1>15 DEF Towards, Relaxed, NotBelow

\* The source is what is taken out first.
LEMMA RootTaken ==
  ASSUME NEW arcs \in SUBSET Arc, NEW root \in Vertex, NEW h \in [Vertex -> Nat],
         NEW q \in Rooted(root).queue
  PROVE  /\ q = <<0, root>>
         /\ Taken(Pop(Rooted(root), q), arcs, root, root, h)
<1> DEFINE p == Pop(Rooted(root), q)
<1>0. INF \in Nat \ {0}
  BY InfAssumption
<1>1. q = <<0, root>>
  BY DEF Rooted
<1>2. /\ p.queue = {} /\ p.finished = {}
      /\ p.cost = [v \in Vertex |-> IF v = root THEN 0 ELSE INF]
      /\ p \in Side
  <2>1. p = [Rooted(root) EXCEPT !.queue = {}]
    BY <1>1 DEF Rooted, Pop
  <2>2. Rooted(root) \in Side
    BY <1>0 DEF Rooted, Side
  <2>3. QED
    BY <2>1, <2>2 DEF Rooted, Side
<1> HIDE DEF p
<1>3. NotBelow(p, arcs, root)
  BY <1>0, <1>2 DEF NotBelow, Potential
<1>4. Relaxed(p, arcs)
  BY <1>2 DEF Relaxed
<1>5. \A v \in Vertex : v # root => ~ (p.cost[v] < INF)
  BY <1>0, <1>2
<1>6. p.cost[root] = 0 /\ 0 < INF
  BY <1>0, <1>2
<1>7. Taken(p, arcs, root, root, h)
  BY <1>2, <1>3, <1>4, <1>5, <1>6 DEF Taken
<1>8. QED
  BY <1>1, <1>7 DEF p

\* An entry of a vertex that is finished changes nothing else when it is taken out.
LEMMA StaleEntryTaken ==
  ASSUME NEW arcs, NEW root, NEW h, NEW side, Towards(side, arcs, root, h),
         NEW q \in side.queue, q[2] \in side.finished
  PROVE  Towards(Pop(side, q), arcs, root, h)
<1> DEFINE p == Pop(side, q)
<1>1. /\ p \in Side /\ p.cost = side.cost /\ p.finished = side.finished
      /\ p.queue = side.queue \ {q}
  BY DEF Pop, Towards, Side
<1> HIDE DEF p
<1>2. \A v \in Vertex \ side.finished : <<Key(side, v, h), v>> # q
  OBVIOUS
<1>3. \A v : Key(p, v, h) = Key(side, v, h)
  BY <1>1 DEF Key
<1>4. Relaxed(p, arcs) /\ NotBelow(p, arcs, root)
  BY <1>1 DEF Towards, Relaxed, NotBelow
<1>5. Towards(p, arcs, root, h)
  BY <1>1, <1>2, <1>3, <1>4 DEF Towards
<1>6. QED
  BY <1>5 DEF p

\* The least entry of an unfinished vertex is its label and estimate.
LEMMA LeastEntryTaken ==
  ASSUME NEW arcs \in SUBSET Arc, NEW root \in Vertex, NEW h \in [Vertex -> Nat],
         NEW side, Towards(side, arcs, root, h),
         NEW q, IsTop(q, side.queue), q[1] < INF, q[2] \notin side.finished
  PROVE  /\ q[1] = Key(side, q[2], h) /\ q[2] \in Vertex
         /\ Taken(Pop(side, q), arcs, root, q[2], h)
<1> DEFINE p == Pop(side, q)
           u == q[2]
<1>0. INF \in Nat \ {0}
  BY InfAssumption
<1>1. /\ side \in Side /\ q \in side.queue /\ q \in Nat \X Vertex
      /\ \A r \in side.queue : q[1] <= r[1] /\ r[1] \in Nat /\ r[2] \in Vertex
  BY DEF IsTop, Towards, Side
<1>2. u \in Vertex /\ q[1] \in Nat /\ q = <<q[1], u>>
  BY <1>1
<1>3. \A v \in Vertex : side.cost[v] \in 0..INF /\ h[v] \in Nat /\ Key(side, v, h) \in Nat
  BY <1>0, <1>1 DEF Side, Key
<1>4. Key(side, u, h) <= q[1]
  BY <1>1 DEF Towards
<1>5. side.cost[u] < INF
  BY <1>0, <1>2, <1>3, <1>4 DEF Key
<1>6. <<Key(side, u, h), u>> \in side.queue
  BY <1>2, <1>5 DEF Towards
<1>7. q[1] = Key(side, u, h)
  BY <1>1, <1>2, <1>3, <1>4, <1>6
<1>8. /\ p \in Side /\ p.cost = side.cost /\ p.finished = side.finished
      /\ p.queue = side.queue \ {q}
  BY <1>1 DEF Pop, Side
<1> HIDE DEF p
<1>9. \A v : Key(p, v, h) = Key(side, v, h)
  BY <1>8 DEF Key
<1>10. Relaxed(p, arcs) /\ NotBelow(p, arcs, root)
  BY <1>8 DEF Towards, Relaxed, NotBelow
<1>11. ASSUME NEW v \in Vertex \ p.finished, v # u, p.cost[v] < INF
       PROVE  <<Key(p, v, h), v>> \in p.queue
  BY <1>8, <1>9, <1>11 DEF Towards
<1>12. \A v \in p.finished : p.cost[v] < INF /\ Key(p, v, h) <= Key(p, u, h)
  BY <1>1, <1>7, <1>8, <1>9 DEF Towards
<1>13. \A r \in p.queue : Key(p, r[2], h) <= r[1] /\ Key(p, u, h) <= r[1]
  BY <1>1, <1>7, <1>8, <1>9 DEF Towards
<1>14. p.cost[root] = 0 /\ u \in Vertex \ p.finished /\ p.cost[u] < INF
  BY <1>2, <1>5, <1>8 DEF Towards
<1>15. Taken(p, arcs, root, u, h)
  BY <1>8, <1>10, <1>11, <1>12, <1>13, <1>14 DEF Taken
<1>16. QED
  BY <1>2, <1>7, <1>15 DEF p

\* What is finished has its distance: beyond the key of a finished vertex no label
\* can fall, so labels cut off there are a potential.
LEMMA FinishedIsExact ==
  ASSUME NEW arcs \in SUBSET Arc, NEW root \in Vertex, NEW h \in [Vertex -> Nat],
         Consistent(arcs, h), NEW side, Towards(side, arcs, root, h),
         NEW v \in side.finished
  PROVE  side.cost[v] = Distance(arcs, root, v)
<1> DEFINE K == Key(side, v, h)
           rest(w) == IF K <= h[w] THEN 0 ELSE K - h[w]
           P == [w \in Vertex |-> IF side.cost[w] <= rest(w) THEN side.cost[w] ELSE rest(w)]
<1>0. INF \in Nat \ {0}
  BY InfAssumption
<1>1. side \in Side /\ v \in Vertex /\ \A a \in arcs : a.from \in Vertex /\ a.to \in Vertex /\ a.cost \in Nat
  BY DEF Towards, Side, Arc
<1>2. \A w \in Vertex : side.cost[w] \in 0..INF /\ h[w] \in Nat
  BY <1>1 DEF Side
<1>3. K \in Nat /\ K = side.cost[v] + h[v]
  BY <1>0, <1>1, <1>2 DEF Key
<1> HIDE DEF K
<1>4. \A w \in Vertex : rest(w) \in Nat /\ ((rest(w) = 0 /\ K <= h[w]) \/ (rest(w) = K - h[w] /\ h[w] <= K))
  BY <1>2, <1>3
<1>5. \A w \in Vertex : P[w] = IF side.cost[w] <= rest(w) THEN side.cost[w] ELSE rest(w)
  OBVIOUS
<1> HIDE DEF rest, P
<1>6. \A w \in Vertex : P[w] \in 0..INF /\ P[w] <= rest(w) /\ P[w] <= side.cost[w]
  BY <1>0, <1>2, <1>4, <1>5
<1>7. P[root] = 0
  <2>1. side.cost[root] = 0
    BY DEF Towards
  <2>2. QED
    BY <2>1, <1>6
<1>8. P[v] = side.cost[v]
  BY <1>0, <1>1, <1>2, <1>3, <1>4, <1>5
<1>9. ASSUME NEW a \in arcs PROVE P[a.to] <= P[a.from] + a.cost
  <2>0. /\ a.from \in Vertex /\ a.to \in Vertex /\ a.cost \in Nat
        /\ P[a.from] \in 0..INF /\ P[a.to] \in 0..INF
        /\ P[a.to] <= rest(a.to) /\ P[a.to] <= side.cost[a.to]
        /\ rest(a.from) \in Nat /\ rest(a.to) \in Nat
        /\ side.cost[a.from] \in 0..INF /\ side.cost[a.to] \in 0..INF
    BY <1>1, <1>2, <1>4, <1>6
  <2>1. rest(a.to) <= rest(a.from) + a.cost
    <3>1. h[a.from] <= a.cost + h[a.to] /\ h[a.from] \in Nat /\ h[a.to] \in Nat
      BY <1>1, <1>2 DEF Consistent
    <3>2. QED
      BY <3>1, <2>0, <1>3, <1>4
  <2>2. CASE P[a.from] = rest(a.from)
    BY <2>0, <2>1, <2>2
  <2>3. CASE P[a.from] # rest(a.from)
    <3>1. P[a.from] = side.cost[a.from] /\ side.cost[a.from] < rest(a.from)
      BY <2>0, <2>3, <1>5
    <3>2. CASE a.from \in side.finished
      <4>1. side.cost[a.to] <= side.cost[a.from] + a.cost
        BY <3>2 DEF Towards, Relaxed
      <4>2. QED
        BY <4>1, <3>1, <2>0
    <3>3. CASE a.from \notin side.finished /\ side.cost[a.from] < INF
      <4>1. <<Key(side, a.from, h), a.from>> \in side.queue
        BY <3>3, <2>0 DEF Towards
      <4>2. K <= Key(side, a.from, h)
        BY <4>1 DEF Towards, K
      <4>3. K <= side.cost[a.from] + h[a.from] /\ h[a.from] \in Nat
        BY <4>2, <2>0, <1>2 DEF Key
      <4>4. rest(a.from) <= side.cost[a.from]
        BY <4>3, <2>0, <1>3, <1>4
      <4>5. QED
        BY <4>4, <3>1, <2>0
    <3>4. CASE side.cost[a.from] = INF
      BY <3>1, <3>4, <2>0, <1>0
    <3>5. side.cost[a.from] = INF \/ side.cost[a.from] < INF
      BY <2>0, <1>0
    <3>6. QED
      BY <3>2, <3>3, <3>4, <3>5
  <2>4. QED
    BY <2>2, <2>3
<1>10. P \in [Vertex -> 0..INF]
  BY <1>6 DEF P
<1>11. Potential(arcs, root, P)
  BY <1>7, <1>9, <1>10 DEF Potential
<1>12. PICK D : IsGreatest(arcs, root, D)
  BY GreatestExists
<1>13. Distance(arcs, root, v) = D[v]
  BY <1>1, <1>12, DistanceIsGreatest
<1>14. D[v] <= side.cost[v] /\ P[v] <= D[v] /\ D[v] \in 0..INF
  BY <1>1, <1>11, <1>12 DEF IsGreatest, Potential, Towards, NotBelow
<1>15. QED
  BY <1>0, <1>1, <1>2, <1>8, <1>13, <1>14

----------------------------------------------------------------------------
(***************************************************************************)
(* The estimates.                                                          *)
(***************************************************************************)
\* A number has an integer square root.
LEMMA RootIsNatural ==
  ASSUME NEW n \in Nat
  PROVE  Root(n) \in Nat
<1> DEFINE S == {r \in Nat : n < (r + 1) * (r + 1)}
<1>1. n \in S
  <2>1. n < (n + 1) * (n + 1)
    <3>1. n * n >= 0 /\ (n + 1) * (n + 1) = n * n + 2 * n + 1
      OBVIOUS
    <3>2. QED
      BY <3>1
  <2>2. QED
    BY <2>1
<1>2. PICK r \in S : \A x \in S : r <= x
  BY <1>1, MinOfNaturals
<1>3. r \in 0..n /\ n < (r + 1) * (r + 1)
  BY <1>1, <1>2
<1>4. r * r <= n
  <2>1. CASE r = 0
    BY <2>1
  <2>2. CASE r # 0
    <3>1. r - 1 \in Nat /\ ~ (r - 1 \in S) /\ (r - 1) + 1 = r
      BY <1>2, <1>3, <2>2
    <3>2. ~ (n < ((r - 1) + 1) * ((r - 1) + 1))
      BY <3>1
    <3>3. ~ (n < r * r) /\ r * r \in Nat
      BY <3>1, <3>2, <1>3
    <3>4. QED
      BY <3>3
  <2>3. QED
    BY <2>1, <2>2
<1>5. Root(n) \in 0..n
  BY <1>3, <1>4 DEF Root
<1>6. QED
  BY <1>5

\* Whatever the heuristic, an estimate is not negative.
LEMMA EstimateIsNatural ==
  ASSUME NEW u \in Vertex, m_heuristic \in Heuristics
  PROVE  EstimateTo(u) \in [Vertex -> Nat]
<1> SUFFICES ASSUME NEW v \in Vertex PROVE Heuristic(v, u) \in Nat
  BY DEF EstimateTo
<1> DEFINE dx == Position[v].x - Position[u].x
           dy == Position[v].y - Position[u].y
<1>1. dx \in Int /\ dy \in Int
  BY PositionAssumption
<1>2. Factor \in Nat
  BY FactorAssumption
<1>3. Heuristic(v, u) =
        CASE m_heuristic = 1 -> Abs(Max({dx, dy})) * Factor
          [] m_heuristic = 2 -> Abs(Min({dx, dy})) * Factor
          [] m_heuristic = 3 -> (dx * dx + dy * dy) * Factor * Factor
          [] m_heuristic = 4 -> Root(dx * dx + dy * dy) * Factor
          [] m_heuristic = 5 -> (Abs(dx) + Abs(dy)) * Factor
          [] OTHER -> 0
  BY DEF Heuristic
<1> HIDE DEF dx, dy
<1>4. Max({dx, dy}) \in Int /\ Min({dx, dy}) \in Int
  <2>1. (\E x \in {dx, dy} : \A y \in {dx, dy} : x >= y) /\ (\E x \in {dx, dy} : \A y \in {dx, dy} : x <= y)
    BY <1>1
  <2>2. Max({dx, dy}) \in {dx, dy} /\ Min({dx, dy}) \in {dx, dy}
    BY <2>1 DEF Max, Min
  <2>3. QED
    BY <1>1, <2>2
<1>5. \A i \in Int : Abs(i) \in Nat
  BY DEF Abs
<1>6. \A i, j \in Nat : i * j \in Nat
  OBVIOUS
<1>7. dx * dx + dy * dy \in Nat
  <2>1. \A i \in Int : i * i \in Nat
    <3>1. SUFFICES ASSUME NEW i \in Int PROVE i * i >= 0
      OBVIOUS
    <3>2. QED
      OBVIOUS
  <2>2. QED
    BY <1>1, <2>1
<1>8. /\ Abs(Max({dx, dy})) * Factor \in Nat
      /\ Abs(Min({dx, dy})) * Factor \in Nat
      /\ (dx * dx + dy * dy) * Factor * Factor \in Nat
      /\ Root(dx * dx + dy * dy) * Factor \in Nat
      /\ (Abs(dx) + Abs(dy)) * Factor \in Nat
  <2>1. Abs(Max({dx, dy})) \in Nat /\ Abs(Min({dx, dy})) \in Nat /\ Abs(dx) + Abs(dy) \in Nat
    BY <1>1, <1>4, <1>5
  <2>2. Root(dx * dx + dy * dy) \in Nat
    BY <1>7, RootIsNatural
  <2>3. (dx * dx + dy * dy) * Factor \in Nat
    BY <1>2, <1>6, <1>7
  <2>4. QED
    BY <2>1, <2>2, <2>3, <1>2, <1>6, Zenon
<1>9. QED
  BY <1>3, <1>8

----------------------------------------------------------------------------
(***************************************************************************)
(* The search.                                                             *)
(***************************************************************************)
\* The forward side of a query: rooted, or under way towards its target.
ForwardInv ==
  Consistent(graph, EstimateTo(query.target)) =>
    \/ forward = Rooted(query.source)
    \/ Towards(forward, graph, query.source, EstimateTo(query.target))

AstarInv ==
  /\ TypeOK /\ m_heuristic \in Heuristics
  /\ MeetingIsFinal
  /\ ForwardInv

\* What an iteration leaves of a side: its kind, and the labels that were finished.
SideKept(s, side) ==
  /\ s \in Side
  /\ \A v \in side.finished : v \in s.finished /\ s.cost[v] = side.cost[v]

\* Labels that are finished stay, wherever the relaxation starts from.
LEMMA ExploreKeepsFinished ==
  ASSUME NEW arcs \in SUBSET Arc, NEW side \in Side, NEW q \in side.queue,
         NEW h \in [Vertex -> Nat], NEW base \in Nat,
         NEW s, s = IF q[2] \in side.finished THEN Pop(side, q)
                    ELSE Explore(Pop(side, q), arcs, q[2], base, h)
  PROVE  SideKept(s, side)
<1> DEFINE p == Pop(side, q)
<1>1. p \in Side /\ p.cost = side.cost /\ p.finished = side.finished /\ q[2] \in Vertex
  BY DEF Pop, Side
<1> HIDE DEF p
<1>2. CASE q[2] \in side.finished
  <2>1. s = p
    BY <1>2 DEF p
  <2>2. QED
    BY <1>1, <2>1 DEF SideKept
<1>3. CASE q[2] \notin side.finished
  <2>1. s = Explore(p, arcs, q[2], base, h)
    BY <1>3 DEF p
  <2>2. Explored(s, p, arcs, q[2], base, h)
    BY <1>1, <2>1, ExploreEffect
  <2>3. ASSUME NEW v \in side.finished PROVE v \in s.finished /\ s.cost[v] = side.cost[v]
    <3>1. v \in Vertex
      BY DEF Side
    <3>2. ~ Improved(s, p, arcs, q[2], base, h, v)
      BY <1>1 DEF Improved
    <3>3. QED
      BY <1>1, <2>2, <3>1, <3>2 DEF Explored, Untouched
  <2>4. QED
    BY <2>2, <2>3 DEF SideKept, Explored
<1>4. QED
  BY <1>2, <1>3

\* found(), given sides that kept the labels of their finished vertices.
LEMMA FoundKeepsMeeting ==
  ASSUME TypeOK, MeetingIsFinal, SideKept(forward', forward), SideKept(backward', backward),
         NEW v \in Vertex, Found(v), status = "searching"
  PROVE  /\ MeetingIsFinal'
         /\ status' \in Status /\ v_min_node' \in Vertex /\ best_cost' \in Nat
<1>1. forward'.cost[v] \in Nat /\ backward'.cost[v] \in Nat
  BY InfAssumption DEF SideKept, Side
<1>2. CASE Common(v) /\ best_cost >= Through(v) /\ v_min_node' = v
           /\ best_cost' = Through(v) /\ UNCHANGED status
  BY <1>1, <1>2 DEF Common, Through, MeetingIsFinal, TypeOK
<1>3. CASE UNCHANGED <<v_min_node, best_cost>> /\ status' \in {status, "stopped"}
  BY <1>3 DEF MeetingIsFinal, TypeOK, Status, SideKept
<1>4. QED
  BY <1>2, <1>3 DEF Found

\* An iteration of the forward side, when no arc disproves the estimate.
LEMMA ForwardKept ==
  ASSUME NEW arcs \in SUBSET Arc, NEW root \in Vertex, NEW h \in [Vertex -> Nat],
         Consistent(arcs, h), NEW side \in Side,
         side = Rooted(root) \/ Towards(side, arcs, root, h),
         NEW q, IsTop(q, side.queue), q[1] < INF,
         NEW s, s = IF q[2] \in side.finished THEN Pop(side, q)
                    ELSE Explore(Pop(side, q), arcs, q[2], side.cost[q[2]], h)
  PROVE  Towards(s, arcs, root, h)
<1> DEFINE p == Pop(side, q)
<1>0. q \in side.queue /\ p.cost = side.cost
  BY DEF IsTop, Pop, Side
<1>1. CASE side = Rooted(root)
  <2>1. q = <<0, root>> /\ Taken(Pop(Rooted(root), q), arcs, root, root, h)
    BY <1>0, <1>1, RootTaken
  <2>2. q[2] = root /\ q[2] \notin side.finished
    BY <1>1, <2>1 DEF Rooted
  <2>3. s = Explore(p, arcs, root, p.cost[root], h)
    BY <1>0, <2>2
  <2>4. QED
    BY <1>1, <2>1, <2>3, TakenIsFinished
<1>2. CASE Towards(side, arcs, root, h) /\ q[2] \in side.finished
  BY <1>0, <1>2, StaleEntryTaken
<1>3. CASE Towards(side, arcs, root, h) /\ q[2] \notin side.finished
  <2>1. Taken(p, arcs, root, q[2], h)
    BY <1>3, LeastEntryTaken
  <2>2. s = Explore(p, arcs, q[2], p.cost[q[2]], h)
    BY <1>0, <1>3
  <2> HIDE DEF p
  <2>3. QED
    BY <2>1, <2>2, TakenIsFinished
<1>4. QED
  BY <1>1, <1>2, <1>3

\* A rooted side has its type.
LEMMA RootedIsASide ==
  ASSUME NEW root \in Vertex
  PROVE  Rooted(root) \in Side
BY InfAssumption DEF Rooted, Side

\* The initial states satisfy the invariant.
LEMMA InitAstarInv == AstarInit => AstarInv
<1> SUFFICES ASSUME AstarInit PROVE AstarInv
  OBVIOUS
<1>1. Min(Vertex) \in Vertex
  BY VertexAssumption, MinOfNaturals
<1>2. /\ graph \in Graphs /\ query \in Query /\ query.source \in Vertex /\ query.target \in Vertex
      /\ forward = Rooted(query.source) /\ backward = Rooted(query.target)
      /\ m_heuristic \in Heuristics
  BY <1>1 DEF AstarInit, Init, Query
<1>3. forward \in Side /\ backward \in Side
  BY <1>2, RootedIsASide
<1>4. TypeOK
  BY <1>1, <1>2, <1>3, InfAssumption DEF AstarInit, Init, TypeOK, Status
<1>5. MeetingIsFinal
  BY InfAssumption DEF AstarInit, Init, MeetingIsFinal
<1>6. QED
  BY <1>2, <1>4, <1>5 DEF AstarInv, ForwardInv

\* Every step keeps the invariant.
LEMMA NextAstarInv == AstarInv /\ [Next]_astarVars => AstarInv'
<1> SUFFICES ASSUME AstarInv, [Next]_astarVars PROVE AstarInv'
  OBVIOUS
<1>1. /\ TypeOK /\ MeetingIsFinal /\ ForwardInv /\ m_heuristic \in Heuristics
      /\ graph \in SUBSET Arc /\ Reversed(graph) \in SUBSET Arc
      /\ query.source \in Vertex /\ query.target \in Vertex
      /\ forward \in Side /\ backward \in Side
  BY GraphsAssumption, ReversedArcs DEF AstarInv, TypeOK, Query
<1>2. m_heuristic' = m_heuristic
  BY DEF Next, pgr_bdAstar, StepForward, StepBackward, Leave, astarVars
<1>3. /\ EstimateTo(query.target) \in [Vertex -> Nat]
      /\ EstimateTo(query.source) \in [Vertex -> Nat]
  BY <1>1, EstimateIsNatural
<1>4. CASE pgr_bdAstar
  <2>1. PICK s \in Vertex, t \in Vertex, only_cost \in BOOLEAN : Ask(s, t, only_cost)
    BY <1>4 DEF pgr_bdAstar
  <2>2. /\ forward' = Rooted(s) /\ backward' = Rooted(t) /\ query'.source = s /\ graph' = graph
        /\ query' \in Query /\ status' \in Status /\ best_cost' = INF
    BY <2>1 DEF Ask, Query, Status
  <2>3. v_min_node' \in Vertex
    BY <2>1, VertexAssumption, MinOfNaturals DEF Ask
  <2>4. forward' \in Side /\ backward' \in Side
    BY <2>2, RootedIsASide
  <2>5. TypeOK'
    BY <1>1, <2>2, <2>3, <2>4, InfAssumption DEF TypeOK
  <2>6. MeetingIsFinal'
    BY <2>2, InfAssumption DEF MeetingIsFinal
  <2>7. ForwardInv'
    BY <2>2 DEF ForwardInv
  <2>8. QED
    BY <1>1, <1>2, <2>5, <2>6, <2>7 DEF AstarInv
<1>5. CASE StepForward
  <2>1. PICK f \in forward.queue :
          /\ status = "searching" /\ IsTop(f, forward.queue) /\ f[1] < INF
          /\ forward' = explore_forward(f)
          /\ Found(f[2])
    BY <1>5 DEF StepForward, Continue
  <2>2. UNCHANGED <<graph, query, backward>>
    BY <1>5 DEF StepForward
  <2>3. f[2] \in Vertex /\ forward.cost[f[2]] \in Nat
    BY <1>1, <2>1, InfAssumption DEF Side
  <2>4. forward' = IF f[2] \in forward.finished THEN Pop(forward, f)
                   ELSE Explore(Pop(forward, f), graph, f[2], forward.cost[f[2]],
                                EstimateTo(query.target))
    BY <2>1 DEF explore_forward
  <2>5. SideKept(forward', forward)
    BY <1>1, <1>3, <2>1, <2>3, <2>4, ExploreKeepsFinished
  <2>6. SideKept(backward', backward)
    BY <1>1, <2>2 DEF SideKept
  <2>7. /\ MeetingIsFinal'
        /\ status' \in Status /\ v_min_node' \in Vertex /\ best_cost' \in Nat
    BY <1>1, <2>1, <2>3, <2>5, <2>6, FoundKeepsMeeting
  <2>8. TypeOK'
    BY <1>1, <2>2, <2>5, <2>6, <2>7 DEF TypeOK, SideKept
  <2>9. EstimateTo(query.target)' = EstimateTo(query.target)
    BY <1>2, <2>2 DEF EstimateTo, Heuristic
  <2>10. ForwardInv'
    <3>1. SUFFICES ASSUME Consistent(graph, EstimateTo(query.target))
                   PROVE  Towards(forward', graph, query.source, EstimateTo(query.target))
      BY <2>2, <2>9 DEF ForwardInv
    <3>2. \/ forward = Rooted(query.source)
          \/ Towards(forward, graph, query.source, EstimateTo(query.target))
      BY <1>1, <3>1 DEF ForwardInv
    <3>3. QED
      BY <1>1, <1>3, <2>1, <2>4, <3>1, <3>2, ForwardKept
  <2>11. QED
    BY <1>1, <1>2, <2>7, <2>8, <2>10 DEF AstarInv
<1>6. CASE StepBackward
  <2>1. PICK b \in backward.queue :
          /\ status = "searching"
          /\ backward' = explore_backward(b)
          /\ Found(b[2])
    BY <1>6 DEF StepBackward, Continue
  <2>2. UNCHANGED <<graph, query, forward>>
    BY <1>6 DEF StepBackward
  <2>3. b[2] \in Vertex /\ b[1] \in Nat
    BY <1>1, <2>1 DEF Side
  <2>4. backward' = IF b[2] \in backward.finished THEN Pop(backward, b)
                    ELSE Explore(Pop(backward, b), Reversed(graph), b[2], b[1],
                                 EstimateTo(query.source))
    BY <2>1 DEF explore_backward
  <2>5. SideKept(backward', backward)
    BY <1>1, <1>3, <2>1, <2>3, <2>4, ExploreKeepsFinished
  <2>6. SideKept(forward', forward)
    BY <1>1, <2>2 DEF SideKept
  <2>7. /\ MeetingIsFinal'
        /\ status' \in Status /\ v_min_node' \in Vertex /\ best_cost' \in Nat
    BY <1>1, <2>1, <2>3, <2>5, <2>6, FoundKeepsMeeting
  <2>8. TypeOK'
    BY <1>1, <2>2, <2>5, <2>6, <2>7 DEF TypeOK, SideKept
  <2>9. EstimateTo(query.target)' = EstimateTo(query.target)
    BY <1>2, <2>2 DEF EstimateTo, Heuristic
  <2>10. ForwardInv'
    BY <1>1, <2>2, <2>9 DEF ForwardInv
  <2>11. QED
    BY <1>1, <1>2, <2>7, <2>8, <2>10 DEF AstarInv
<1>7. CASE Leave \/ UNCHANGED astarVars
  <2>1. /\ UNCHANGED <<graph, query, forward, backward, v_min_node, best_cost, m_heuristic>>
        /\ status' \in Status
    BY <1>1, <1>7 DEF Leave, Exhausted, Return, astarVars, vars, TypeOK, Status
  <2>2. EstimateTo(query.target)' = EstimateTo(query.target)
    BY <2>1 DEF EstimateTo, Heuristic
  <2>3. QED
    BY <1>1, <2>1, <2>2 DEF AstarInv, TypeOK, MeetingIsFinal, ForwardInv
<1>8. QED
  BY <1>4, <1>5, <1>6, <1>7 DEF Next

----------------------------------------------------------------------------
(***************************************************************************)
(* Without an estimate.                                                    *)
(***************************************************************************)
\* Without an estimate both explore functions are Settle of bdDijkstra.
LEMMA NoEstimateAtAll ==
  ASSUME m_heuristic = 0, NEW u \in Vertex
  PROVE  EstimateTo(u) = Dijkstra!NoEstimate
BY DEF EstimateTo, Heuristic, Dijkstra!NoEstimate

\* Explore is the same text in the module and in the instance.
LEMMA SameExplore ==
  ASSUME NEW side, NEW arcs, NEW u, NEW k, NEW h
  PROVE  Explore(side, arcs, u, k, h) = Dijkstra!Explore(side, arcs, u, k, h)
BY DEF Explore, Dijkstra!Explore, Gains, Dijkstra!Gains, CostsTo, Dijkstra!CostsTo,
       Pushed, Dijkstra!Pushed, Min, Dijkstra!Min

\* The least entry of an unfinished vertex is its label.
LEMMA KeyIsLabel ==
  ASSUME AstarInv, m_heuristic = 0, NEW f, IsTop(f, forward.queue), f[1] < INF,
         f[2] \notin forward.finished
  PROVE  forward.cost[f[2]] = f[1]
<1> DEFINE h == EstimateTo(query.target)
<1>1. /\ graph \in SUBSET Arc /\ query.source \in Vertex /\ query.target \in Vertex
      /\ forward \in Side /\ f \in forward.queue
  BY GraphsAssumption DEF AstarInv, TypeOK, Query, IsTop
<1>2. h \in [Vertex -> Nat] /\ \A v \in Vertex : h[v] = 0
  BY <1>1, EstimateIsNatural, NoEstimateAtAll DEF AstarInv, Dijkstra!NoEstimate
<1> HIDE DEF h
<1>3. Consistent(graph, h)
  <2>1. \A a \in graph : a.from \in Vertex /\ a.to \in Vertex /\ a.cost \in Nat
    BY <1>1 DEF Arc
  <2>2. QED
    BY <1>2, <2>1 DEF Consistent
<1>4. forward = Rooted(query.source) \/ Towards(forward, graph, query.source, h)
  BY <1>3 DEF AstarInv, ForwardInv, h
<1>5. CASE forward = Rooted(query.source)
  <2>1. f = <<0, query.source>>
    BY <1>1, <1>5 DEF Rooted
  <2>2. QED
    BY <1>1, <1>5, <2>1 DEF Rooted
<1>6. CASE Towards(forward, graph, query.source, h)
  <2>1. f[1] = Key(forward, f[2], h) /\ f[2] \in Vertex
    BY <1>1, <1>2, <1>6, LeastEntryTaken
  <2>2. forward.cost[f[2]] \in Nat
    BY <1>1, <2>1, InfAssumption DEF Side
  <2>3. QED
    BY <1>2, <2>1, <2>2 DEF Key
<1>7. QED
  BY <1>4, <1>5, <1>6

\* An iteration without an estimate is one of bdDijkstra.
LEMMA IterationIsSettle ==
  ASSUME AstarInv, m_heuristic = 0
  PROVE  /\ \A f : IsTop(f, forward.queue) /\ f[1] < INF =>
              explore_forward(f) = Dijkstra!Settle(forward, graph, f)
         /\ \A b : explore_backward(b) = Dijkstra!Settle(backward, Reversed(graph), b)
<1>1. query.source \in Vertex /\ query.target \in Vertex
  BY DEF AstarInv, TypeOK, Query
<1>2. EstimateTo(query.target) = Dijkstra!NoEstimate /\ EstimateTo(query.source) = Dijkstra!NoEstimate
  BY <1>1, NoEstimateAtAll
<1>3. \A side, q : Dijkstra!Pop(side, q) = Pop(side, q)
  BY DEF Pop, Dijkstra!Pop
<1>4. ASSUME NEW f, IsTop(f, forward.queue), f[1] < INF
      PROVE  explore_forward(f) = Dijkstra!Settle(forward, graph, f)
  <2>1. f[2] \notin forward.finished => forward.cost[f[2]] = f[1]
    BY <1>4, KeyIsLabel
  <2>2. QED
    BY <1>2, <1>3, <2>1, SameExplore DEF explore_forward, Dijkstra!Settle
<1>5. ASSUME NEW b PROVE explore_backward(b) = Dijkstra!Settle(backward, Reversed(graph), b)
  BY <1>2, <1>3, SameExplore DEF explore_backward, Dijkstra!Settle
<1>6. QED
  BY <1>4, <1>5

\* The tests of the loop and found() are the same text in both modules.
LEMMA SameLoop ==
  /\ \A f, b : Continue(f, b) <=> Dijkstra!Continue(f, b)
  /\ \A v : Found(v) <=> Dijkstra!Found(v)
  /\ Reversed(graph) = Dijkstra!Reversed(graph)
  /\ Exhausted <=> Dijkstra!Exhausted
BY DEF Continue, Dijkstra!Continue, IsTop, Dijkstra!IsTop, Found, Dijkstra!Found,
       Common, Dijkstra!Common, Through, Dijkstra!Through, Reversed, Dijkstra!Reversed,
       Exhausted, Dijkstra!Exhausted

\* What the path is put together with is the same.
LEMMA SameSums ==
  /\ \A seqs : FlattenSeq(seqs) = Dijkstra!FlattenSeq(seqs)
  /\ \A rows : TotalCost(rows) = Dijkstra!TotalCost(rows)
<1>1. ASSUME NEW seqs PROVE FlattenSeq(seqs) = Dijkstra!FlattenSeq(seqs)
  BY DEF FlattenSeq, Dijkstra!FlattenSeq
<1>2. ASSUME NEW rows PROVE TotalCost(rows) = Dijkstra!TotalCost(rows)
  BY DEF TotalCost, Dijkstra!TotalCost, FoldSeq, Dijkstra!FoldSeq, FoldFunction, Dijkstra!FoldFunction,
         FoldFunctionOnSet, Dijkstra!FoldFunctionOnSet, MapThenFoldSet, Dijkstra!MapThenFoldSet
<1>3. QED
  BY <1>1, <1>2

\* So are the rows,
LEMMA SameRows == \A u, id : RowsOf(u, id) = Dijkstra!RowsOf(u, id)
<1>1. ASSUME NEW u, NEW id PROVE RowsOf(u, id) = Dijkstra!RowsOf(u, id)
  BY DEF RowsOf, Dijkstra!RowsOf, OutArcs, Dijkstra!OutArcs, Cardinality, Dijkstra!Cardinality
<1>2. QED
  BY <1>1

\* the edge of a step,
LEMMA SameEdges == \A cost, u, v : StepEdge(cost, u, v) = Dijkstra!StepEdge(cost, u, v)
BY DEF StepEdge, Dijkstra!StepEdge, EdgeId, Dijkstra!EdgeId,
       First, Dijkstra!First, NoEdge, Dijkstra!NoEdge, Max, Dijkstra!Max

\* the way along the predecessors,
LEMMA SameWalks == \A side, v : TreeWalk(side, v) = Dijkstra!TreeWalk(side, v)
<1>1. ASSUME NEW side, NEW v PROVE TreeWalk(side, v) = Dijkstra!TreeWalk(side, v)
  BY DEF TreeWalk, Dijkstra!TreeWalk, Min, Dijkstra!Min, Cardinality, Dijkstra!Cardinality
<1>2. QED
  BY <1>1

\* the rows of the path,
LEMMA SamePathRows == \A there, back : PathRows(there, back) = Dijkstra!PathRows(there, back)
<1>1. ASSUME NEW there, NEW back PROVE PathRows(there, back) = Dijkstra!PathRows(there, back)
  BY SameRows, SameEdges, SameSums DEF PathRows, Dijkstra!PathRows
<1>2. QED
  BY <1>1

\* the path that is returned,
LEMMA SameReturn == Return <=> Dijkstra!Return
BY SameWalks, SamePathRows, SameSums DEF Return, Dijkstra!Return, LastRow, Dijkstra!LastRow, NoEdge, Dijkstra!NoEdge

\* and a query.
LEMMA SameCall ==
  /\ Init <=> Dijkstra!Init
  /\ \A s, t, only_cost : Ask(s, t, only_cost) <=> Dijkstra!Ask(s, t, only_cost)
BY DEF Init, Dijkstra!Init, Ask, Dijkstra!Ask, Rooted, Dijkstra!Rooted, Min, Dijkstra!Min,
       VerticesOf, Dijkstra!VerticesOf

\* Every step without an estimate is one of bdDijkstra.
LEMMA StepIsBdDijkstra ==
  AstarInv /\ [Next]_astarVars => [m_heuristic = 0 => Dijkstra!Next]_astarVars
<1> SUFFICES ASSUME AstarInv, Next, m_heuristic = 0 PROVE Dijkstra!Next
  OBVIOUS
<1>1. CASE pgr_bdAstar
  BY <1>1, SameCall DEF pgr_bdAstar, Dijkstra!Next, Dijkstra!pgr_bdDijkstra
<1>2. CASE StepForward
  <2>1. PICK f \in forward.queue, b \in backward.queue :
          /\ Continue(f, b)
          /\ f[1] <= b[1]
          /\ forward' = explore_forward(f)
          /\ UNCHANGED backward
          /\ Found(f[2])
    BY <1>2 DEF StepForward
  <2>2. IsTop(f, forward.queue) /\ f[1] < INF
    BY <2>1 DEF Continue
  <2>3. forward' = Dijkstra!Settle(forward, graph, f)
    BY <2>1, <2>2, IterationIsSettle
  <2>4. Dijkstra!Continue(f, b) /\ Dijkstra!Found(f[2])
    BY <2>1, SameLoop
  <2>5. UNCHANGED <<graph, query, answer>>
    BY <1>2 DEF StepForward
  <2>6. Dijkstra!StepForward
    BY <2>1, <2>3, <2>4, <2>5 DEF Dijkstra!StepForward
  <2>7. QED
    BY <2>6 DEF Dijkstra!Next
<1>3. CASE StepBackward
  <2>1. PICK f \in forward.queue, b \in backward.queue :
          /\ Continue(f, b)
          /\ b[1] < f[1]
          /\ backward' = explore_backward(b)
          /\ UNCHANGED forward
          /\ Found(b[2])
    BY <1>3 DEF StepBackward
  <2>2. backward' = Dijkstra!Settle(backward, Dijkstra!Reversed(graph), b)
    BY <2>1, IterationIsSettle, SameLoop
  <2>3. Dijkstra!Continue(f, b) /\ Dijkstra!Found(b[2])
    BY <2>1, SameLoop
  <2>4. UNCHANGED <<graph, query, answer>>
    BY <1>3 DEF StepBackward
  <2>5. Dijkstra!StepBackward
    BY <2>1, <2>2, <2>3, <2>4 DEF Dijkstra!StepBackward
  <2>6. QED
    BY <2>5 DEF Dijkstra!Next
<1>4. CASE Leave
  BY <1>4, SameLoop, SameReturn DEF Leave, Dijkstra!Next
<1>5. QED
  BY <1>1, <1>2, <1>3, <1>4 DEF Next

----------------------------------------------------------------------------
(***************************************************************************)
(* The theorems.                                                           *)
(***************************************************************************)
\* The invariant holds of the specification, whatever the heuristic, types and the
\* recorded meeting included: it is the sum of two labels that are final even when
\* the estimates are wrong (bdAstar.hpp:101-152, bidirectional.hpp:195-209).
THEOREM AstarInvariant == Spec => []AstarInv
<1>1. QED
  BY InitAstarInv, NextAstarInv, PTL DEF Spec

\* The theorem of A*: when no arc disproves the estimate, what the forward side has
\* finished has its distance and need never be reopened (bdAstar.hpp:101-125).
THEOREM ForwardIsExactTheorem == Spec => []ForwardIsExact
<1>1. AstarInv => ForwardIsExact
  <2> SUFFICES ASSUME AstarInv, Consistent(graph, EstimateTo(query.target)),
                      NEW v \in forward.finished
               PROVE  forward.cost[v] = Distance(graph, query.source, v)
    BY DEF ForwardIsExact
  <2>1. graph \in SUBSET Arc /\ query.source \in Vertex /\ query.target \in Vertex
    BY GraphsAssumption DEF AstarInv, TypeOK, Query
  <2>2. EstimateTo(query.target) \in [Vertex -> Nat]
    BY <2>1, EstimateIsNatural DEF AstarInv
  <2>3. forward # Rooted(query.source)
    BY DEF Rooted
  <2>4. Towards(forward, graph, query.source, EstimateTo(query.target))
    BY <2>3 DEF AstarInv, ForwardInv
  <2>5. QED
    BY <2>1, <2>2, <2>4, FinishedIsExact
<1>2. QED
  BY <1>1, AstarInvariant, PTL

\* Without an estimate the search is bdDijkstra, step by step, although one explore
\* function relaxes from a label and the other from a key (bdAstar.hpp:101-152).
THEOREM WithoutEstimateTheorem == Spec => WithoutEstimateIsBdDijkstra
<1>1. AstarInit => Dijkstra!Init
  BY SameCall DEF AstarInit
<1>2. QED
  BY <1>1, StepIsBdDijkstra, AstarInvariant, PTL DEF Spec, WithoutEstimateIsBdDijkstra
=============================================================================
