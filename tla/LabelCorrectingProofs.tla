----------------------- MODULE LabelCorrectingProofs -----------------------
(***************************************************************************)
(* Whatever the order in which vertices wait in the deque, labels that are *)
(* corrected until nothing waits are distances (IInv); with costs of zero  *)
(* and one other cost the deque is in order (FrontInv); the arcs vertices  *)
(* were reached by are a tree (TreeInv), and each source that was dealt    *)
(* with has its shortest routes (AnswerInv).  Proved for both searches of  *)
(* LabelCorrecting and every set of requests.                              *)
(***************************************************************************)
EXTENDS LabelCorrecting, RoadGraphProofs

InDeque(v) == \E n \in DOMAIN dq : dq[n] = v

TypeOK ==
  /\ request \in Requests
  /\ phase \in {"called", "sources", "searching", "refused", "answered"}
  /\ start_vertex \in Vertex
  /\ current_cost \in [Vertex -> 0..INF]
  /\ isInQ \in [Vertex -> BOOLEAN]
  /\ dq \in Seq(Vertex)
  /\ pending \in SUBSET graph

\* isInQ is exact: what is marked waits, once.
Marked ==
  request.algorithm = EdwardMoore =>
    /\ \A v \in Vertex : isInQ[v] => InDeque(v)
    /\ \A m, n \in DOMAIN dq : dq[m] = dq[n] => m = n
    /\ \A n \in DOMAIN dq : isInQ[dq[n]]

\* No label is less than a distance.
NotTooLow ==
  \A D : Potential(graph, start_vertex, D) => \A v \in Vertex : D[v] <= current_cost[v]

\* An arc that would improve a label waits: its tail is in the deque, or its turn
\* is still to come.
Relaxed(a) == current_cost[a.to] <= Plus(current_cost[a.from], a.cost)

Waits(a) == InDeque(a.from) \/ a \in pending

Searching ==
  phase = "searching" =>
    /\ current_cost[start_vertex] = 0
    /\ Marked
    /\ NotTooLow
    /\ \A a \in graph : Relaxed(a) \/ Waits(a)

IInv == TypeOK /\ Searching

----------------------------------------------------------------------------
(***************************************************************************)
(* Lemmas.                                                                 *)
(***************************************************************************)
LEMMA GraphArcs ==
  ASSUME request \in Requests
  PROVE  /\ \A a \in graph : a.from \in Vertex /\ a.to \in Vertex /\ a.cost \in Nat
         /\ graph \subseteq Arc
BY RequestsAssumption DEF graph, Arc

\* A sum of a label and a cost is a label.
LEMMA PlusIsALabel ==
  ASSUME NEW a \in 0..INF, NEW b \in Nat
  PROVE  Plus(a, b) \in 0..INF /\ a <= Plus(a, b) /\ (Plus(a, b) = a + b \/ Plus(a, b) = INF)
BY InfAssumption DEF Plus

\* The deque without its head.
LEMMA TailOfDeque ==
  ASSUME NEW S, NEW q \in Seq(S), q # <<>>
  PROVE  /\ Tail(q) \in Seq(S) /\ Head(q) \in S /\ 1 \in DOMAIN q /\ Head(q) = q[1]
         /\ \A n \in DOMAIN Tail(q) : n + 1 \in DOMAIN q /\ Tail(q)[n] = q[n + 1]
         /\ \A n \in DOMAIN q : n # 1 => n - 1 \in DOMAIN Tail(q) /\ Tail(q)[n - 1] = q[n]
         /\ DOMAIN q \subseteq Nat /\ DOMAIN Tail(q) \subseteq Nat \ {0}
OBVIOUS

\* The deque with one more vertex at either end.
LEMMA LongerDeque ==
  ASSUME NEW S, NEW q \in Seq(S), NEW w \in S
  PROVE  /\ Append(q, w) \in Seq(S) /\ <<w>> \o q \in Seq(S)
         /\ \A n \in DOMAIN q : n \in DOMAIN Append(q, w) /\ Append(q, w)[n] = q[n]
         /\ Len(q) + 1 \in DOMAIN Append(q, w) /\ Append(q, w)[Len(q) + 1] = w
         /\ \A n \in DOMAIN Append(q, w) : n = Len(q) + 1 \/ n \in DOMAIN q
         /\ \A n \in DOMAIN q : n + 1 \in DOMAIN (<<w>> \o q) /\ (<<w>> \o q)[n + 1] = q[n]
         /\ 1 \in DOMAIN (<<w>> \o q) /\ (<<w>> \o q)[1] = w
<1>1. Len(q) \in Nat /\ DOMAIN q = 1..Len(q)
  OBVIOUS
<1>2. <<w>> \in Seq(S) /\ Len(<<w>>) = 1 /\ <<w>>[1] = w
  OBVIOUS
<1>3. <<w>> \o q \in Seq(S) /\ Len(<<w>> \o q) = 1 + Len(q)
  BY <1>1, <1>2
<1>4. \A n \in 1..Len(q) : (<<w>> \o q)[n + 1] = q[n]
  BY <1>1, <1>2
<1>5. QED
  BY <1>1, <1>2, <1>3, <1>4

\* Labels that no arc improves and that are nowhere too low are the distances.
LEMMA RelaxedIsExact ==
  ASSUME request \in Requests, start_vertex \in Vertex,
         current_cost \in [Vertex -> 0..INF], current_cost[start_vertex] = 0,
         NotTooLow, \A a \in graph : Relaxed(a),
         NEW v \in Vertex
  PROVE  IsDistance(graph, start_vertex, v, current_cost[v])
<1> DEFINE Grounded(E) == [w \in Vertex |-> IF w = start_vertex THEN 0 ELSE E[w]]
           E0 == [w \in Vertex \ {start_vertex} |-> current_cost[w]]
<1>1. E0 \in [Vertex \ {start_vertex} -> 0..INF] /\ Grounded(E0) = current_cost
  OBVIOUS
<1>2. ASSUME NEW a \in graph PROVE current_cost[a.to] <= current_cost[a.from] + a.cost
  <2>1. /\ current_cost[a.from] \in 0..INF /\ current_cost[a.to] \in 0..INF /\ a.cost \in Nat
        /\ current_cost[a.to] <= Plus(current_cost[a.from], a.cost)
    BY GraphArcs DEF Relaxed
  <2>2. QED
    BY <2>1, InfAssumption DEF Plus
<1>3. Potential(graph, start_vertex, current_cost)
  BY <1>2 DEF Potential
<1>4. \A E \in [Vertex \ {start_vertex} -> 0..INF] :
         Potential(graph, start_vertex, Grounded(E)) => Grounded(E)[v] <= current_cost[v]
  BY DEF NotTooLow
<1>5. QED
  BY <1>1, <1>3, <1>4 DEF IsDistance
----------------------------------------------------------------------------
(***************************************************************************)
(* The steps.                                                              *)
(***************************************************************************)
\* The labels of a new search: only the start is reached, and waits.
LEMMA StartKeeps ==
  ASSUME IInv, StartSearch
  PROVE  IInv'
<1> DEFINE s == Min(sources)
<1>1. s \in Vertex
  BY GraphArcs DEF IInv, TypeOK, StartSearch, has_vertex, VerticesOf
<1>2. /\ start_vertex' = s /\ dq' = <<s>> /\ pending' = {} /\ phase' = "searching"
      /\ request' = request /\ graph' = graph
      /\ current_cost' = [v \in Vertex |-> IF v = s THEN 0 ELSE INF]
      /\ isInQ' = [v \in Vertex |-> request.algorithm = EdwardMoore /\ v = s]
  BY DEF StartSearch, graph
<1>3. /\ DOMAIN dq' = {1} /\ dq'[1] = s /\ dq' \in Seq(Vertex)
  BY <1>1, <1>2
<1>4. TypeOK'
  BY <1>1, <1>2, <1>3, InfAssumption DEF IInv, TypeOK
<1>5. current_cost'[start_vertex'] = 0
  BY <1>1, <1>2
<1>6. Marked'
  BY <1>1, <1>2, <1>3 DEF Marked, InDeque
<1>7. NotTooLow'
  <2> SUFFICES ASSUME NEW D, Potential(graph, s, D), NEW v \in Vertex
               PROVE  D[v] <= current_cost'[v]
    BY <1>2 DEF NotTooLow
  <2>1. D[v] \in 0..INF /\ D[s] = 0
    BY DEF Potential
  <2>2. QED
    BY <2>1, <1>2, InfAssumption
<1>8. ASSUME NEW a \in graph PROVE Relaxed(a)' \/ Waits(a)'
  <2>1. CASE a.from = s
    BY <2>1, <1>3 DEF Waits, InDeque
  <2>2. CASE a.from # s
    <3>1. a.from \in Vertex /\ a.to \in Vertex /\ a.cost \in Nat
      BY GraphArcs DEF IInv, TypeOK
    <3>2. current_cost'[a.from] = INF /\ current_cost'[a.to] \in 0..INF
      BY <3>1, <2>2, <1>2, InfAssumption
    <3>3. QED
      BY <3>1, <3>2, InfAssumption DEF Relaxed, Plus
  <2>3. QED
    BY <2>1, <2>2
<1>9. QED
  BY <1>2, <1>4, <1>5, <1>6, <1>7, <1>8 DEF IInv, Searching

\* What waited behind the head waits on, and the edges out of the head come next.
LEMMA ExamineVertexKeeps ==
  ASSUME IInv, ExamineVertex
  PROVE  IInv'
<1> DEFINE u == Head(dq)
<1>1. /\ phase = "searching" /\ phase' = "searching" /\ pending = {} /\ dq # <<>>
      /\ dq' = Tail(dq) /\ isInQ' = [isInQ EXCEPT ![u] = FALSE] /\ pending' = OutArcs(graph, u)
      /\ request' = request /\ graph' = graph /\ start_vertex' = start_vertex
      /\ current_cost' = current_cost
  BY DEF ExamineVertex, Unmarked, graph
<1>2. /\ TypeOK /\ Marked /\ NotTooLow /\ current_cost[start_vertex] = 0
      /\ \A a \in graph : Relaxed(a) \/ Waits(a)
  BY <1>1 DEF IInv, Searching
<1>3. /\ Tail(dq) \in Seq(Vertex) /\ u \in Vertex /\ 1 \in DOMAIN dq /\ u = dq[1]
      /\ \A n \in DOMAIN Tail(dq) : n + 1 \in DOMAIN dq /\ Tail(dq)[n] = dq[n + 1]
      /\ \A n \in DOMAIN dq : n # 1 => n - 1 \in DOMAIN Tail(dq) /\ Tail(dq)[n - 1] = dq[n]
      /\ DOMAIN dq \subseteq Nat /\ DOMAIN Tail(dq) \subseteq Nat \ {0}
  BY <1>1, <1>2, TailOfDeque DEF TypeOK
<1>4. TypeOK'
  BY <1>1, <1>2, <1>3 DEF TypeOK, OutArcs
<1>5. Marked'
  <2> SUFFICES ASSUME request.algorithm = EdwardMoore
               PROVE  /\ \A v \in Vertex : isInQ'[v] => InDeque(v)'
                      /\ \A m, n \in DOMAIN dq' : dq'[m] = dq'[n] => m = n
                      /\ \A n \in DOMAIN dq' : isInQ'[dq'[n]]
    BY <1>1 DEF Marked
  <2>1. ASSUME NEW v \in Vertex, isInQ'[v] PROVE InDeque(v)'
    <3>1. isInQ[v] /\ v # u
      BY <2>1, <1>1, <1>2 DEF TypeOK
    <3>2. PICK n \in DOMAIN dq : dq[n] = v
      BY <3>1, <1>2 DEF Marked, InDeque
    <3>3. QED
      BY <3>1, <3>2, <1>3, <1>1 DEF InDeque
  <2>2. ASSUME NEW m \in DOMAIN dq', NEW n \in DOMAIN dq', dq'[m] = dq'[n] PROVE m = n
    <3>1. m + 1 = n + 1
      BY <2>2, <1>1, <1>2, <1>3 DEF Marked
    <3>2. QED
      BY <3>1, <1>1, <1>3
  <2>3. ASSUME NEW n \in DOMAIN dq' PROVE isInQ'[dq'[n]]
    <3>1. n + 1 \in DOMAIN dq /\ dq'[n] = dq[n + 1] /\ n + 1 # 1 /\ dq[n + 1] \in Vertex
      BY <1>1, <1>2, <1>3 DEF TypeOK
    <3>2. dq[n + 1] # u /\ isInQ[dq[n + 1]]
      BY <3>1, <1>2, <1>3 DEF Marked
    <3>3. QED
      BY <3>1, <3>2, <1>1, <1>2 DEF TypeOK
  <2>4. QED
    BY <2>1, <2>2, <2>3
<1>6. NotTooLow'
  BY <1>1, <1>2 DEF NotTooLow
<1>7. ASSUME NEW a \in graph PROVE Relaxed(a)' \/ Waits(a)'
  <2>1. CASE Relaxed(a)
    BY <2>1, <1>1 DEF Relaxed
  <2>2. CASE InDeque(a.from) /\ a.from # u
    <3>1. PICK n \in DOMAIN dq : dq[n] = a.from
      BY <2>2 DEF InDeque
    <3>2. QED
      BY <3>1, <2>2, <1>3, <1>1 DEF Waits, InDeque
  <2>3. CASE a.from = u
    BY <2>3, <1>1 DEF Waits, OutArcs
  <2>4. QED
    BY <2>1, <2>2, <2>3, <1>1, <1>2 DEF Waits
<1>8. QED
  BY <1>1, <1>2, <1>4, <1>5, <1>6, <1>7 DEF IInv, Searching

\* A vertex that got cheaper waits, what waited waits on, and the marks stay exact.
LEMMA QueuedKeeps ==
  ASSUME TypeOK, Marked, NEW e \in graph, dq' = Queued(e), request' = request,
         isInQ' = IF request.algorithm = EdwardMoore THEN [isInQ EXCEPT ![e.to] = TRUE] ELSE isInQ
  PROVE  /\ dq' \in Seq(Vertex) /\ isInQ' \in [Vertex -> BOOLEAN]
         /\ \A v : InDeque(v) => InDeque(v)'
         /\ InDeque(e.to)'
         /\ Marked'
<1> DEFINE w == e.to
<1>1. w \in Vertex
  BY GraphArcs DEF TypeOK
<1>2. /\ Append(dq, w) \in Seq(Vertex) /\ <<w>> \o dq \in Seq(Vertex)
      /\ \A n \in DOMAIN dq : n \in DOMAIN Append(dq, w) /\ Append(dq, w)[n] = dq[n]
      /\ Len(dq) + 1 \in DOMAIN Append(dq, w) /\ Append(dq, w)[Len(dq) + 1] = w
      /\ \A n \in DOMAIN Append(dq, w) : n = Len(dq) + 1 \/ n \in DOMAIN dq
      /\ \A n \in DOMAIN dq : n + 1 \in DOMAIN (<<w>> \o dq) /\ (<<w>> \o dq)[n + 1] = dq[n]
      /\ 1 \in DOMAIN (<<w>> \o dq) /\ (<<w>> \o dq)[1] = w
  BY <1>1, LongerDeque DEF TypeOK
<1>3. dq' \in {dq, Append(dq, w), <<w>> \o dq}
  BY DEF Queued
<1>4. isInQ' \in [Vertex -> BOOLEAN] /\ dq' \in Seq(Vertex)
  BY <1>1, <1>2, <1>3 DEF TypeOK
<1>5. ASSUME NEW v, InDeque(v) PROVE InDeque(v)'
  <2>1. PICK n \in DOMAIN dq : dq[n] = v
    BY <1>5 DEF InDeque
  <2>2. QED
    BY <2>1, <1>2, <1>3 DEF InDeque
<1>6. InDeque(w)'
  <2>1. CASE dq' = dq
    BY <2>1, <1>1, <1>2, <1>5 DEF Queued, Marked, InDeque
  <2>2. CASE dq' = Append(dq, w)
    BY <2>2, <1>2 DEF InDeque
  <2>3. CASE dq' = <<w>> \o dq
    BY <2>3, <1>2 DEF InDeque
  <2>4. QED
    BY <2>1, <2>2, <2>3, <1>3
<1>7. Marked'
  <2> SUFFICES ASSUME request.algorithm = EdwardMoore
               PROVE  /\ \A v \in Vertex : isInQ'[v] => InDeque(v)'
                      /\ \A m, n \in DOMAIN dq' : dq'[m] = dq'[n] => m = n
                      /\ \A n \in DOMAIN dq' : isInQ'[dq'[n]]
    BY DEF Marked
  <2>1. /\ \A v \in Vertex : isInQ'[v] <=> (isInQ[v] \/ v = w)
        /\ \A v \in Vertex : isInQ[v] => InDeque(v)
        /\ \A m, n \in DOMAIN dq : dq[m] = dq[n] => m = n
        /\ \A n \in DOMAIN dq : isInQ[dq[n]] /\ dq[n] \in Vertex
    BY <1>1 DEF TypeOK, Marked
  <2>2. \A v \in Vertex : isInQ'[v] => InDeque(v)'
    BY <2>1, <1>5, <1>6
  <2>3. CASE isInQ[w]
    <3>1. dq' = dq
      BY <2>3 DEF Queued
    <3>2. QED
      BY <3>1, <2>1, <2>2
  <2>4. CASE ~ isInQ[w]
    <3>1. dq' = Append(dq, w)
      BY <2>4 DEF Queued
    <3>2. \A n \in DOMAIN dq : dq[n] # w
      BY <2>1, <2>4
    <3>3. ASSUME NEW m \in DOMAIN dq', NEW n \in DOMAIN dq', dq'[m] = dq'[n] PROVE m = n
      BY <3>1, <3>2, <3>3, <1>2, <2>1
    <3>4. ASSUME NEW n \in DOMAIN dq' PROVE isInQ'[dq'[n]]
      BY <3>1, <1>1, <1>2, <2>1
    <3>5. QED
      BY <2>2, <3>3, <3>4
  <2>5. QED
    BY <2>3, <2>4
<1>8. QED
  BY <1>4, <1>5, <1>6, <1>7

\* Whether an edge improves a label or not, afterwards it is relaxed; what it makes
\* cheaper waits, and is not made too cheap.
LEMMA ExamineEdgeKeeps ==
  ASSUME IInv, ExamineEdge
  PROVE  IInv'
<1>1. PICK e \in pending :
        /\ pending' = pending \ {e}
        /\ IF Improves(e)
           THEN /\ current_cost' = [current_cost EXCEPT ![e.to] = Plus(current_cost[e.from], e.cost)]
                /\ dq' = Queued(e)
                /\ isInQ' = IF request.algorithm = EdwardMoore THEN [isInQ EXCEPT ![e.to] = TRUE]
                            ELSE isInQ
           ELSE current_cost' = current_cost /\ dq' = dq /\ isInQ' = isInQ
  BY DEF ExamineEdge
<1>2. /\ phase = "searching" /\ phase' = "searching" /\ request' = request /\ graph' = graph
      /\ start_vertex' = start_vertex
  BY DEF ExamineEdge, graph
<1>3. /\ TypeOK /\ Marked /\ NotTooLow /\ current_cost[start_vertex] = 0
      /\ \A a \in graph : Relaxed(a) \/ Waits(a)
  BY <1>2 DEF IInv, Searching
<1>4. /\ e \in graph
      /\ \A a \in graph : /\ a.from \in Vertex /\ a.to \in Vertex /\ a.cost \in Nat
                          /\ current_cost[a.from] \in 0..INF /\ current_cost[a.to] \in 0..INF
                          /\ Plus(current_cost[a.from], a.cost) \in 0..INF
  BY <1>3, GraphArcs, PlusIsALabel DEF TypeOK
<1> DEFINE c == Plus(current_cost[e.from], e.cost)
<1>5. CASE ~ Improves(e)
  <2>1. Relaxed(e)
    BY <1>4, <1>5, InfAssumption DEF Improves, Relaxed
  <2>2. TypeOK' /\ Marked' /\ NotTooLow' /\ current_cost'[start_vertex'] = 0
    BY <1>1, <1>2, <1>3, <1>5 DEF TypeOK, Marked, NotTooLow, InDeque
  <2>3. ASSUME NEW a \in graph PROVE Relaxed(a)' \/ Waits(a)'
    BY <2>1, <1>1, <1>3, <1>5 DEF Relaxed, Waits, InDeque
  <2>4. QED
    BY <1>2, <2>2, <2>3 DEF IInv, Searching
<1>6. CASE Improves(e)
  <2>1. /\ current_cost' = [current_cost EXCEPT ![e.to] = c]
        /\ dq' = Queued(e)
        /\ isInQ' = IF request.algorithm = EdwardMoore THEN [isInQ EXCEPT ![e.to] = TRUE] ELSE isInQ
    BY <1>1, <1>6
  <2>2. /\ dq' \in Seq(Vertex) /\ isInQ' \in [Vertex -> BOOLEAN]
        /\ \A v : InDeque(v) => InDeque(v)'
        /\ InDeque(e.to)' /\ Marked'
    BY <2>1, <1>2, <1>3, <1>4, QueuedKeeps
  <2>3. current_cost' \in [Vertex -> 0..INF]
    BY <2>1, <1>3, <1>4 DEF TypeOK
  <2>4. /\ \A v \in Vertex : current_cost'[v] = IF v = e.to THEN c ELSE current_cost[v]
        /\ c <= current_cost[e.to]
    BY <2>1, <1>3, <1>4, <1>6, InfAssumption DEF TypeOK, Improves
  <2>5. TypeOK'
    BY <2>2, <2>3, <1>1, <1>2, <1>3 DEF TypeOK
  <2>6. current_cost'[start_vertex'] = 0
    BY <2>4, <1>2, <1>3, <1>4 DEF TypeOK
  <2>7. NotTooLow'
    <3> SUFFICES ASSUME NEW D, Potential(graph, start_vertex, D), NEW v \in Vertex
                 PROVE  D[v] <= current_cost'[v]
      BY <1>2 DEF NotTooLow
    <3>1. /\ D \in [Vertex -> 0..INF] /\ D[v] <= current_cost[v]
          /\ D[e.from] <= current_cost[e.from] /\ D[e.to] <= D[e.from] + e.cost
      BY <1>3, <1>4 DEF NotTooLow, Potential
    <3>2. D[e.to] <= c
      <4>1. D[e.to] \in 0..INF /\ D[e.from] \in 0..INF
        BY <3>1, <1>4
      <4>2. QED
        BY <4>1, <3>1, <1>4, InfAssumption DEF Plus
    <3>3. QED
      BY <3>1, <3>2, <2>4
  <2>8. ASSUME NEW a \in graph PROVE Relaxed(a)' \/ Waits(a)'
    <3>1. CASE a.from = e.to
      BY <3>1, <2>2 DEF Waits
    <3>2. CASE a.from # e.to
      <4>1. current_cost'[a.from] = current_cost[a.from] /\ current_cost'[a.to] <= current_cost[a.to]
        BY <3>2, <2>4, <1>4
      <4>2. CASE a = e
        BY <4>1, <4>2, <2>4, <1>4 DEF Relaxed, Plus
      <4>3. CASE Relaxed(a)
        <5>1. current_cost'[a.to] \in 0..INF
          BY <2>3, <1>4
        <5>2. QED
          BY <5>1, <4>1, <4>3, <1>4 DEF Relaxed, Plus
      <4>4. CASE Waits(a) /\ a # e
        BY <4>4, <2>2, <1>1 DEF Waits
      <4>5. QED
        BY <4>2, <4>3, <4>4, <1>3
    <3>3. QED
      BY <3>1, <3>2
  <2>9. QED
    BY <1>2, <2>2, <2>5, <2>6, <2>7, <2>8 DEF IInv, Searching
<1>7. QED
  BY <1>5, <1>6

----------------------------------------------------------------------------
(***************************************************************************)
(* The search for costs of zero and one other cost.  Each entry of the     *)
(* deque has a key, the label its vertex had when it was put there; keys   *)
(* are in order and no further apart than the other cost.  An entry may    *)
(* be stale, its vertex cheaper by now: then the vertex was taken out      *)
(* before, in front of it.  "level" is the key of the last head.           *)
(***************************************************************************)
\* The other cost.
IsDear(arcs, w) == w \in Nat /\ \A a \in arcs : a.cost \in {0, w}

IsRelaxed(label, a) == label[a.to] <= Plus(label[a.from], a.cost)

\* The entry that still has work to do has the label of its vertex as its key.
WaitsAt(q, label, key, a) == \E n \in DOMAIN q : q[n] = a.from /\ key[n] = label[a.from]

InOrder(q, label, arcs, pend, w, key, level) ==
  /\ level \in 0..INF
  /\ \A n \in DOMAIN q : /\ key[n] \in 0..INF /\ level <= key[n] /\ key[n] <= Plus(level, w)
                         /\ label[q[n]] <= key[n]
  /\ \A m, n \in DOMAIN q : m <= n => key[m] <= key[n]
  /\ \A a \in arcs : IsRelaxed(label, a) \/ a \in pend \/ WaitsAt(q, label, key, a)
  /\ \A a \in pend : label[a.from] <= level /\ (IsRelaxed(label, a) \/ label[a.from] = level)
  /\ \A a, b \in pend : a.from = b.from

\* costCheck leaves zero and one other cost.
LEMMA TwoCosts ==
  ASSUME request \in Requests, costCheck
  PROVE  \E w : IsDear(graph, w)
<1> DEFINE S == {a.cost : a \in graph}
<1>1. S \in SUBSET Nat /\ Cardinality(S) <= 2 /\ (Cardinality(S) = 2 => 0 \in S)
  BY GraphArcs DEF costCheck
<1>2. IsFiniteSet(S)
  <2> DEFINE f == [a \in graph |-> a.cost]
  <2>1. f \in Surjection(graph, S) /\ IsFiniteSet(graph)
    BY RequestsAssumption DEF Surjection, graph
  <2>2. QED
    BY <2>1, FS_Surjection
<1>3. \A a \in graph : a.cost \in S
  OBVIOUS
<1> HIDE DEF S
<1>4. Cardinality(S) \in {0, 1, 2}
  BY <1>1, <1>2, FS_CardinalityType
<1>5. CASE Cardinality(S) = 0
  <2>1. S = {}
    BY <1>2, <1>5, FS_EmptySet
  <2>2. IsDear(graph, 0)
    BY <2>1, <1>3 DEF IsDear
  <2>3. QED
    BY <2>2
<1>6. CASE Cardinality(S) = 1
  <2>1. PICK w : S = {w}
    BY <1>2, <1>6, FS_Singleton
  <2>2. IsDear(graph, w)
    BY <2>1, <1>1, <1>3 DEF IsDear
  <2>3. QED
    BY <2>2
<1>7. CASE Cardinality(S) = 2
  <2>1. 0 \in S
    BY <1>1, <1>7
  <2>2. IsFiniteSet(S \ {0}) /\ Cardinality(S \ {0}) = 1
    BY <2>1, <1>2, <1>7, FS_RemoveElement
  <2>3. PICK w : S \ {0} = {w}
    BY <2>2, FS_Singleton
  <2>4. IsDear(graph, w)
    BY <2>3, <2>1, <1>1, <1>3 DEF IsDear
  <2>5. QED
    BY <2>4
<1>8. QED
  BY <1>4, <1>5, <1>6, <1>7

\* A search begins with its start, at key zero.
LEMMA StartInOrder ==
  ASSUME NEW arcs \in SUBSET Arc, NEW s \in Vertex, NEW w \in Nat
  PROVE  InOrder(<<s>>, [v \in Vertex |-> IF v = s THEN 0 ELSE INF], arcs, {}, w, <<0>>, 0)
<1> DEFINE label == [v \in Vertex |-> IF v = s THEN 0 ELSE INF]
<1>1. \A n \in DOMAIN <<s>> : <<s>>[n] = s /\ <<0>>[n] = 0
  OBVIOUS
<1>2. ASSUME NEW a \in arcs PROVE IsRelaxed(label, a) \/ WaitsAt(<<s>>, label, <<0>>, a)
  <2>1. a.from \in Vertex /\ a.to \in Vertex /\ a.cost \in Nat
    BY DEF Arc
  <2>2. CASE a.from = s
    <3>1. 1 \in DOMAIN <<s>>
      OBVIOUS
    <3>2. QED
      BY <3>1, <1>1, <2>2 DEF WaitsAt
  <2>3. CASE a.from # s
    BY <2>1, <2>3, InfAssumption DEF IsRelaxed, Plus
  <2>4. QED
    BY <2>2, <2>3
<1>3. 0 <= Plus(0, w)
  BY InfAssumption DEF Plus
<1>4. QED
  BY <1>1, <1>2, <1>3, InfAssumption DEF InOrder

\* The vertex in front has its distance: cut off at its key, the labels are a
\* potential.
LEMMA FrontIsExact ==
  ASSUME NEW arcs \in SUBSET Arc, NEW s \in Vertex, NEW label \in [Vertex -> 0..INF],
         label[s] = 0, NEW q \in Seq(Vertex), q # <<>>, NEW w, NEW key, NEW level,
         InOrder(q, label, arcs, {}, w, key, level),
         \A D : Potential(arcs, s, D) => \A v \in Vertex : D[v] <= label[v]
  PROVE  label[Head(q)] = Distance(arcs, s, Head(q))
<1> DEFINE u == Head(q)
           k == key[1]
           D == [v \in Vertex |-> IF label[v] <= k THEN label[v] ELSE k]
<1>1. u \in Vertex /\ 1 \in DOMAIN q /\ u = q[1] /\ \A n \in DOMAIN q : 1 <= n
  OBVIOUS
<1>2. k \in 0..INF /\ label[u] <= k /\ \A n \in DOMAIN q : k <= key[n]
  BY <1>1 DEF InOrder
<1>3. \A v \in Vertex : label[v] \in 0..INF
  OBVIOUS
<1> HIDE DEF k
<1>4. \A v \in Vertex : D[v] = IF label[v] <= k THEN label[v] ELSE k
  OBVIOUS
<1>5. D \in [Vertex -> 0..INF]
  BY <1>2
<1> HIDE DEF D
<1>6. D[s] = 0
  BY <1>2, <1>4
<1>7. ASSUME NEW a \in arcs PROVE D[a.to] <= D[a.from] + a.cost
  <2>1. a.from \in Vertex /\ a.to \in Vertex /\ a.cost \in Nat
    BY DEF Arc
  <2>2. /\ label[a.from] \in 0..INF /\ label[a.to] \in 0..INF
        /\ D[a.from] = IF label[a.from] <= k THEN label[a.from] ELSE k
        /\ D[a.to] = IF label[a.to] <= k THEN label[a.to] ELSE k
    BY <2>1, <1>3, <1>4
  <2>3. CASE IsRelaxed(label, a)
    BY <2>1, <2>2, <2>3, <1>2, InfAssumption DEF IsRelaxed, Plus
  <2>4. CASE WaitsAt(q, label, key, a)
    <3>1. k <= label[a.from]
      BY <2>4, <1>2 DEF WaitsAt
    <3>2. QED
      BY <3>1, <2>1, <2>2, <1>2, InfAssumption
  <2>5. QED
    BY <2>3, <2>4 DEF InOrder
<1>8. Potential(arcs, s, D)
  BY <1>5, <1>6, <1>7 DEF Potential
<1>9. D[u] = label[u]
  BY <1>1, <1>2, <1>4
<1>10. PICK E : IsGreatest(arcs, s, E)
  BY GreatestExists
<1>11. E[u] <= label[u] /\ D[u] <= E[u] /\ E[u] \in 0..INF
  BY <1>1, <1>8, <1>10 DEF IsGreatest, Potential
<1>12. E[u] = label[u]
  BY <1>1, <1>3, <1>9, <1>11, InfAssumption
<1>13. QED
  BY <1>1, <1>10, <1>12, DistanceIsGreatest

\* The next head: its key is the level, and what it has to do comes next.
LEMMA HeadInOrder ==
  ASSUME NEW arcs \in SUBSET Arc, NEW label \in [Vertex -> 0..INF],
         NEW q \in Seq(Vertex), q # <<>>, NEW w \in Nat, NEW key, NEW level,
         InOrder(q, label, arcs, {}, w, key, level)
  PROVE  InOrder(Tail(q), label, arcs, OutArcs(arcs, Head(q)), w,
                 [n \in DOMAIN Tail(q) |-> key[n + 1]], key[1])
<1> DEFINE u == Head(q)
           k == key[1]
           p == OutArcs(arcs, u)
           r == [n \in DOMAIN Tail(q) |-> key[n + 1]]
<1>1. /\ u \in Vertex /\ 1 \in DOMAIN q /\ u = q[1] /\ \A n \in DOMAIN q : 1 <= n
      /\ \A n \in DOMAIN Tail(q) : n + 1 \in DOMAIN q /\ Tail(q)[n] = q[n + 1]
      /\ \A n \in DOMAIN q : n # 1 => n - 1 \in DOMAIN Tail(q) /\ Tail(q)[n - 1] = q[n]
      /\ DOMAIN q \subseteq Nat /\ DOMAIN Tail(q) \subseteq Nat \ {0}
  BY TailOfDeque
<1>2. /\ level \in 0..INF
      /\ \A n \in DOMAIN q : /\ key[n] \in 0..INF /\ level <= key[n] /\ key[n] <= Plus(level, w)
                             /\ label[q[n]] <= key[n]
      /\ \A m, n \in DOMAIN q : m <= n => key[m] <= key[n]
      /\ \A a \in arcs : IsRelaxed(label, a) \/ WaitsAt(q, label, key, a)
  BY DEF InOrder
<1>3. k \in 0..INF /\ level <= k /\ label[u] <= k /\ \A n \in DOMAIN q : k <= key[n]
  BY <1>1, <1>2
<1>4. Plus(level, w) <= Plus(k, w)
  BY <1>2, <1>3, InfAssumption DEF Plus
<1>5. \A n \in DOMAIN Tail(q) : r[n] = key[n + 1]
  OBVIOUS
<1> HIDE DEF r, k
<1>6. ASSUME NEW n \in DOMAIN Tail(q)
      PROVE  r[n] \in 0..INF /\ k <= r[n] /\ r[n] <= Plus(k, w) /\ label[Tail(q)[n]] <= r[n]
  <2>1. n + 1 \in DOMAIN q /\ r[n] = key[n + 1] /\ Tail(q)[n] = q[n + 1]
    BY <1>1, <1>5
  <2>2. key[n + 1] \in 0..INF /\ k <= key[n + 1] /\ key[n + 1] <= Plus(level, w) /\ label[q[n + 1]] <= key[n + 1]
    BY <2>1, <1>2, <1>3
  <2>3. Plus(level, w) \in Int /\ Plus(k, w) \in Int
    BY <1>2, <1>3, InfAssumption DEF Plus
  <2>4. QED
    BY <2>1, <2>2, <2>3, <1>4
<1>7. ASSUME NEW m \in DOMAIN Tail(q), NEW n \in DOMAIN Tail(q), m <= n PROVE r[m] <= r[n]
  <2>1. m + 1 \in DOMAIN q /\ n + 1 \in DOMAIN q /\ m + 1 <= n + 1
    BY <1>1, <1>7
  <2>2. r[m] = key[m + 1] /\ r[n] = key[n + 1]
    BY <1>5
  <2>3. QED
    BY <2>1, <2>2, <1>2
<1>8. ASSUME NEW a \in arcs PROVE IsRelaxed(label, a) \/ a \in p \/ WaitsAt(Tail(q), label, r, a)
  <2>1. CASE a.from = u
    BY <2>1 DEF OutArcs
  <2>2. CASE WaitsAt(q, label, key, a) /\ a.from # u
    <3>1. PICK n \in DOMAIN q : q[n] = a.from /\ key[n] = label[a.from]
      BY <2>2 DEF WaitsAt
    <3>2. n # 1
      BY <3>1, <2>2, <1>1
    <3>3. n - 1 \in DOMAIN Tail(q) /\ Tail(q)[n - 1] = a.from /\ (n - 1) + 1 = n
      BY <3>1, <3>2, <1>1
    <3>4. r[n - 1] = label[a.from]
      BY <3>1, <3>3, <1>5
    <3>5. QED
      BY <3>3, <3>4 DEF WaitsAt
  <2>3. QED
    BY <2>1, <2>2, <1>2
<1>9. ASSUME NEW a \in p PROVE label[a.from] <= k /\ (IsRelaxed(label, a) \/ label[a.from] = k)
  <2>1. a \in arcs /\ a.from = u
    BY DEF OutArcs
  <2>2. label[u] \in 0..INF
    BY <1>1
  <2>3. WaitsAt(q, label, key, a) => k <= label[u]
    BY <2>1, <1>3 DEF WaitsAt
  <2>4. QED
    BY <2>1, <2>2, <2>3, <1>2, <1>3
<1>10. \A a, b \in p : a.from = b.from
  BY DEF OutArcs
<1>11. QED
  BY <1>3, <1>6, <1>7, <1>8, <1>9, <1>10 DEF InOrder, k, r

\* The deque r with keys h is the deque q with keys key and one more entry, for v
\* with the key x.
Grown(r, h, q, key, v, x) ==
  /\ \A n \in DOMAIN q : \E m \in DOMAIN r : r[m] = q[n] /\ h[m] = key[n]
  /\ \E m \in DOMAIN r : r[m] = v /\ h[m] = x
  /\ \A m \in DOMAIN r : \/ \E n \in DOMAIN q : r[m] = q[n] /\ h[m] = key[n]
                         \/ r[m] = v /\ h[m] = x
  /\ \A m, n \in DOMAIN r : m <= n => h[m] <= h[n]

\* An entry behind all others, with a key that is not less than theirs.
LEMMA GrownBehind ==
  ASSUME NEW q \in Seq(Vertex), NEW v \in Vertex, NEW key, NEW x \in Nat,
         \A n \in DOMAIN q : key[n] \in Nat /\ key[n] <= x,
         \A m, n \in DOMAIN q : m <= n => key[m] <= key[n]
  PROVE  \E h : Grown(Append(q, v), h, q, key, v, x)
<1> DEFINE r == Append(q, v)
           l == Len(q) + 1
           h == [n \in DOMAIN r |-> IF n = l THEN x ELSE key[n]]
<1>1. /\ r \in Seq(Vertex) /\ Len(q) \in Nat
      /\ \A n \in DOMAIN q : n \in DOMAIN r /\ r[n] = q[n] /\ n < l
      /\ l \in DOMAIN r /\ r[l] = v
      /\ \A n \in DOMAIN r : n = l \/ n \in DOMAIN q
      /\ DOMAIN r \subseteq Nat
  BY LongerDeque
<1> HIDE DEF r, l
<1>2. \A n \in DOMAIN r : h[n] = IF n = l THEN x ELSE key[n]
  OBVIOUS
<1> HIDE DEF h
<1>3. \A n \in DOMAIN q : n \in DOMAIN r /\ r[n] = q[n] /\ h[n] = key[n]
  BY <1>1, <1>2
<1>4. l \in DOMAIN r /\ r[l] = v /\ h[l] = x
  BY <1>1, <1>2
<1>5. ASSUME NEW m \in DOMAIN r, NEW n \in DOMAIN r, m <= n PROVE h[m] <= h[n]
  <2>1. CASE n = l /\ m = l
    BY <2>1, <1>4
  <2>2. CASE n = l /\ m \in DOMAIN q
    BY <2>2, <1>3, <1>4
  <2>3. CASE n \in DOMAIN q /\ m \in DOMAIN q
    BY <2>3, <1>3, <1>5
  <2>4. CASE n \in DOMAIN q /\ m = l
    BY <2>4, <1>1, <1>5
  <2>5. QED
    BY <2>1, <2>2, <2>3, <2>4, <1>1
<1>6. \A m \in DOMAIN r : \/ \E n \in DOMAIN q : r[m] = q[n] /\ h[m] = key[n]
                          \/ r[m] = v /\ h[m] = x
  BY <1>1, <1>3, <1>4
<1>7. Grown(r, h, q, key, v, x)
  BY <1>3, <1>4, <1>5, <1>6 DEF Grown
<1>8. QED
  BY <1>7 DEF r

\* An entry in front of all others, with a key that is not more than theirs.
LEMMA GrownInFront ==
  ASSUME NEW q \in Seq(Vertex), NEW v \in Vertex, NEW key, NEW x \in Nat,
         \A n \in DOMAIN q : key[n] \in Nat /\ x <= key[n],
         \A m, n \in DOMAIN q : m <= n => key[m] <= key[n]
  PROVE  \E h : Grown(<<v>> \o q, h, q, key, v, x)
<1> DEFINE r == <<v>> \o q
           h == [n \in DOMAIN r |-> IF n = 1 THEN x ELSE key[n - 1]]
<1>1. /\ r \in Seq(Vertex) /\ r # <<>> /\ 1 \in DOMAIN r /\ r[1] = v
      /\ \A n \in DOMAIN q : n + 1 \in DOMAIN r /\ r[n + 1] = q[n]
  BY LongerDeque
<1>2. Tail(r) = q
  <2>1. Len(q) \in Nat /\ <<v>> \in Seq(Vertex) /\ Len(<<v>>) = 1
    OBVIOUS
  <2>2. Len(r) = Len(q) + 1
    BY <2>1
  <2>3. Tail(r) \in Seq(Vertex) /\ Len(Tail(r)) = Len(q)
    BY <2>1, <2>2, <1>1
  <2>4. \A n \in 1..Len(q) : Tail(r)[n] = q[n]
    BY <2>1, <2>2, <1>1, TailOfDeque
  <2>5. QED
    BY <2>3, <2>4
<1>3. /\ \A n \in DOMAIN r : n # 1 => n - 1 \in DOMAIN q /\ q[n - 1] = r[n]
      /\ DOMAIN r \subseteq Nat /\ DOMAIN q \subseteq Nat \ {0}
  BY <1>1, <1>2, TailOfDeque
<1> HIDE DEF r
<1>4. \A n \in DOMAIN r : h[n] = IF n = 1 THEN x ELSE key[n - 1]
  OBVIOUS
<1> HIDE DEF h
<1>5. h[1] = x /\ \A n \in DOMAIN r : n # 1 => h[n] = key[n - 1]
  BY <1>1, <1>4
<1>6. ASSUME NEW n \in DOMAIN q PROVE n + 1 \in DOMAIN r /\ r[n + 1] = q[n] /\ h[n + 1] = key[n]
  <2>1. n \in Nat \ {0} /\ n + 1 \in DOMAIN r /\ n + 1 # 1 /\ (n + 1) - 1 = n
    BY <1>1, <1>3
  <2>2. QED
    BY <2>1, <1>1, <1>5
<1>7. ASSUME NEW m \in DOMAIN r, NEW n \in DOMAIN r, m <= n PROVE h[m] <= h[n]
  <2>1. m \in Nat /\ n \in Nat
    BY <1>3
  <2>2. CASE m = 1 /\ n = 1
    BY <2>2, <1>5
  <2>3. CASE m = 1 /\ n # 1
    <3>1. n - 1 \in DOMAIN q /\ h[n] = key[n - 1]
      BY <2>3, <1>3, <1>5
    <3>2. QED
      BY <3>1, <2>3, <1>5
  <2>4. CASE m # 1 /\ n # 1
    <3>1. /\ n - 1 \in DOMAIN q /\ h[n] = key[n - 1] /\ m - 1 \in DOMAIN q /\ h[m] = key[m - 1]
          /\ m - 1 <= n - 1
      BY <2>1, <2>4, <1>3, <1>5, <1>7
    <3>2. QED
      BY <3>1
  <2>5. CASE m # 1 /\ n = 1
    <3>1. m - 1 \in Nat \ {0}
      BY <2>5, <1>3
    <3>2. QED
      BY <3>1, <2>1, <2>5, <1>7
  <2>6. QED
    BY <2>2, <2>3, <2>4, <2>5
<1>8. \A n \in DOMAIN q : \E m \in DOMAIN r : r[m] = q[n] /\ h[m] = key[n]
  BY <1>6
<1>9. \A m \in DOMAIN r : \/ \E n \in DOMAIN q : r[m] = q[n] /\ h[m] = key[n]
                          \/ r[m] = v /\ h[m] = x
  BY <1>1, <1>3, <1>5
<1>10. Grown(r, h, q, key, v, x)
  BY <1>1, <1>5, <1>7, <1>8, <1>9 DEF Grown
<1>11. QED
  BY <1>10 DEF r

\* An edge that improves nothing is relaxed, and done with.
LEMMA SkippedInOrder ==
  ASSUME NEW q, NEW label, NEW arcs, NEW pend, NEW w, NEW key, NEW level,
         InOrder(q, label, arcs, pend, w, key, level), NEW e \in pend, IsRelaxed(label, e)
  PROVE  InOrder(q, label, arcs, pend \ {e}, w, key, level)
<1>1. \A a \in arcs : IsRelaxed(label, a) \/ a \in pend \ {e} \/ WaitsAt(q, label, key, a)
  BY DEF InOrder
<1>2. QED
  BY <1>1 DEF InOrder

\* An edge that improves the label of its end: either the labels stay what they
\* are, or the label is the key that the end waits with.
LEMMA GrownInOrder ==
  ASSUME NEW arcs \in SUBSET Arc, NEW label \in [Vertex -> 0..INF], NEW q \in Seq(Vertex),
         NEW pend \in SUBSET arcs, NEW e \in pend, NEW w, NEW key, NEW level,
         InOrder(q, label, arcs, pend, w, key, level),
         NEW new \in [Vertex -> 0..INF],
         \A v \in Vertex : new[v] = IF v = e.to THEN Plus(label[e.from], e.cost) ELSE label[v],
         \A v \in Vertex : new[v] <= label[v],
         new[e.from] = label[e.from],
         NEW x \in 0..INF, level <= x, x <= Plus(level, w), new[e.to] <= x,
         \/ \A v \in Vertex : new[v] = label[v]
         \/ new[e.to] = x,
         NEW r, NEW h, Grown(r, h, q, key, e.to, x)
  PROVE  InOrder(r, new, arcs, pend \ {e}, w, h, level)
<1>1. \A a \in arcs : a.from \in Vertex /\ a.to \in Vertex /\ a.cost \in Nat
  BY DEF Arc
<1>2. \A v \in Vertex : new[v] \in 0..INF /\ label[v] \in 0..INF
  OBVIOUS
<1>3. /\ level \in 0..INF
      /\ \A n \in DOMAIN q : /\ key[n] \in 0..INF /\ level <= key[n] /\ key[n] <= Plus(level, w)
                             /\ label[q[n]] <= key[n]
      /\ \A a \in arcs : IsRelaxed(label, a) \/ a \in pend \/ WaitsAt(q, label, key, a)
      /\ \A a \in pend : label[a.from] <= level /\ (IsRelaxed(label, a) \/ label[a.from] = level)
      /\ \A a, b \in pend : a.from = b.from
  BY DEF InOrder
<1>4. ASSUME NEW m \in DOMAIN r
      PROVE  h[m] \in 0..INF /\ level <= h[m] /\ h[m] <= Plus(level, w) /\ new[r[m]] <= h[m]
  <2>1. CASE r[m] = e.to /\ h[m] = x
    BY <2>1
  <2>2. ASSUME NEW n \in DOMAIN q, r[m] = q[n], h[m] = key[n]
        PROVE  h[m] \in 0..INF /\ level <= h[m] /\ h[m] <= Plus(level, w) /\ new[r[m]] <= h[m]
    <3>1. q[n] \in Vertex /\ key[n] \in 0..INF /\ label[q[n]] <= key[n]
      BY <1>3
    <3>2. new[q[n]] <= key[n]
      BY <3>1, <1>2
    <3>3. QED
      BY <3>2, <2>2, <1>3
  <2>3. QED
    BY <2>1, <2>2 DEF Grown
<1>5. ASSUME NEW a \in arcs, IsRelaxed(label, a), new[a.from] = label[a.from] PROVE IsRelaxed(new, a)
  <2>1. new[a.to] <= label[a.to] /\ new[a.to] \in 0..INF /\ label[a.to] \in 0..INF
    BY <1>1, <1>2
  <2>2. Plus(label[a.from], a.cost) \in Int
    BY <1>1, <1>2, InfAssumption DEF Plus
  <2>3. QED
    BY <2>1, <2>2, <1>5 DEF IsRelaxed
<1>6. IsRelaxed(new, e)
  <2>1. e.to \in Vertex /\ new[e.to] = Plus(label[e.from], e.cost) /\ new[e.to] \in 0..INF
    BY <1>1
  <2>2. QED
    BY <2>1 DEF IsRelaxed
<1>7. ASSUME NEW a \in arcs PROVE IsRelaxed(new, a) \/ a \in pend \ {e} \/ WaitsAt(r, new, h, a)
  <2>1. CASE new[a.from] = label[a.from]
    <3>1. CASE IsRelaxed(label, a)
      BY <3>1, <2>1, <1>5
    <3>2. CASE a \in pend
      BY <3>2, <1>6
    <3>3. CASE WaitsAt(q, label, key, a)
      <4>1. PICK n \in DOMAIN q : q[n] = a.from /\ key[n] = label[a.from]
        BY <3>3 DEF WaitsAt
      <4>2. PICK m \in DOMAIN r : r[m] = q[n] /\ h[m] = key[n]
        BY DEF Grown
      <4>3. QED
        BY <4>1, <4>2, <2>1 DEF WaitsAt
    <3>4. QED
      BY <3>1, <3>2, <3>3, <1>3
  <2>2. CASE new[a.from] # label[a.from]
    <3>1. a.from = e.to /\ new[e.to] = x
      BY <2>2, <1>1
    <3>2. PICK m \in DOMAIN r : r[m] = e.to /\ h[m] = x
      BY DEF Grown
    <3>3. QED
      BY <3>1, <3>2 DEF WaitsAt
  <2>3. QED
    BY <2>1, <2>2
<1>8. ASSUME NEW a \in pend \ {e}
      PROVE  new[a.from] <= level /\ (IsRelaxed(new, a) \/ new[a.from] = level)
  <2>1. a.from = e.from /\ a \in arcs
    BY <1>3
  <2>2. QED
    BY <2>1, <1>3, <1>5
<1>9. QED
  BY <1>3, <1>4, <1>7, <1>8 DEF InOrder, Grown

\* An edge that improves the label of its end, which goes to the end or, when the
\* edge costs nothing, to the front of the deque.
LEMMA TakenInOrder ==
  ASSUME NEW arcs \in SUBSET Arc, NEW label \in [Vertex -> 0..INF], NEW q \in Seq(Vertex),
         NEW pend \in SUBSET arcs, NEW e \in pend, NEW w, IsDear(arcs, w), NEW key, NEW level,
         InOrder(q, label, arcs, pend, w, key, level),
         NEW c, c = Plus(label[e.from], e.cost), label[e.to] = INF \/ c < label[e.to],
         NEW new, new = [label EXCEPT ![e.to] = c]
  PROVE  \E h : InOrder(IF e.cost # 0 THEN Append(q, e.to) ELSE <<e.to>> \o q,
                        new, arcs, pend \ {e}, w, h, level)
<1> DEFINE x == IF e.cost # 0 THEN Plus(level, w) ELSE level
           r == IF e.cost # 0 THEN Append(q, e.to) ELSE <<e.to>> \o q
<1>0. INF \in Nat \ {0}
  BY InfAssumption
<1>1. /\ e.from \in Vertex /\ e.to \in Vertex /\ e.cost \in Nat /\ w \in Nat /\ e.cost \in {0, w}
      /\ label[e.from] \in 0..INF /\ label[e.to] \in 0..INF
  BY DEF Arc, IsDear
<1>2. c \in 0..INF /\ label[e.from] <= c /\ c <= label[e.to]
  <2>1. Plus(label[e.from], e.cost) \in 0..INF /\ label[e.from] <= Plus(label[e.from], e.cost)
    BY <1>1, PlusIsALabel
  <2>2. QED
    BY <2>1, <1>0, <1>1
<1>3. /\ new \in [Vertex -> 0..INF]
      /\ \A v \in Vertex : new[v] = IF v = e.to THEN c ELSE label[v]
  BY <1>1, <1>2
<1>4. \A v \in Vertex : label[v] \in 0..INF /\ new[v] <= label[v]
  BY <1>2, <1>3
<1>5. new[e.from] = label[e.from]
  BY <1>1, <1>2, <1>3, <1>0
<1>6. /\ level \in 0..INF /\ label[e.from] <= level
      /\ IsRelaxed(label, e) \/ label[e.from] = level
      /\ \A n \in DOMAIN q : key[n] \in 0..INF /\ level <= key[n] /\ key[n] <= Plus(level, w)
      /\ \A m, n \in DOMAIN q : m <= n => key[m] <= key[n]
  BY DEF InOrder
<1>7. x \in 0..INF /\ level <= x /\ x <= Plus(level, w) /\ c <= x
  BY <1>0, <1>1, <1>6 DEF Plus
<1>8. (\A v \in Vertex : new[v] = label[v]) \/ new[e.to] = x
  <2>1. CASE label[e.from] = level
    <3>1. c = x
      BY <2>1, <1>0, <1>1, <1>6 DEF Plus
    <3>2. QED
      BY <3>1, <1>1, <1>3
  <2>2. CASE IsRelaxed(label, e)
    <3>1. c = label[e.to]
      BY <2>2, <1>0, <1>1, <1>2 DEF IsRelaxed
    <3>2. QED
      BY <3>1, <1>3
  <2>3. QED
    BY <2>1, <2>2, <1>6
<1>9. \E h : Grown(r, h, q, key, e.to, x)
  <2>1. CASE e.cost # 0
    <3>1. x \in Nat /\ \A n \in DOMAIN q : key[n] \in Nat /\ key[n] <= x
      BY <2>1, <1>6, <1>7
    <3> HIDE DEF x
    <3>2. \E h : Grown(Append(q, e.to), h, q, key, e.to, x)
      BY <3>1, <1>1, <1>6, GrownBehind
    <3>3. QED
      BY <3>2, <2>1
  <2>2. CASE e.cost = 0
    <3>1. x \in Nat /\ \A n \in DOMAIN q : key[n] \in Nat /\ x <= key[n]
      BY <2>2, <1>6, <1>7
    <3> HIDE DEF x
    <3>2. \E h : Grown(<<e.to>> \o q, h, q, key, e.to, x)
      BY <3>1, <1>1, <1>6, GrownInFront
    <3>3. QED
      BY <3>2, <2>2
  <2>3. QED
    BY <2>1, <2>2, <1>1
<1>10. PICK h : Grown(r, h, q, key, e.to, x)
  BY <1>9
<1> HIDE DEF x, r
<1>11. /\ \A v \in Vertex : new[v] = IF v = e.to THEN Plus(label[e.from], e.cost) ELSE label[v]
       /\ new \in [Vertex -> 0..INF] /\ new[e.to] <= x
  <2>1. new[e.to] = c
    BY <1>1, <1>3
  <2>2. QED
    BY <2>1, <1>3, <1>7
<1>12. InOrder(r, new, arcs, pend \ {e}, w, h, level)
  BY <1>4, <1>5, <1>7, <1>8, <1>10, <1>11, GrownInOrder
<1>13. QED
  BY <1>12 DEF r

\* The deque is in order throughout binaryBreadthFirstSearch.
DequeInOrder == \E w, key, level : /\ IsDear(graph, w)
                                   /\ InOrder(dq, current_cost, graph, pending, w, key, level)

FrontInv ==
  request.algorithm = BinaryBFS =>
    /\ phase \in {"sources", "searching"} => costCheck
    /\ phase = "searching" => DequeInOrder

\* Every step keeps it so.
LEMMA FrontKept == IInv /\ FrontInv /\ [Next]_vars => FrontInv'
<1> SUFFICES ASSUME IInv, FrontInv, [Next]_vars, request'.algorithm = BinaryBFS
             PROVE  /\ phase' \in {"sources", "searching"} => costCheck'
                    /\ phase' = "searching" => DequeInOrder'
  BY DEF FrontInv
<1>1. request' = request /\ graph' = graph /\ costCheck' = costCheck /\ request \in Requests
  BY DEF Next, Done, vars, Refuse, Accept, SkipSource, StartSearch, ExamineVertex, ExamineEdge,
         EndSearch, Return, graph, costCheck, IInv, TypeOK
<1>2. request.algorithm = BinaryBFS /\ (phase \in {"sources", "searching"} => costCheck)
  BY <1>1 DEF FrontInv
<1>3. graph \in SUBSET Arc
  BY <1>1, GraphArcs
<1>4. CASE Refuse \/ SkipSource \/ EndSearch \/ Return
  BY <1>1, <1>2, <1>4 DEF Refuse, SkipSource, EndSearch, Return, SearchIsOver
<1>5. CASE Accept
  BY <1>1, <1>2, <1>5 DEF Accept, Acceptable
<1>6. CASE StartSearch
  <2> DEFINE s == Min(sources)
  <2>1. /\ dq' = <<s>> /\ pending' = {} /\ s \in Vertex /\ costCheck
        /\ current_cost' = [v \in Vertex |-> IF v = s THEN 0 ELSE INF]
    BY <1>2, <1>3, <1>6 DEF StartSearch, has_vertex, VerticesOf, Arc
  <2>2. PICK w : IsDear(graph, w)
    BY <1>1, <2>1, TwoCosts
  <2>3. w \in Nat
    BY <2>2 DEF IsDear
  <2> HIDE DEF s
  <2>4. InOrder(<<s>>, [v \in Vertex |-> IF v = s THEN 0 ELSE INF], graph, {}, w, <<0>>, 0)
    BY <1>3, <2>1, <2>3, StartInOrder
  <2>5. DequeInOrder'
    BY <1>1, <2>1, <2>2, <2>4 DEF DequeInOrder
  <2>6. QED
    BY <2>1, <2>5, <1>1
<1>7. CASE ExamineVertex
  <2>1. /\ phase = "searching" /\ pending = {} /\ dq # <<>> /\ dq' = Tail(dq)
        /\ pending' = OutArcs(graph, Head(dq)) /\ current_cost' = current_cost
    BY <1>7 DEF ExamineVertex
  <2>2. PICK w, key, level : IsDear(graph, w) /\ InOrder(dq, current_cost, graph, {}, w, key, level)
    BY <2>1, <1>2 DEF FrontInv, DequeInOrder
  <2>3. w \in Nat /\ dq \in Seq(Vertex) /\ current_cost \in [Vertex -> 0..INF]
    BY <2>2 DEF IsDear, IInv, TypeOK
  <2>4. \E k, l : InOrder(Tail(dq), current_cost, graph, OutArcs(graph, Head(dq)), w, k, l)
    BY <1>3, <2>1, <2>2, <2>3, HeadInOrder
  <2>5. DequeInOrder'
    BY <1>1, <2>1, <2>2, <2>4 DEF DequeInOrder
  <2>6. QED
    BY <2>1, <2>5, <1>1, <1>2
<1>8. CASE ExamineEdge
  <2>1. PICK e \in pending :
          /\ pending' = pending \ {e}
          /\ IF Improves(e)
             THEN /\ current_cost' = [current_cost EXCEPT ![e.to] = Plus(current_cost[e.from], e.cost)]
                  /\ dq' = Queued(e)
             ELSE current_cost' = current_cost /\ dq' = dq
    BY <1>8 DEF ExamineEdge
  <2>2. /\ phase = "searching" /\ pending \in SUBSET graph
        /\ dq \in Seq(Vertex) /\ current_cost \in [Vertex -> 0..INF]
    BY <1>8 DEF ExamineEdge, IInv, TypeOK
  <2>3. PICK w, key, level : IsDear(graph, w) /\ InOrder(dq, current_cost, graph, pending, w, key, level)
    BY <2>2, <1>2 DEF FrontInv, DequeInOrder
  <2>4. CASE Improves(e)
    <3> DEFINE c == Plus(current_cost[e.from], e.cost)
    <3>1. dq' = IF e.cost # 0 THEN Append(dq, e.to) ELSE <<e.to>> \o dq
      BY <2>1, <2>4, <1>2 DEF Queued, EdwardMoore, BinaryBFS
    <3>2. current_cost' = [current_cost EXCEPT ![e.to] = c]
      BY <2>1, <2>4
    <3>3. current_cost[e.to] = INF \/ c < current_cost[e.to]
      BY <2>4 DEF Improves
    <3> HIDE DEF c
    <3>4. c = Plus(current_cost[e.from], e.cost)
      BY DEF c
    <3>5. \E h : InOrder(IF e.cost # 0 THEN Append(dq, e.to) ELSE <<e.to>> \o dq,
                         [current_cost EXCEPT ![e.to] = c], graph, pending \ {e}, w, h, level)
      BY <1>3, <2>2, <2>3, <3>3, <3>4, TakenInOrder
    <3>6. QED
      BY <1>1, <1>2, <2>1, <2>2, <2>3, <3>1, <3>2, <3>5 DEF DequeInOrder
  <2>5. CASE ~ Improves(e)
    <3>1. IsRelaxed(current_cost, e)
      <4>1. /\ current_cost[e.to] \in 0..INF /\ current_cost[e.from] \in 0..INF /\ e.cost \in Nat
        BY <1>3, <2>2 DEF Arc
      <4>2. QED
        BY <4>1, <2>5, InfAssumption DEF Improves, IsRelaxed, Plus
    <3>2. InOrder(dq, current_cost, graph, pending \ {e}, w, key, level)
      BY <2>3, <3>1, SkippedInOrder
    <3>3. QED
      BY <1>1, <1>2, <2>1, <2>2, <2>3, <2>5, <3>2 DEF DequeInOrder
  <2>6. QED
    BY <2>4, <2>5
<1>9. CASE UNCHANGED vars
  BY <1>9, <1>1, <1>2 DEF vars, searchVars, FrontInv, DequeInOrder
<1>10. QED
  BY <1>4, <1>5, <1>6, <1>7, <1>8, <1>9 DEF Next, Done

----------------------------------------------------------------------------
(***************************************************************************)
(* The edges that getPath goes back by.  They form a tree of vertices that *)
(* can be reached: among those with a label less than INF a rank decreases *)
(* towards the start, although edges of cost zero may close a ring.        *)
(***************************************************************************)
Reached(tree, s, v) == v = s \/ tree[v] # {}

IsTreeOf(label, tree, arcs, s) ==
  /\ \A v \in Vertex : tree[v] = {} \/ \E e \in arcs : /\ tree[v] = {e} /\ e.to = v
                                                        /\ Plus(label[e.from], e.cost) <= label[v]
  /\ tree[s] = {}
  /\ \A v \in Vertex : label[v] < INF => Reached(tree, s, v)
  /\ \A v \in Vertex : tree[v] # {} => Distance(arcs, s, v) < INF

Ranked(label, tree, rank) ==
  /\ rank \in [Vertex -> Nat]
  /\ \A v \in Vertex : label[v] < INF => \A e \in tree[v] : rank[e.from] < rank[v]

TreeInv ==
  phase = "searching" =>
    /\ from_edge \in [Vertex -> SUBSET graph]
    /\ IsTreeOf(current_cost, from_edge, graph, start_vertex)
    /\ \E rank : Ranked(current_cost, from_edge, rank)
    /\ \A n \in DOMAIN dq : Reached(from_edge, start_vertex, dq[n])
    /\ \A a \in pending : Reached(from_edge, start_vertex, a.from)

\* The edge e improves the label of its end, to c.
IsImproved(new, c, label, e) ==
  /\ c = Plus(label[e.from], e.cost)
  /\ label[e.to] = INF \/ c < label[e.to]
  /\ new = [label EXCEPT ![e.to] = c]

\* What that does to the labels.
IsCheaper(new, c, label, e) ==
  /\ c \in 0..INF /\ label[e.from] <= c /\ c <= label[e.to]
  /\ new \in [Vertex -> 0..INF]
  /\ \A v \in Vertex : new[v] = IF v = e.to THEN c ELSE label[v]
  /\ \A v \in Vertex : new[v] <= label[v]
  /\ new[e.from] = label[e.from]

\* What an edge does to the labels when it improves one.
LEMMA ImprovedLabels ==
  ASSUME NEW arcs \in SUBSET Arc, NEW label \in [Vertex -> 0..INF], NEW e \in arcs,
         NEW c, NEW new, IsImproved(new, c, label, e)
  PROVE  IsCheaper(new, c, label, e)
<1>0. INF \in Nat \ {0}
  BY InfAssumption
<1>1. /\ e.from \in Vertex /\ e.to \in Vertex /\ e.cost \in Nat
      /\ label[e.from] \in 0..INF /\ label[e.to] \in 0..INF
  BY DEF Arc
<1>2. c \in 0..INF /\ label[e.from] <= c /\ c <= label[e.to]
  <2>1. Plus(label[e.from], e.cost) \in 0..INF /\ label[e.from] <= Plus(label[e.from], e.cost)
    BY <1>1, PlusIsALabel
  <2>2. QED
    BY <2>1, <1>0, <1>1 DEF IsImproved
<1>3. /\ new \in [Vertex -> 0..INF]
      /\ \A v \in Vertex : new[v] = IF v = e.to THEN c ELSE label[v]
  BY <1>1, <1>2 DEF IsImproved
<1>4. \A v \in Vertex : new[v] <= label[v]
  BY <1>2, <1>3
<1>5. new[e.from] = label[e.from]
  BY <1>1, <1>2, <1>3, <1>0 DEF IsImproved
<1>6. QED
  BY <1>2, <1>3, <1>4, <1>5 DEF IsCheaper

\* The edge is now the one its end was reached by, in the tree and in what is told of it.
IsSpliced(grown, tree, e) == grown = [tree EXCEPT ![e.to] = {e}]

IsReplaced(grown, tree, e) ==
  \A v \in Vertex : grown[v] = IF v = e.to THEN {e} ELSE tree[v]

\* The tree stays one when a vertex is reached by a better edge.
LEMMA TreeGrows ==
  ASSUME NEW arcs \in SUBSET Arc, NEW s \in Vertex, NEW label \in [Vertex -> 0..INF], label[s] = 0,
         NEW tree \in [Vertex -> SUBSET arcs], IsTreeOf(label, tree, arcs, s),
         NEW e \in arcs, Reached(tree, s, e.from),
         Distance(arcs, s, e.from) < INF => Distance(arcs, s, e.from) + e.cost < INF,
         NEW c, NEW new, IsImproved(new, c, label, e),
         NEW grown, IsSpliced(grown, tree, e)
  PROVE  /\ IsTreeOf(new, grown, arcs, s)
         /\ grown \in [Vertex -> SUBSET arcs]
         /\ IsReplaced(grown, tree, e)
         /\ \A v \in Vertex : Reached(tree, s, v) => Reached(grown, s, v)
<1>0. INF \in Nat \ {0}
  BY InfAssumption
<1>1. /\ c \in 0..INF /\ label[e.from] <= c /\ c <= label[e.to]
      /\ new \in [Vertex -> 0..INF]
      /\ \A v \in Vertex : new[v] = IF v = e.to THEN c ELSE label[v]
      /\ \A v \in Vertex : new[v] <= label[v]
      /\ new[e.from] = label[e.from]
  <2>1. IsCheaper(new, c, label, e)
    BY ImprovedLabels
  <2>2. QED
    BY <2>1 DEF IsCheaper
<1>2. \A a \in arcs : a.from \in Vertex /\ a.to \in Vertex /\ a.cost \in Nat
  BY DEF Arc
<1>3. /\ grown \in [Vertex -> SUBSET arcs]
      /\ \A v \in Vertex : grown[v] = IF v = e.to THEN {e} ELSE tree[v]
  BY <1>2 DEF IsSpliced
<1>4. e.to # s
  BY <1>0, <1>1 DEF IsImproved
<1>5. Plus(label[e.from], e.cost) = c
  BY DEF IsImproved
<1>6. ASSUME NEW v \in Vertex, grown[v] # {}
      PROVE  \E f \in arcs : grown[v] = {f} /\ f.to = v /\ Plus(new[f.from], f.cost) <= new[v]
  <2>1. CASE v = e.to
    <3>1. Plus(new[e.from], e.cost) <= new[v] /\ grown[v] = {e}
      BY <2>1, <1>1, <1>3, <1>5
    <3>2. QED
      BY <2>1, <3>1
  <2>2. CASE v # e.to
    <3>1. PICK f \in arcs : tree[v] = {f} /\ f.to = v /\ Plus(label[f.from], f.cost) <= label[v]
      BY <2>2, <1>3, <1>6 DEF IsTreeOf
    <3>2. /\ new[f.from] \in 0..INF /\ label[f.from] \in 0..INF /\ new[f.from] <= label[f.from]
          /\ f.cost \in Nat /\ new[v] = label[v] /\ label[v] \in 0..INF
      BY <2>2, <1>1, <1>2
    <3>3. Plus(new[f.from], f.cost) <= new[v]
      BY <3>1, <3>2, <1>0 DEF Plus
    <3>4. QED
      BY <3>1, <3>3, <2>2, <1>3
  <2>3. QED
    BY <2>1, <2>2
<1>7. grown[s] = {}
  BY <1>3, <1>4 DEF IsTreeOf
<1>8. \A v \in Vertex : Reached(tree, s, v) => Reached(grown, s, v)
  BY <1>3 DEF Reached
<1>9. ASSUME NEW v \in Vertex, new[v] < INF PROVE Reached(grown, s, v)
  <2>1. CASE v = e.to
    BY <2>1, <1>3 DEF Reached
  <2>2. CASE v # e.to
    BY <2>2, <1>1, <1>3, <1>8, <1>9 DEF IsTreeOf
  <2>3. QED
    BY <2>1, <2>2
<1>10. Distance(arcs, s, e.to) < INF
  <2>1. /\ Distance(arcs, s, e.from) \in 0..INF /\ Distance(arcs, s, e.to) \in 0..INF
        /\ Distance(arcs, s, s) = 0
        /\ Distance(arcs, s, e.to) <= Distance(arcs, s, e.from) + e.cost
    BY <1>2, DistanceFacts
  <2>2. Distance(arcs, s, e.from) < INF
    BY <2>1, <1>0, <1>2 DEF Reached, IsTreeOf
  <2>3. QED
    BY <2>1, <2>2, <1>0, <1>2
<1>11. \A v \in Vertex : grown[v] # {} => Distance(arcs, s, v) < INF
  BY <1>3, <1>10 DEF IsTreeOf
<1>12. IsTreeOf(new, grown, arcs, s)
  BY <1>6, <1>7, <1>9, <1>11 DEF IsTreeOf
<1>13. QED
  BY <1>3, <1>8, <1>12 DEF IsReplaced

\* There is a new rank: whatever is not cheaper than the vertex was, the vertex and
\* all that was reached through it included, comes after the beginning of the edge.
LEMMA RankGrows ==
  ASSUME NEW arcs \in SUBSET Arc, NEW s \in Vertex, NEW label \in [Vertex -> 0..INF], label[s] = 0,
         NEW tree \in [Vertex -> SUBSET arcs], IsTreeOf(label, tree, arcs, s),
         NEW rank, Ranked(label, tree, rank), NEW e \in arcs,
         NEW c, NEW new, IsImproved(new, c, label, e),
         NEW grown, IsReplaced(grown, tree, e)
  PROVE  \E h : Ranked(new, grown, h)
<1> DEFINE b == label[e.to]
           k == rank[e.from] + 1
           h == [v \in Vertex |-> IF b <= label[v] THEN rank[v] + k ELSE rank[v]]
<1>0. INF \in Nat \ {0}
  BY InfAssumption
<1>1. /\ c \in 0..INF /\ label[e.from] <= c /\ c <= label[e.to]
      /\ new \in [Vertex -> 0..INF]
      /\ \A v \in Vertex : new[v] = IF v = e.to THEN c ELSE label[v]
  <2>1. IsCheaper(new, c, label, e)
    BY ImprovedLabels
  <2>2. QED
    BY <2>1 DEF IsCheaper
<1>2. \A a \in arcs : a.from \in Vertex /\ a.to \in Vertex /\ a.cost \in Nat
  BY DEF Arc
<1>3. (\A v \in Vertex : rank[v] \in Nat /\ label[v] \in 0..INF) /\ k \in Nat \ {0} /\ b \in 0..INF
  BY <1>2 DEF Ranked
<1>33. \A v \in Vertex : grown[v] = IF v = e.to THEN {e} ELSE tree[v]
  BY DEF IsReplaced
<1>4. \A v \in Vertex : h[v] = IF b <= label[v] THEN rank[v] + k ELSE rank[v]
  OBVIOUS
<1>5. h \in [Vertex -> Nat]
  BY <1>3
<1> HIDE DEF h
<1>6. ASSUME NEW v \in Vertex, new[v] < INF, NEW f \in grown[v] PROVE h[f.from] < h[v]
  <2>1. CASE v = e.to
    <3>1. f = e /\ c < INF
      BY <2>1, <1>1, <1>33, <1>6
    <3>2. label[e.from] < b /\ e.from \in Vertex
      BY <3>1, <1>1, <1>2, <1>3, <1>0 DEF IsImproved
    <3>3. h[e.from] = rank[e.from] /\ h[v] = rank[v] + k
      BY <3>2, <2>1, <1>3, <1>4
    <3>4. QED
      BY <3>1, <3>2, <3>3, <1>3
  <2>2. CASE v # e.to
    <3>1. f \in tree[v] /\ label[v] < INF
      BY <2>2, <1>1, <1>33, <1>6
    <3>2. f \in arcs /\ Plus(label[f.from], f.cost) <= label[v]
      BY <3>1 DEF IsTreeOf
    <3>3. f.from \in Vertex /\ label[f.from] <= label[v]
      BY <3>1, <3>2, <1>0, <1>2, <1>3 DEF Plus
    <3>4. rank[f.from] < rank[v]
      BY <3>1 DEF Ranked
    <3>5. QED
      BY <3>3, <3>4, <1>3, <1>4
  <2>3. QED
    BY <2>1, <2>2
<1>7. Ranked(new, grown, h)
  BY <1>5, <1>6 DEF Ranked
<1>8. QED
  BY <1>7

\* Every step keeps the tree.
LEMMA TreeKept == IInv /\ TreeInv /\ [Next]_vars => TreeInv'
<1> SUFFICES ASSUME IInv, TreeInv, [Next]_vars, phase' = "searching"
             PROVE  /\ from_edge' \in [Vertex -> SUBSET graph']
                    /\ IsTreeOf(current_cost', from_edge', graph', start_vertex')
                    /\ \E rank : Ranked(current_cost', from_edge', rank)
                    /\ \A n \in DOMAIN dq' : Reached(from_edge', start_vertex', dq'[n])
                    /\ \A a \in pending' : Reached(from_edge', start_vertex', a.from)
  BY DEF TreeInv
<1>1. request' = request /\ graph' = graph /\ request \in Requests
  BY DEF Next, Done, vars, Refuse, Accept, SkipSource, StartSearch, ExamineVertex, ExamineEdge,
         EndSearch, Return, graph, IInv, TypeOK
<1>2. graph \in SUBSET Arc
  BY <1>1, GraphArcs
<1>3. phase = "searching" =>
        /\ from_edge \in [Vertex -> SUBSET graph]
        /\ IsTreeOf(current_cost, from_edge, graph, start_vertex)
        /\ \E rank : Ranked(current_cost, from_edge, rank)
        /\ \A n \in DOMAIN dq : Reached(from_edge, start_vertex, dq[n])
        /\ \A a \in pending : Reached(from_edge, start_vertex, a.from)
        /\ start_vertex \in Vertex /\ current_cost \in [Vertex -> 0..INF] /\ current_cost[start_vertex] = 0
        /\ dq \in Seq(Vertex) /\ pending \in SUBSET graph
  BY DEF TreeInv, IInv, TypeOK, Searching
<1>4. CASE StartSearch
  <2> DEFINE s == Min(sources)
  <2>1. /\ dq' = <<s>> /\ pending' = {} /\ s \in Vertex /\ start_vertex' = s
        /\ current_cost' = [v \in Vertex |-> IF v = s THEN 0 ELSE INF]
        /\ from_edge' = [v \in Vertex |-> {}]
    BY <1>2, <1>4 DEF StartSearch, has_vertex, VerticesOf, Arc
  <2>2. /\ \A v \in Vertex : from_edge'[v] = {}
        /\ \A v \in Vertex : current_cost'[v] = IF v = s THEN 0 ELSE INF
        /\ from_edge' \in [Vertex -> SUBSET graph']
    BY <2>1
  <2>3. \A n \in DOMAIN dq' : dq'[n] = s
    BY <2>1
  <2> HIDE DEF s
  <2>4. IsTreeOf(current_cost', from_edge', graph', s)
    BY <2>1, <2>2, InfAssumption DEF IsTreeOf, Reached
  <2>5. Ranked(current_cost', from_edge', [v \in Vertex |-> 0])
    BY <2>2 DEF Ranked
  <2>6. QED
    BY <2>1, <2>2, <2>3, <2>4, <2>5 DEF Reached
<1>5. CASE ExamineVertex
  <2>1. /\ phase = "searching" /\ dq # <<>> /\ dq' = Tail(dq) /\ pending' = OutArcs(graph, Head(dq))
        /\ UNCHANGED <<current_cost, from_edge, start_vertex>>
    BY <1>5 DEF ExamineVertex
  <2>2. /\ \A n \in DOMAIN Tail(dq) : n + 1 \in DOMAIN dq /\ Tail(dq)[n] = dq[n + 1]
        /\ 1 \in DOMAIN dq /\ Head(dq) = dq[1]
    BY <1>3, <2>1, TailOfDeque
  <2>3. \A a \in pending' : a.from = dq[1]
    BY <2>1, <2>2 DEF OutArcs
  <2>4. QED
    BY <1>1, <1>3, <2>1, <2>2, <2>3
<1>6. CASE ExamineEdge
  <2>1. PICK e \in pending :
          /\ pending' = pending \ {e}
          /\ IF Improves(e)
             THEN /\ current_cost' = [current_cost EXCEPT ![e.to] = Plus(current_cost[e.from], e.cost)]
                  /\ from_edge' = [from_edge EXCEPT ![e.to] = {e}]
                  /\ dq' = Queued(e)
             ELSE UNCHANGED <<current_cost, from_edge, dq>>
    BY <1>6 DEF ExamineEdge
  <2>2. phase = "searching" /\ start_vertex' = start_vertex
    BY <1>6 DEF ExamineEdge
  <2>3. CASE ~ Improves(e)
    BY <1>1, <1>3, <2>1, <2>2, <2>3
  <2>4. CASE Improves(e)
    <3> DEFINE c == Plus(current_cost[e.from], e.cost)
    <3>1. IsImproved(current_cost', c, current_cost, e)
      BY <2>1, <2>4 DEF IsImproved, Improves
    <3>2. from_edge' = [from_edge EXCEPT ![e.to] = {e}] /\ dq' = Queued(e)
      BY <2>1, <2>4
    <3>3. e \in graph /\ e.to \in Vertex /\ e.from \in Vertex /\ Reached(from_edge, start_vertex, e.from)
      BY <1>2, <1>3, <2>2 DEF Arc
    <3>4. Distance(graph, start_vertex, e.from) < INF =>
            Distance(graph, start_vertex, e.from) + e.cost < INF
      BY <1>1, <1>3, <2>2, <3>3, RoutesAreFinite DEF graph
    <3> HIDE DEF c
    <3>5. /\ IsTreeOf(current_cost', from_edge', graph, start_vertex)
          /\ from_edge' \in [Vertex -> SUBSET graph]
          /\ IsReplaced(from_edge', from_edge, e)
          /\ \A v \in Vertex : Reached(from_edge, start_vertex, v) => Reached(from_edge', start_vertex, v)
      <4>1. IsSpliced(from_edge', from_edge, e)
        BY <3>2 DEF IsSpliced
      <4>2. /\ graph \in SUBSET Arc /\ start_vertex \in Vertex /\ current_cost \in [Vertex -> 0..INF]
            /\ current_cost[start_vertex] = 0
            /\ from_edge \in [Vertex -> SUBSET graph]
            /\ IsTreeOf(current_cost, from_edge, graph, start_vertex)
        BY <1>2, <1>3, <2>2
      <4>3. QED
        BY ONLY <3>1, <3>3, <3>4, <4>1, <4>2, TreeGrows
    <3>6. PICK rank : Ranked(current_cost, from_edge, rank)
      BY <1>3, <2>2
    <3>7. \E h : Ranked(current_cost', from_edge', h)
      BY <1>2, <1>3, <2>2, <3>1, <3>3, <3>5, <3>6, RankGrows
    <3>8. \A n \in DOMAIN dq' : dq'[n] = e.to \/ \E m \in DOMAIN dq : dq'[n] = dq[m]
      <4>1. dq' \in {dq, Append(dq, e.to), <<e.to>> \o dq}
        BY <3>2 DEF Queued
      <4>2. CASE dq' = dq
        BY <4>2
      <4>3. CASE dq' = Append(dq, e.to)
        <5>1. /\ \A n \in DOMAIN dq' : n = Len(dq) + 1 \/ n \in DOMAIN dq
              /\ \A n \in DOMAIN dq : dq'[n] = dq[n]
              /\ dq'[Len(dq) + 1] = e.to
          BY <1>3, <2>2, <3>3, <4>3, LongerDeque
        <5>2. QED
          BY <5>1
      <4>4. CASE dq' = <<e.to>> \o dq
        <5>1. Len(<<e.to>>) = 1 /\ Len(dq) \in Nat /\ DOMAIN dq = 1..Len(dq) /\ <<e.to>> \in Seq(Vertex)
          BY <1>3, <2>2, <3>3
        <5>2. DOMAIN dq' = 1..Len(dq) + 1
          BY <1>3, <2>2, <4>4, <5>1
        <5>3. dq'[1] = e.to /\ \A n \in DOMAIN dq : dq'[n + 1] = dq[n]
          BY <1>3, <2>2, <3>3, <4>4, LongerDeque
        <5>4. ASSUME NEW n \in DOMAIN dq', n # 1 PROVE n - 1 \in DOMAIN dq /\ dq'[n] = dq[n - 1]
          <6>1. n - 1 \in DOMAIN dq /\ (n - 1) + 1 = n
            BY <5>1, <5>2, <5>4
          <6>2. QED
            BY <6>1, <5>3
        <5>5. QED
          BY <5>3, <5>4
      <4>5. QED
        BY <4>1, <4>2, <4>3, <4>4
    <3>9. \A n \in DOMAIN dq : dq[n] \in Vertex
      BY <1>3, <2>2
    <3>10. Reached(from_edge', start_vertex, e.to)
      BY <3>3, <3>5 DEF Reached, IsReplaced
    <3>11. \A n \in DOMAIN dq' : Reached(from_edge', start_vertex, dq'[n])
      BY <1>3, <2>2, <3>5, <3>8, <3>9, <3>10
    <3>12. \A a \in pending' : Reached(from_edge', start_vertex, a.from)
      BY <1>2, <1>3, <2>1, <2>2, <3>5 DEF Arc
    <3>13. QED
      BY <1>1, <2>2, <3>5, <3>7, <3>11, <3>12
  <2>5. QED
    BY <2>3, <2>4
<1>7. CASE UNCHANGED vars
  BY <1>1, <1>3, <1>7 DEF vars, searchVars
<1>8. QED
  BY <1>4, <1>5, <1>6, <1>7 DEF Next, Done, Refuse, Accept, SkipSource, EndSearch, Return

----------------------------------------------------------------------------
(***************************************************************************)
(* The way back: the rows of a path.                                       *)
(***************************************************************************)
\* The arcs of a finished search: what has a label was reached by an arc that gives
\* it just this label, and the way back along them comes to an end at the root.
IsExactTree(label, tree, arcs, s, rank) ==
  /\ label[s] = 0
  /\ tree[s] = {}
  /\ \A v \in Vertex : label[v] < INF /\ v # s =>
       \E e \in arcs : /\ tree[v] = {e} /\ e.to = v
                       /\ label[e.from] + e.cost = label[v] /\ rank[e.from] < rank[v]

RowOf(label, e) == [node |-> e.from, edge |-> e.id, cost |-> e.cost, agg_cost |-> label[e.from]]

LastRow(label, t) == [node |-> t, edge |-> NoEdge, cost |-> 0, agg_cost |-> label[t]]

RowBefore(c, rows) == SetToSeq({RowOf(c.label, e) : e \in c.tree[Head(rows).node]}) \o rows

NodesOf(rows) == {rows[k].node : k \in 1..Len(rows)}

IsLeg(arcs, this, next) ==
  /\ next.agg_cost = this.agg_cost + this.cost
  /\ \E a \in arcs : /\ a.from = this.node /\ a.to = next.node
                     /\ a.id = this.edge /\ a.cost = this.cost

\* The rows at hand are the end of a route; each further step makes it longer by a
\* vertex that is not yet on it, or there is no arc to go back by.
IsRouteEnd(c, n, rows) ==
  /\ Len(rows) \in Nat \ {0} /\ DOMAIN rows = 1..Len(rows) /\ rows \in Seq({rows[k] : k \in 1..Len(rows)})
  /\ rows[Len(rows)] = LastRow(c.label, c.target)
  /\ \A k \in 1..Len(rows) : /\ rows[k].node \in Vertex
                             /\ rows[k].agg_cost = c.label[rows[k].node]
                             /\ c.label[rows[k].node] < INF
                             /\ c.rank[rows[1].node] <= c.rank[rows[k].node]
  /\ \A k \in 1..Len(rows) - 1 : IsLeg(c.arcs, rows[k], rows[k + 1])
  /\ c.tree[rows[1].node] = {} \/ Cardinality(NodesOf(rows)) > n

Back == INSTANCE Recursion WITH
  Start <- LAMBDA c : <<LastRow(c.label, c.target)>>,
  Step  <- LAMBDA c, n, rows : RowBefore(c, rows),
  Pick  <- LAMBDA c, s : CHOOSE x \in s : TRUE,
  Claim <- LAMBDA c, n, rows : IsRouteEnd(c, n, rows)

Search(target, rank) ==
  [label |-> current_cost, tree |-> from_edge, arcs |-> graph, target |-> target, rank |-> rank]

\* getPath is that recursion.
LEMMA RowsAreCounted ==
  ASSUME NEW target, NEW rank
  PROVE  getPath(target).rows =
           Back!Counted(Search(target, rank), 0, Cardinality(Vertex))[Cardinality(Vertex)]
BY DEF getPath, Search, LastRow, RowBefore, RowOf, Back!Counted, Back!IsCounted

\* A sequence of the elements of a set with at most one element.
LEMMA SetToSeqOfOne ==
  /\ SetToSeq({}) = <<>>
  /\ \A r : SetToSeq({r}) = <<r>>
<1>1. SetToSeq({}) = <<>>
  <2>1. Cardinality({}) = 0
    BY FS_EmptySet
  <2>2. PICK f : f \in [1..0 -> {}]
    <3>1. [i \in 1..0 |-> i] \in [1..0 -> {}]
      OBVIOUS
    <3>2. QED
      BY <3>1
  <2>3. \A g \in [1..0 -> {}] : g = <<>> /\ IsInjective(g)
    BY DEF IsInjective
  <2>4. \E g \in [1..Cardinality({}) -> {}] : IsInjective(g)
    BY <2>1, <2>2, <2>3
  <2>5. SetToSeq({}) \in [1..Cardinality({}) -> {}]
    BY <2>4 DEF SetToSeq
  <2>6. QED
    BY <2>1, <2>3, <2>5
<1>2. ASSUME NEW r PROVE SetToSeq({r}) = <<r>>
  <2>1. Cardinality({r}) = 1
    BY FS_Singleton
  <2>2. <<r>> \in [1..1 -> {r}] /\ IsInjective(<<r>>)
    BY DEF IsInjective
  <2>3. SetToSeq({r}) \in [1..1 -> {r}]
    BY <2>1, <2>2 DEF SetToSeq
  <2>4. QED
    BY <2>3
<1>3. QED
  BY <1>1, <1>2

\* What a finished search is, as far as the way back is concerned.
IsSearch(c) ==
  /\ c.arcs \in SUBSET Arc /\ c.label \in [Vertex -> 0..INF] /\ c.rank \in [Vertex -> Nat]
  /\ \E s \in Vertex : IsExactTree(c.label, c.tree, c.arcs, s, c.rank)

\* One row more in front.
LEMMA RouteGrows ==
  ASSUME NEW c, IsSearch(c), NEW n \in Nat, NEW rows, IsRouteEnd(c, n - 1, rows)
  PROVE  IsRouteEnd(c, n, RowBefore(c, rows))
<1> DEFINE v == rows[1].node
<1>1. PICK s \in Vertex : IsExactTree(c.label, c.tree, c.arcs, s, c.rank)
  BY DEF IsSearch
<1>2. /\ c.arcs \in SUBSET Arc /\ c.label \in [Vertex -> 0..INF] /\ c.rank \in [Vertex -> Nat]
  BY DEF IsSearch
<1>3. /\ Len(rows) \in Nat \ {0} /\ DOMAIN rows = 1..Len(rows)
      /\ rows \in Seq({rows[k] : k \in 1..Len(rows)})
      /\ rows[Len(rows)] = LastRow(c.label, c.target)
      /\ \A k \in 1..Len(rows) : /\ rows[k].node \in Vertex
                                 /\ rows[k].agg_cost = c.label[rows[k].node]
                                 /\ c.label[rows[k].node] < INF
                                 /\ c.rank[rows[1].node] <= c.rank[rows[k].node]
      /\ \A k \in 1..Len(rows) - 1 : IsLeg(c.arcs, rows[k], rows[k + 1])
      /\ c.tree[rows[1].node] = {} \/ Cardinality(NodesOf(rows)) > n - 1
  BY DEF IsRouteEnd
<1>4. Head(rows) = rows[1] /\ 1 \in 1..Len(rows) /\ v \in Vertex /\ c.label[v] < INF
  BY <1>3
<1>5. CASE c.tree[v] = {}
  <2>1. {RowOf(c.label, e) : e \in c.tree[v]} = {}
    BY <1>5
  <2>2. RowBefore(c, rows) = rows
    <3>1. RowBefore(c, rows) = <<>> \o rows
      BY <2>1, <1>4, SetToSeqOfOne DEF RowBefore
    <3>2. <<>> \o rows = rows
      BY <1>3
    <3>3. QED
      BY <3>1, <3>2
  <2>3. QED
    BY <2>2, <1>3, <1>5 DEF IsRouteEnd
<1>6. CASE c.tree[v] # {}
  <2>1. PICK e \in c.arcs : /\ c.tree[v] = {e} /\ e.to = v
                            /\ c.label[e.from] + e.cost = c.label[v] /\ c.rank[e.from] < c.rank[v]
    BY <1>1, <1>4, <1>6 DEF IsExactTree
  <2>2. e.from \in Vertex /\ e.cost \in Nat /\ c.label[e.from] \in 0..INF /\ c.label[v] \in 0..INF
    BY <1>2, <1>4, <2>1 DEF Arc
  <2> DEFINE r == RowOf(c.label, e)
             longer == <<r>> \o rows
             m == Len(rows)
  <2>3. {RowOf(c.label, f) : f \in c.tree[v]} = {r}
    BY <2>1
  <2>4. RowBefore(c, rows) = longer
    BY <2>3, <1>4, SetToSeqOfOne DEF RowBefore
  <2>5. r.node = e.from /\ r.edge = e.id /\ r.cost = e.cost /\ r.agg_cost = c.label[e.from]
    BY DEF RowOf
  <2>6. /\ Len(longer) = m + 1 /\ DOMAIN longer = 1..m + 1
        /\ longer[1] = r /\ \A k \in 1..m : longer[k + 1] = rows[k]
        /\ longer \in Seq({r} \cup {rows[k] : k \in 1..m})
    <3>1. <<r>> \in Seq({r} \cup {rows[k] : k \in 1..m}) /\ rows \in Seq({r} \cup {rows[k] : k \in 1..m})
          /\ Len(<<r>>) = 1 /\ <<r>>[1] = r
      BY <1>3
    <3> HIDE DEF r
    <3>2. QED
      BY <3>1, <1>3
  <2> HIDE DEF r, longer, m
  <2>7. \A k \in 1..m + 1 : k = 1 \/ (k - 1 \in 1..m /\ longer[k] = rows[k - 1])
    <3>1. ASSUME NEW k \in 1..m + 1, k # 1 PROVE k - 1 \in 1..m /\ longer[k] = rows[k - 1]
      <4>1. m \in Nat
        BY <1>3 DEF m
      <4>2. k - 1 \in 1..m /\ (k - 1) + 1 = k
        BY <3>1, <4>1
      <4>3. QED
        BY <4>2, <2>6
    <3>2. QED
      BY <3>1
  <2>8. m \in Nat \ {0} /\ longer[m + 1] = rows[m]
    BY <1>3, <2>6 DEF m
  <2>9. longer \in Seq({longer[k] : k \in 1..m + 1})
    BY <2>6, <2>8
  <2>10. c.label[e.from] < INF
    BY <1>4, <2>1, <2>2, InfAssumption
  <2>11. \A k \in 1..m : c.rank[e.from] < c.rank[rows[k].node]
    <3>1. SUFFICES ASSUME NEW k \in 1..m PROVE c.rank[e.from] < c.rank[rows[k].node]
      OBVIOUS
    <3>2. rows[k].node \in Vertex /\ c.rank[v] <= c.rank[rows[k].node]
      BY <1>3 DEF m
    <3>3. c.rank[e.from] \in Nat /\ c.rank[v] \in Nat /\ c.rank[rows[k].node] \in Nat
      BY <1>2, <1>4, <2>2, <3>2
    <3>4. QED
      BY <2>1, <3>2, <3>3
  <2>12. ASSUME NEW k \in 1..m + 1
         PROVE  /\ longer[k].node \in Vertex /\ longer[k].agg_cost = c.label[longer[k].node]
                /\ c.label[longer[k].node] < INF
                /\ c.rank[longer[1].node] <= c.rank[longer[k].node]
    <3>1. CASE k = 1
      BY <3>1, <1>2, <2>2, <2>5, <2>6, <2>10
    <3>2. CASE k # 1
      <4>1. k - 1 \in 1..m /\ longer[k] = rows[k - 1]
        BY <3>2, <2>7
      <4>2. /\ rows[k - 1].node \in Vertex /\ rows[k - 1].agg_cost = c.label[rows[k - 1].node]
            /\ c.label[rows[k - 1].node] < INF
        BY <4>1, <1>3 DEF m
      <4>3. c.rank[e.from] < c.rank[rows[k - 1].node]
        BY <4>1, <2>11
      <4>4. longer[1].node = e.from
        BY <2>5, <2>6
      <4>5. c.rank[e.from] \in Nat /\ c.rank[rows[k - 1].node] \in Nat
        BY <1>2, <2>2, <4>2
      <4>6. QED
        BY <4>1, <4>2, <4>3, <4>4, <4>5
    <3>3. QED
      BY <3>1, <3>2
  <2>13. ASSUME NEW k \in 1..m PROVE IsLeg(c.arcs, longer[k], longer[k + 1])
    <3>0. k \in 1..m + 1
      BY <2>8
    <3>1. CASE k = 1
      <4>1. longer[k] = r /\ longer[k + 1] = rows[1] /\ rows[1].agg_cost = c.label[v]
        BY <3>1, <2>6, <1>3, <1>4 DEF m
      <4>2. QED
        BY <4>1, <2>1, <2>5 DEF IsLeg
    <3>2. CASE k # 1
      <4>1. k - 1 \in 1..m /\ longer[k] = rows[k - 1] /\ longer[k + 1] = rows[k] /\ (k - 1) + 1 = k
            /\ k - 1 \in 1..m - 1
        BY <3>0, <3>2, <2>6, <2>7, <2>8
      <4>2. QED
        BY <4>1, <1>3 DEF m
    <3>3. QED
      BY <3>1, <3>2
  <2>14. Cardinality(NodesOf(longer)) > n
    <3>1. NodesOf(longer) = NodesOf(rows) \cup {e.from}
      <4>1. ASSUME NEW x \in NodesOf(longer) PROVE x \in NodesOf(rows) \cup {e.from}
        <5>1. PICK k \in 1..m + 1 : x = longer[k].node
          BY <2>6 DEF NodesOf
        <5>2. QED
          BY <5>1, <2>5, <2>6, <2>7 DEF NodesOf, m
      <4>2. ASSUME NEW x \in NodesOf(rows) PROVE x \in NodesOf(longer)
        <5>1. PICK k \in 1..m : x = rows[k].node
          BY DEF NodesOf, m
        <5>2. k + 1 \in 1..m + 1 /\ longer[k + 1] = rows[k]
          BY <2>6, <2>8
        <5>3. QED
          BY <5>1, <5>2, <2>6 DEF NodesOf
      <4>3. e.from \in NodesOf(longer)
        <5>1. 1 \in 1..m + 1
          BY <2>8
        <5>2. QED
          BY <5>1, <2>5, <2>6 DEF NodesOf
      <4>4. QED
        BY <4>1, <4>2, <4>3
    <3>2. e.from \notin NodesOf(rows)
      <4>1. SUFFICES ASSUME NEW k \in 1..m, rows[k].node = e.from PROVE FALSE
        BY DEF NodesOf, m
      <4>2. c.rank[e.from] < c.rank[e.from] /\ c.rank[e.from] \in Nat
        BY <4>1, <1>2, <2>2, <2>11
      <4>3. QED
        BY <4>2
    <3>3. IsFiniteSet(NodesOf(rows))
      <4>1. NodesOf(rows) \in SUBSET Vertex
        BY <1>3 DEF NodesOf
      <4>2. QED
        BY <4>1, FS_Subset, VertexAssumption
    <3>4. /\ Cardinality(NodesOf(longer)) = Cardinality(NodesOf(rows)) + 1
          /\ Cardinality(NodesOf(rows)) \in Nat
      BY <3>1, <3>2, <3>3, FS_AddElement, FS_CardinalityType
    <3>5. QED
      BY <3>4, <1>3, <1>6
  <2>15. c.label \in [Vertex -> 0..INF] /\ longer[m + 1] = LastRow(c.label, c.target)
    BY <1>2, <1>3, <2>8 DEF m
  <2>16. IsRouteEnd(c, n, longer)
    <3>1. Len(longer) = m + 1 /\ m + 1 \in Nat \ {0} /\ (m + 1) - 1 = m
      BY <2>6, <2>8
    <3>2. QED
      BY <3>1, <2>6, <2>9, <2>12, <2>13, <2>14, <2>15 DEF IsRouteEnd
  <2>17. QED
    BY <2>4, <2>16
<1>7. QED
  BY <1>5, <1>6

\* The way back from a vertex with a label is a route from the root to it.
LEMMA RowsAreARoute ==
  ASSUME NEW c, IsSearch(c), c.target \in Vertex, c.label[c.target] < INF
  PROVE  IsRouteEnd(c, Cardinality(Vertex), Back!Counted(c, 0, Cardinality(Vertex))[Cardinality(Vertex)])
<1>1. Cardinality(Vertex) \in Nat
  BY VertexAssumption, FS_CardinalityType
<1>2. IsRouteEnd(c, 0, <<LastRow(c.label, c.target)>>)
  <2> DEFINE r == LastRow(c.label, c.target)
  <2>1. r.node = c.target /\ r.agg_cost = c.label[c.target]
    BY DEF LastRow
  <2> HIDE DEF r
  <2>2. <<r>>[1] = r /\ Len(<<r>>) = 1 /\ DOMAIN <<r>> = 1..1 /\ <<r>> \in Seq({<<r>>[k] : k \in 1..1})
    OBVIOUS
  <2>3. c.rank[c.target] \in Nat
    BY DEF IsSearch
  <2>4. NodesOf(<<r>>) = {c.target}
    BY <2>1, <2>2 DEF NodesOf
  <2>5. Cardinality(NodesOf(<<r>>)) > 0
    BY <2>4, FS_Singleton
  <2>6. IsRouteEnd(c, 0, <<r>>)
    BY <2>1, <2>2, <2>3, <2>5 DEF IsRouteEnd, r
  <2>7. QED
    BY <2>6 DEF r
<1>3. \A i \in 0 + 1..Cardinality(Vertex) : \A x : IsRouteEnd(c, i - 1, x) => IsRouteEnd(c, i, RowBefore(c, x))
  <2>1. \A i \in 0 + 1..Cardinality(Vertex) : i \in Nat
    BY <1>1
  <2>2. QED
    BY ONLY <2>1, IsSearch(c), RouteGrows
<1>4. \A i \in 0..Cardinality(Vertex) : IsRouteEnd(c, i, Back!Counted(c, 0, Cardinality(Vertex))[i])
  <2>1. 0 \in Int /\ Cardinality(Vertex) \in Int
    BY <1>1
  <2>2. QED
    BY ONLY <1>2, <1>3, <2>1, Back!CountedClaim, Zenon
<1>5. QED
  BY <1>1, <1>4

\* It begins at the root, for no vertex is on it twice.
LEMMA RouteBegins ==
  ASSUME NEW c, IsSearch(c), NEW s \in Vertex, IsExactTree(c.label, c.tree, c.arcs, s, c.rank),
         NEW rows, IsRouteEnd(c, Cardinality(Vertex), rows)
  PROVE  rows[1].node = s /\ rows[1].agg_cost = 0
<1>1. Cardinality(Vertex) \in Nat
  BY VertexAssumption, FS_CardinalityType
<1>2. NodesOf(rows) \in SUBSET Vertex
  BY DEF IsRouteEnd, NodesOf
<1>3. Cardinality(NodesOf(rows)) <= Cardinality(Vertex) /\ Cardinality(NodesOf(rows)) \in Nat
  BY <1>2, FS_Subset, FS_CardinalityType, VertexAssumption
<1>4. c.tree[rows[1].node] = {}
  BY <1>1, <1>3 DEF IsRouteEnd
<1>5. /\ rows[1].node \in Vertex /\ c.label[rows[1].node] < INF
      /\ rows[1].agg_cost = c.label[rows[1].node]
  <2>1. 1 \in 1..Len(rows)
    BY DEF IsRouteEnd
  <2>2. QED
    BY <2>1 DEF IsRouteEnd
<1>6. QED
  BY <1>4, <1>5 DEF IsExactTree

\* When a search is over its labels are the distances and its arcs exact.
LEMMA SearchIsExact ==
  ASSUME IInv, TreeInv, SearchIsOver
  PROVE  /\ graph \in SUBSET Arc /\ start_vertex \in Vertex /\ current_cost \in [Vertex -> 0..INF]
         /\ \A v \in Vertex : current_cost[v] = Distance(graph, start_vertex, v)
         /\ \A v \in Vertex : from_edge[v] # {} <=> v # start_vertex /\ current_cost[v] < INF
         /\ \E rank \in [Vertex -> Nat] :
              IsExactTree(current_cost, from_edge, graph, start_vertex, rank)
<1>1. /\ request \in Requests /\ start_vertex \in Vertex /\ current_cost \in [Vertex -> 0..INF]
      /\ current_cost[start_vertex] = 0 /\ NotTooLow /\ phase = "searching"
      /\ \A a \in graph : Relaxed(a)
  BY DEF IInv, TypeOK, Searching, SearchIsOver, Waits, InDeque
<1>2. graph \in SUBSET Arc /\ \A a \in graph : a.from \in Vertex /\ a.to \in Vertex /\ a.cost \in Nat
  BY <1>1, GraphArcs
<1>3. ASSUME NEW v \in Vertex PROVE current_cost[v] = Distance(graph, start_vertex, v)
  <2>1. IsDistance(graph, start_vertex, v, current_cost[v])
    BY <1>1, RelaxedIsExact
  <2>2. QED
    BY <1>1, <1>2, <2>1, DistanceTheorem
<1>4. /\ IsTreeOf(current_cost, from_edge, graph, start_vertex)
      /\ \E rank : Ranked(current_cost, from_edge, rank)
  BY <1>1 DEF TreeInv
<1>5. ASSUME NEW v \in Vertex PROVE from_edge[v] # {} <=> v # start_vertex /\ current_cost[v] < INF
  BY <1>1, <1>3, <1>4 DEF IsTreeOf, Reached
<1>6. PICK rank : Ranked(current_cost, from_edge, rank)
  BY <1>4
<1>7. ASSUME NEW v \in Vertex, current_cost[v] < INF, v # start_vertex
      PROVE  \E e \in graph : /\ from_edge[v] = {e} /\ e.to = v
                              /\ current_cost[e.from] + e.cost = current_cost[v]
                              /\ rank[e.from] < rank[v]
  <2>1. PICK e \in graph : /\ from_edge[v] = {e} /\ e.to = v
                           /\ Plus(current_cost[e.from], e.cost) <= current_cost[v]
    BY <1>4, <1>5, <1>7 DEF IsTreeOf
  <2>2. current_cost[v] <= Plus(current_cost[e.from], e.cost)
    BY <1>1, <2>1 DEF Relaxed
  <2>3. current_cost[e.from] \in 0..INF /\ e.cost \in Nat /\ current_cost[v] \in 0..INF
    BY <1>1, <1>2
  <2>4. current_cost[e.from] + e.cost = current_cost[v]
    BY <1>7, <2>1, <2>2, <2>3, InfAssumption DEF Plus
  <2>5. rank[e.from] < rank[v]
    BY <1>6, <1>7, <2>1 DEF Ranked
  <2>6. QED
    BY <2>1, <2>4, <2>5
<1>8. rank \in [Vertex -> Nat] /\ from_edge[start_vertex] = {}
  BY <1>4, <1>6 DEF Ranked, IsTreeOf
<1>9. IsExactTree(current_cost, from_edge, graph, start_vertex, rank)
  BY <1>1, <1>7, <1>8 DEF IsExactTree
<1>10. QED
  BY <1>1, <1>2, <1>3, <1>5, <1>8, <1>9

\* Each path of a finished search is a shortest route.
LEMMA PathIsShortest ==
  ASSUME IInv, TreeInv, SearchIsOver, NEW t \in Vertex, from_edge[t] # {}
  PROVE  /\ IsShortestRoute(getPath(t))
         /\ getPath(t).start = start_vertex /\ getPath(t).end = t
<1>1. /\ graph \in SUBSET Arc /\ start_vertex \in Vertex /\ current_cost \in [Vertex -> 0..INF]
      /\ current_cost[t] = Distance(graph, start_vertex, t)
      /\ t # start_vertex /\ current_cost[t] < INF
  BY SearchIsExact
<1>2. PICK rank \in [Vertex -> Nat] :
        IsExactTree(current_cost, from_edge, graph, start_vertex, rank)
  BY SearchIsExact
<1> DEFINE c == Search(t, rank)
           rows == getPath(t).rows
<1>3. /\ c.label = current_cost /\ c.tree = from_edge /\ c.arcs = graph /\ c.target = t
      /\ c.rank = rank
  BY DEF Search
<1>4. rows = Back!Counted(c, 0, Cardinality(Vertex))[Cardinality(Vertex)]
  BY RowsAreCounted
<1>5. getPath(t).start = start_vertex /\ getPath(t).end = t
  BY DEF getPath
<1> HIDE DEF c, rows
<1>6. IsSearch(c) /\ IsExactTree(c.label, c.tree, c.arcs, start_vertex, c.rank)
  BY <1>1, <1>2, <1>3 DEF IsSearch
<1>7. IsRouteEnd(c, Cardinality(Vertex), rows)
  BY <1>1, <1>3, <1>4, <1>6, RowsAreARoute
<1>8. rows[1].node = start_vertex /\ rows[1].agg_cost = 0
  BY <1>1, <1>6, <1>7, RouteBegins
<1>9. /\ Len(rows) \in Nat \ {0} /\ rows[Len(rows)] = LastRow(c.label, t)
      /\ \A k \in 1..Len(rows) - 1 : IsLeg(graph, rows[k], rows[k + 1])
  BY <1>3, <1>7 DEF IsRouteEnd
<1>10. rows[Len(rows)].node = t /\ rows[Len(rows)].agg_cost = Distance(graph, start_vertex, t)
  BY <1>1, <1>3, <1>9 DEF LastRow
<1>11. Len(rows) > 1
  BY <1>1, <1>8, <1>9, <1>10
<1>12. IsShortestRoute(getPath(t))
  BY <1>5, <1>8, <1>9, <1>10, <1>11 DEF IsShortestRoute, IsLeg, Last, rows
<1>13. QED
  BY <1>5, <1>12

----------------------------------------------------------------------------
(***************************************************************************)
(* The answers.                                                            *)
(***************************************************************************)
\* The paths that answer a pair, and that they are what they should be.
Answers(ps, c) == {p \in ps : p.start = c[1] /\ p.end = c[2]}

IsAnswered(ps, arcs, c) ==
  IF c[1] # c[2] /\ Distance(arcs, c[1], c[2]) < INF
  THEN \E p : Answers(ps, c) = {p}
  ELSE Answers(ps, c) = {}

\* The sources that have not been dealt with.
Open == sources \cup IF phase = "searching" THEN {start_vertex} ELSE {}

AnswerInv ==
  /\ phase = "called" => paths = {}
  /\ phase \in {"sources", "searching", "answered"} =>
       /\ sources \in SUBSET Vertex
       /\ phase = "searching" => start_vertex \notin sources
       /\ phase = "answered" => sources = {}
       /\ \A p \in paths : IsShortestRoute(p) /\ p.start \notin Open
       /\ \A c \in request.combinations : c[1] \notin Open => IsAnswered(paths, graph, c)

\* The pairs of a request are vertices.
LEMMA Pairs ==
  ASSUME request \in Requests
  PROVE  \A c \in request.combinations : c[1] \in Vertex /\ c[2] \in Vertex
BY RequestsAssumption

\* The source that is next is one of those still to come.
LEMMA LeastSource ==
  ASSUME NEW S \in SUBSET Vertex, S # {}
  PROVE  Min(S) \in S
<1>1. S \in SUBSET Nat
  BY VertexAssumption
<1>2. \E x \in S : \A y \in S : x <= y
  BY <1>1, MinOfNaturals
<1>3. QED
  BY <1>2 DEF Min

\* What a finished search adds answers its own pairs and no others.
LEMMA EndAnswers ==
  ASSUME IInv, TreeInv, EndSearch, NEW c \in request.combinations,
         \A p \in paths : p.start # start_vertex
  PROVE  /\ c[1] # start_vertex => Answers(paths', c) = Answers(paths, c)
         /\ c[1] = start_vertex => IsAnswered(paths', graph, c)
<1> DEFINE D == {d \in request.combinations :
                   d[1] = start_vertex /\ has_vertex(d[2]) /\ from_edge[d[2]] # {}}
<1>1. SearchIsOver /\ paths' = paths \cup {getPath(d[2]) : d \in D}
  BY DEF EndSearch
<1>2. /\ request \in Requests /\ c[1] \in Vertex /\ c[2] \in Vertex
      /\ \A d \in D : d[2] \in Vertex /\ from_edge[d[2]] # {}
  BY Pairs DEF IInv, TypeOK
<1>3. \A t : getPath(t).start = start_vertex /\ getPath(t).end = t
  BY DEF getPath
<1>4. CASE c[1] # start_vertex
  BY <1>1, <1>3, <1>4 DEF Answers
<1>5. CASE c[1] = start_vertex
  <2>1. Answers(paths', c) = {getPath(d[2]) : d \in {e \in D : e[2] = c[2]}}
    BY <1>1, <1>3, <1>5 DEF Answers
  <2>2. from_edge[c[2]] # {} <=> c[1] # c[2] /\ Distance(graph, c[1], c[2]) < INF
    BY <1>1, <1>2, <1>5, SearchIsExact
  <2>3. CASE from_edge[c[2]] # {}
    <3>1. has_vertex(c[2])
      <4>1. phase = "searching"
        BY <1>1 DEF SearchIsOver
      <4>2. \E a \in graph : a.to = c[2]
        BY <1>2, <2>3, <4>1 DEF TreeInv, IsTreeOf
      <4>3. QED
        BY <4>2 DEF has_vertex, VerticesOf
    <3>2. c \in D
      BY <1>5, <2>3, <3>1
    <3>3. Answers(paths', c) = {getPath(c[2])}
      BY <2>1, <3>2
    <3>4. QED
      BY <2>2, <2>3, <3>3, <1>5 DEF IsAnswered
  <2>4. CASE from_edge[c[2]] = {}
    <3>1. {e \in D : e[2] = c[2]} = {}
      BY <2>4
    <3>2. Answers(paths', c) = {}
      BY <2>1, <3>1
    <3>3. QED
      BY <2>2, <2>4, <3>2, <1>5 DEF IsAnswered
  <2>5. QED
    BY <1>5, <2>3, <2>4
<1>6. QED
  BY <1>4, <1>5

\* Every step keeps the answers to the sources that have been dealt with.
LEMMA AnswersKept == IInv /\ TreeInv /\ AnswerInv /\ [Next]_vars => AnswerInv'
<1> SUFFICES ASSUME IInv, TreeInv, AnswerInv, [Next]_vars PROVE AnswerInv'
  OBVIOUS
<1>1. request \in Requests /\ start_vertex \in Vertex
  BY DEF IInv, TypeOK
<1>2. graph \in SUBSET Arc
  BY <1>1, GraphArcs
<1>3. ASSUME NEW c \in request.combinations PROVE c[1] \in Vertex /\ c[2] \in Vertex
  BY <1>1, Pairs
<1>4. request' = request /\ graph' = graph
  BY DEF Next, Done, vars, Refuse, Accept, SkipSource, StartSearch, ExamineVertex, ExamineEdge,
         EndSearch, Return, graph
<1>5. \A p : IsShortestRoute(p)' <=> IsShortestRoute(p)
  BY <1>4 DEF IsShortestRoute
<1>6. ASSUME paths' = paths, sources' = sources, Open' = Open, phase' # "called",
             phase \in {"sources", "searching"}, phase' \in {"sources", "searching", "answered"},
             phase' = "searching" => start_vertex' \notin sources,
             phase' = "answered" => sources = {}
      PROVE  AnswerInv'
  BY <1>4, <1>5, <1>6 DEF AnswerInv
<1>7. CASE Refuse
  BY <1>7 DEF Refuse, AnswerInv
<1>8. CASE Accept
  <2>1. /\ phase = "called" /\ phase' = "sources" /\ paths' = paths
        /\ sources' = {c[1] : c \in request.combinations}
    BY <1>8 DEF Accept
  <2>2. paths' = {}
    BY <2>1 DEF AnswerInv
  <2>3. \A c \in request.combinations : c[1] \in sources' /\ c[1] \in Open'
    BY <2>1 DEF Open
  <2>4. sources' \in SUBSET Vertex
    BY <2>1, <1>3
  <2>5. QED
    BY <1>4, <2>1, <2>2, <2>3, <2>4 DEF AnswerInv
<1>9. CASE SkipSource
  <2> DEFINE s == Min(sources)
  <2>1. /\ phase = "sources" /\ sources # {} /\ ~ has_vertex(s) /\ sources' = sources \ {s}
        /\ phase' = phase /\ paths' = paths
    BY <1>9 DEF SkipSource
  <2>2. sources \in SUBSET Vertex /\ s \in Vertex /\ s \in sources
    BY <2>1, LeastSource DEF AnswerInv
  <2> HIDE DEF s
  <2>3. Open = sources /\ Open' = sources \ {s}
    BY <2>1 DEF Open
  <2>4. \A p \in paths : IsShortestRoute(p) /\ p.start \notin Open
    BY <2>1 DEF AnswerInv
  <2>5. ASSUME NEW c \in request.combinations, c[1] \notin sources \ {s}
        PROVE  IsAnswered(paths, graph, c)
    <3>1. CASE c[1] = s
      <4>1. Answers(paths, c) = {}
        BY <2>2, <2>3, <2>4, <3>1 DEF Answers
      <4>2. \A a \in graph : a.from # s
        BY <2>1 DEF has_vertex, VerticesOf
      <4>3. c[1] # c[2] => Distance(graph, c[1], c[2]) = INF
        BY <1>2, <1>3, <3>1, <4>2, DistanceFromNowhere
      <4>4. QED
        BY <4>1, <4>3, InfAssumption DEF IsAnswered
    <3>2. CASE c[1] # s
      BY <2>1, <2>3, <2>5, <3>2 DEF AnswerInv
    <3>3. QED
      BY <3>1, <3>2
  <2>6. QED
    BY <1>4, <1>5, <2>1, <2>2, <2>3, <2>4, <2>5 DEF AnswerInv
<1>10. CASE StartSearch
  <2>1. /\ phase = "sources" /\ sources # {} /\ sources' = sources \ {Min(sources)}
        /\ phase' = "searching" /\ paths' = paths /\ start_vertex' = Min(sources)
    BY <1>10 DEF StartSearch
  <2>2. sources \in SUBSET Vertex /\ Min(sources) \in sources
    BY <2>1, LeastSource DEF AnswerInv
  <2>3. Open' = Open
    BY <2>1, <2>2 DEF Open
  <2>4. QED
    BY <1>4, <1>5, <2>1, <2>2, <2>3 DEF AnswerInv
<1>11. CASE ExamineVertex
  BY <1>6, <1>11 DEF ExamineVertex, Open, AnswerInv
<1>12. CASE ExamineEdge
  <2>1. /\ phase = "searching" /\ UNCHANGED <<request, phase, sources, start_vertex, paths>>
    BY <1>12 DEF ExamineEdge
  <2>2. Open' = Open
    BY <2>1 DEF Open
  <2>3. QED
    BY <1>6, <2>1, <2>2 DEF AnswerInv
<1>13. CASE EndSearch
  <2>1. /\ phase = "searching" /\ phase' = "sources" /\ sources' = sources /\ SearchIsOver
        /\ paths' = paths \cup {getPath(c[2]) : c \in {d \in request.combinations :
                                                   /\ d[1] = start_vertex
                                                   /\ has_vertex(d[2]) /\ from_edge[d[2]] # {}}}
    BY <1>13 DEF EndSearch, SearchIsOver
  <2>2. start_vertex \notin sources /\ Open = sources \cup {start_vertex} /\ Open' = sources
    BY <2>1 DEF AnswerInv, Open
  <2>3. \A p \in paths : IsShortestRoute(p) /\ p.start \notin Open
    BY <2>1 DEF AnswerInv
  <2>4. ASSUME NEW p \in paths' PROVE IsShortestRoute(p) /\ p.start \notin Open'
    <3>1. CASE p \in paths
      BY <2>2, <2>3, <3>1
    <3>2. CASE p \notin paths
      <4>1. PICK c \in request.combinations : from_edge[c[2]] # {} /\ p = getPath(c[2])
        BY <2>1, <3>2
      <4>2. IsShortestRoute(p) /\ p.start = start_vertex
        BY <1>3, <2>1, <4>1, PathIsShortest
      <4>3. QED
        BY <2>2, <4>2
    <3>3. QED
      BY <3>1, <3>2
  <2>5. ASSUME NEW c \in request.combinations, c[1] \notin Open'
        PROVE  IsAnswered(paths', graph, c)
    <3>1. /\ c[1] # start_vertex => Answers(paths', c) = Answers(paths, c)
          /\ c[1] = start_vertex => IsAnswered(paths', graph, c)
      BY <1>13, <2>2, <2>3, EndAnswers
    <3>2. c[1] # start_vertex => IsAnswered(paths, graph, c)
      BY <2>1, <2>2, <2>5 DEF AnswerInv
    <3>3. QED
      BY <3>1, <3>2 DEF IsAnswered
  <2>6. QED
    BY <1>4, <1>5, <2>1, <2>4, <2>5 DEF AnswerInv
<1>14. CASE Return
  BY <1>6, <1>14 DEF Return, Open, AnswerInv
<1>15. CASE UNCHANGED vars
  <2>1. UNCHANGED <<request, phase, sources, start_vertex, paths>>
    BY <1>15 DEF vars, searchVars
  <2>2. Open' = Open
    BY <2>1 DEF Open
  <2>3. QED
    BY <1>4, <1>5, <2>1, <2>2 DEF AnswerInv
<1>16. QED
  BY <1>7, <1>8, <1>9, <1>10, <1>11, <1>12, <1>13, <1>14, <1>15 DEF Next, Done

----------------------------------------------------------------------------
(***************************************************************************)
(* The theorems.                                                           *)
(***************************************************************************)
\* Marks, labels and the deque agree in every state of every call.
THEOREM LabelInvariant == Spec => []IInv
<1>1. Init => IInv
  <2> SUFFICES ASSUME Init PROVE IInv
    OBVIOUS
  <2>1. (CHOOSE v \in Vertex : TRUE) \in Vertex
    BY VertexAssumption
  <2>2. QED
    BY <2>1, InfAssumption DEF Init, IInv, TypeOK, Searching
<1>2. IInv /\ [Next]_vars => IInv'
  <2> SUFFICES ASSUME IInv, [Next]_vars PROVE IInv'
    OBVIOUS
  <2>1. ASSUME UNCHANGED <<request, searchVars>>, phase' # "searching",
               phase' \in {"sources", "refused", "answered"}
        PROVE  IInv'
    BY <2>1 DEF IInv, TypeOK, Searching, searchVars, graph
  <2>2. CASE Refuse
    BY <2>1, <2>2 DEF Refuse
  <2>3. CASE Accept
    BY <2>1, <2>3 DEF Accept
  <2>4. CASE SkipSource
    BY <2>1, <2>4 DEF SkipSource
  <2>5. CASE EndSearch
    BY <2>1, <2>5 DEF EndSearch
  <2>6. CASE Return
    BY <2>1, <2>6 DEF Return
  <2>7. CASE StartSearch
    BY <2>7, StartKeeps
  <2>8. CASE ExamineVertex
    BY <2>8, ExamineVertexKeeps
  <2>9. CASE ExamineEdge
    BY <2>9, ExamineEdgeKeeps
  <2>10. CASE UNCHANGED vars
    BY <2>10 DEF vars, searchVars, IInv, TypeOK, Searching, Marked, NotTooLow, Relaxed, Waits,
                 InDeque, graph
  <2>11. QED
    BY <2>2, <2>3, <2>4, <2>5, <2>6, <2>7, <2>8, <2>9, <2>10 DEF Next, Done
<1>3. QED
  BY <1>1, <1>2, PTL DEF Spec

\* When nothing waits any more all labels are distances, in whatever order vertices
\* were put into the deque (edwardMoore.hpp:99-107, binaryBreadthFirstSearch.hpp:117-123).
THEOREM LabelsAreExactTheorem == Spec => []LabelsAreExact
<1>1. IInv => LabelsAreExact
  <2> SUFFICES ASSUME IInv, SearchIsOver, NEW v \in Vertex
               PROVE  IsDistance(graph, start_vertex, v, current_cost[v])
    BY DEF LabelsAreExact
  <2>1. \A a \in graph : Relaxed(a)
    BY DEF IInv, Searching, SearchIsOver, Waits, InDeque
  <2>2. QED
    BY <2>1, RelaxedIsExact DEF IInv, TypeOK, Searching, SearchIsOver
<1>2. QED
  BY <1>1, LabelInvariant, PTL

\* binaryBreadthFirstSearch marks no vertex as done, and puts vertices in front and
\* behind, yet the vertex it takes out has its distance
\* (binaryBreadthFirstSearch.hpp:119-121, 193-205).
THEOREM FrontIsSettledTheorem == Spec => []FrontIsSettled
<1>1. Init => FrontInv
  BY DEF Init, FrontInv
<1>2. IInv /\ FrontInv => FrontIsSettled
  <2> SUFFICES ASSUME IInv, FrontInv, phase = "searching", request.algorithm = BinaryBFS,
                      pending = {}, dq # <<>>
               PROVE  current_cost[Head(dq)] = Distance(graph, start_vertex, Head(dq))
    BY DEF FrontIsSettled
  <2>1. PICK w, key, level : InOrder(dq, current_cost, graph, {}, w, key, level)
    BY DEF FrontInv, DequeInOrder
  <2>2. /\ graph \in SUBSET Arc /\ start_vertex \in Vertex /\ current_cost \in [Vertex -> 0..INF]
        /\ current_cost[start_vertex] = 0 /\ dq \in Seq(Vertex)
        /\ \A D : Potential(graph, start_vertex, D) => \A v \in Vertex : D[v] <= current_cost[v]
    BY GraphArcs DEF IInv, TypeOK, Searching, NotTooLow
  <2>3. QED
    BY <2>1, <2>2, FrontIsExact
<1>3. QED
  BY <1>1, <1>2, FrontKept, LabelInvariant, PTL DEF Spec

\* Every pair that has a route, and only such a pair, gets one path, which is a
\* shortest route without a gap, although no vertex is ever settled
\* (edwardMoore.hpp:87-125, binaryBreadthFirstSearch.hpp:99-135).
THEOREM AnswersAreShortestTheorem == Spec => []AnswersAreShortest
<1>1. Init => TreeInv /\ AnswerInv
  BY DEF Init, TreeInv, AnswerInv
<1>2. IInv /\ AnswerInv => AnswersAreShortest
  <2> SUFFICES ASSUME AnswerInv, phase = "answered"
               PROVE  /\ \A p \in paths : IsShortestRoute(p)
                      /\ \A c \in request.combinations :
                           Cardinality(Answers(paths, c)) =
                             IF c[1] # c[2] /\ Distance(graph, c[1], c[2]) < INF THEN 1 ELSE 0
    BY DEF AnswersAreShortest, Answers
  <2>1. Open = {}
    BY DEF AnswerInv, Open
  <2>2. \A c \in request.combinations : IsAnswered(paths, graph, c)
    BY <2>1 DEF AnswerInv
  <2>3. Cardinality({}) = 0 /\ \A p : Cardinality({p}) = 1
    BY FS_EmptySet, FS_Singleton
  <2>4. QED
    BY <2>2, <2>3 DEF AnswerInv, IsAnswered
<1>3. QED
  BY <1>1, <1>2, TreeKept, AnswersKept, LabelInvariant, PTL DEF Spec
=============================================================================
