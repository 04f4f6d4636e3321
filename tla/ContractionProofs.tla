------------------------- MODULE ContractionProofs -------------------------
(***************************************************************************)
(* Proofs about Contraction, for every graph, every list of methods and    *)
(* forbidden vertices and every number of cycles, and, in the second half, *)
(* about ContractionHierarchies, for every graph and every set of          *)
(* forbidden vertices.                                                     *)
(*                                                                         *)
(* The key of the argument about Contraction is that the worklist is EXACT *)
(* at the head of a loop: it is the set of all the vertices the method     *)
(* could contract, and not just a set of candidates.  For linear           *)
(* contraction this holds up to the vertices on the stack, which are about *)
(* to be looked at.  Distances are kept for another reason, shown at the   *)
(* end of the first half: prices of the vertices that are left extend to   *)
(* those that were contracted.                                             *)
(*                                                                         *)
(* That contraction hierarchies bring no two vertices nearer is shown with *)
(* prices, too: those that the roads respect, the shortcuts respect.  That *)
(* a vertex keeps its metric when it is simulated again is shown by        *)
(* running the same contraction twice side by side, with other numbers for *)
(* the shortcuts: both runs decide alike.                                  *)
(***************************************************************************)
EXTENDS Contraction, ContractionHierarchies, RoadGraphProofs

DeadEnds(E) == {v \in Vertex : IsDeadEndToContract(E, v)}

WorklistExact ==
  /\ phase = "deadEnd" =>
       worklist = DeadEnds(edges)
  /\ phase = "linear" =>
       \A v \in Vertex : v \notin Range(pending) =>
                           (v \in worklist <=> IsContractible(edges, v))

MarksShortcuts == \A e \in edges : e.id < 0 <=> e.contracted # {}

\* The method that is being carried out is the one in front of the deque.
DequeInv ==
  /\ phase = "called" => performed = <<>>
  /\ phase \in {"cycle", "deadEnd", "linear"} => contract_order # <<>>
  /\ phase = "deadEnd" => Head(contract_order) = DEADEND
  /\ phase = "linear" => Head(contract_order) = LINEAR

IInv == /\ TypeOK
        /\ DequeInv
        /\ IsFiniteSet(get_shortcuts)
        /\ WorklistExact
        /\ MarksShortcuts
        /\ ForbiddenStay
        /\ NothingLeft

----------------------------------------------------------------------------
(***************************************************************************)
(* The graph.                                                              *)
(***************************************************************************)
\* Every edge of the graph that is built is plain.
LEMMA EdgesOfRows ==
  ASSUME NEW rows \in SUBSET Row, NEW directed \in BOOLEAN
  PROVE  /\ EdgesOf(rows, directed) \subseteq Edge
         /\ \A e \in EdgesOf(rows, directed) : e.id >= 0 /\ e.contracted = {}
<1>1. ASSUME NEW e \in EdgesOf(rows, directed)
      PROVE  e \in Edge /\ e.id >= 0 /\ e.contracted = {}
  <2>1. \/ \E r \in rows : r.cost >= 0 /\ e = Plain(r.id, r.source, r.target, r.cost)
        \/ \E r \in rows : r.reverse_cost >= 0 /\ e = Plain(r.id, r.target, r.source, r.reverse_cost)
    BY <1>1 DEF EdgesOf
  <2>2. \A r \in rows : r.id \in Nat /\ r.source \in Vertex /\ r.target \in Vertex
                          /\ r.cost \in Int /\ r.reverse_cost \in Int
    BY DEF Row
  <2>3. ASSUME NEW i \in Nat, NEW u \in Vertex, NEW v \in Vertex, NEW c \in Nat
        PROVE  Plain(i, u, v, c) \in Edge /\ Plain(i, u, v, c).id >= 0
                 /\ Plain(i, u, v, c).contracted = {}
    BY DEF Plain, Edge
  <2>4. QED
    BY <2>1, <2>2, <2>3
<1>2. QED
  BY <1>1

\* A vertex has only vertices for neighbours, and finitely many of them.
LEMMA AdjacentVertices ==
  ASSUME NEW E \in SUBSET Edge, NEW v \in Vertex
  PROVE  Adjacent(E, v) \subseteq Vertex /\ IsFiniteSet(Adjacent(E, v))
<1>1. Adjacent(E, v) \subseteq Vertex
  BY DEF Adjacent, Edge
<1>2. QED
  BY <1>1, VertexAssumption, FS_Subset

\* What a vertex is to the two methods depends on the edges at it alone.
LEMMA LocalJudgement ==
  ASSUME NEW E \in SUBSET Edge, NEW F \in SUBSET Edge, NEW v \in Vertex,
         NEW directed \in BOOLEAN, Incident(E, v) = Incident(F, v)
  PROVE  /\ IsDeadEnd(E, directed, v) <=> IsDeadEnd(F, directed, v)
         /\ IsLinear(E, directed, v) <=> IsLinear(F, directed, v)
<1>1. \A e : (e \in E /\ (e.from = v \/ e.to = v)) <=> (e \in F /\ (e.from = v \/ e.to = v))
  BY DEF Incident
<1>2. {e \in E : e.to = v} = {e \in F : e.to = v} /\ {e \in E : e.from = v} = {e \in F : e.from = v}
  BY <1>1
<1>3. Adjacent(E, v) = Adjacent(F, v)
  BY <1>2 DEF Adjacent
<1>4. ASSUME NEW u
      PROVE  /\ EdgesBetween(E, directed, u, v) = EdgesBetween(F, directed, u, v)
             /\ EdgesBetween(E, directed, v, u) = EdgesBetween(F, directed, v, u)
  BY <1>1 DEF EdgesBetween
<1>5. IsDeadEnd(E, directed, v) <=> IsDeadEnd(F, directed, v)
  BY <1>2, <1>3 DEF IsDeadEnd
<1>6. ASSUME NEW u, NEW w
      PROVE  IsShortcutPossible(E, directed, u, v, w) <=> IsShortcutPossible(F, directed, u, v, w)
  BY <1>4 DEF IsShortcutPossible, HasUVW
<1>7. IsLinear(E, directed, v) <=> IsLinear(F, directed, v)
  BY <1>3, <1>6 DEF IsLinear
<1>8. QED
  BY <1>5, <1>7

\* A vertex without edges is nothing to either method.
LEMMA IsolatedVertex ==
  ASSUME NEW E \in SUBSET Edge, NEW v \in Vertex, NEW directed \in BOOLEAN,
         Incident(E, v) = {}
  PROVE  ~ IsDeadEnd(E, directed, v) /\ ~ IsLinear(E, directed, v)
<1>1. {e \in E : e.to = v} = {} /\ {e \in E : e.from = v} = {}
  BY DEF Incident
<1>2. Adjacent(E, v) = {}
  BY <1>1 DEF Adjacent
<1>3. Cardinality(Adjacent(E, v)) = 0
  BY <1>2, FS_EmptySet
<1>4. QED
  BY <1>1, <1>3 DEF IsDeadEnd, IsLinear

\* The two neighbours of a linear vertex.
LEMMA NeighboursOfLinear ==
  ASSUME NEW E \in SUBSET Edge, NEW v \in Vertex, NEW directed \in BOOLEAN,
         IsLinear(E, directed, v),
         NEW u, NEW w, u = Min(Adjacent(E, v)), w = Max(Adjacent(E, v))
  PROVE  /\ Adjacent(E, v) = {u, w}
         /\ u \in Vertex /\ w \in Vertex
         /\ u # v /\ w # v /\ u # w
         /\ HasUVW(E, directed, u, v, w) \/ (directed /\ HasUVW(E, directed, w, v, u))
<1>1. Adjacent(E, v) \subseteq Nat /\ IsFiniteSet(Adjacent(E, v)) /\ Adjacent(E, v) \subseteq Vertex
  BY AdjacentVertices, VertexAssumption
<1>2. Adjacent(E, v) = {u, w}
  BY <1>1, PairOfNaturals DEF IsLinear
<1>3. IsShortcutPossible(E, directed, u, v, w)
  BY DEF IsLinear
<1>4. QED
  BY <1>1, <1>2, <1>3 DEF IsShortcutPossible

\* A shortcut is an edge between the neighbours that holds the vertex.
LEMMA ShortcutOfPath ==
  ASSUME NEW E \in SUBSET Edge, NEW directed \in BOOLEAN, NEW h \in [Vertex -> SUBSET Vertex],
         NEW id \in Int, NEW u \in Vertex, NEW v \in Vertex, NEW w \in Vertex,
         HasUVW(E, directed, u, v, w)
  PROVE  /\ Shortcut(E, directed, h, id, u, v, w) \in Edge
         /\ Shortcut(E, directed, h, id, u, v, w).id = id
         /\ Shortcut(E, directed, h, id, u, v, w).from = u
         /\ Shortcut(E, directed, h, id, u, v, w).to = w
         /\ Shortcut(E, directed, h, id, u, v, w).contracted =
              {v} \cup h[v] \cup Along(E, directed, u, v) \cup Along(E, directed, v, w)
<1>1. ASSUME NEW x \in Vertex, NEW y \in Vertex, EdgesBetween(E, directed, x, y) # {}
      PROVE  MinCost(E, directed, x, y) \in Nat /\ Along(E, directed, x, y) \subseteq Vertex
  <2> DEFINE B == EdgesBetween(E, directed, x, y)
             S == {e.cost : e \in B}
  <2>1. B \subseteq Edge
    BY DEF EdgesBetween
  <2>2. S \subseteq Nat /\ S # {}
    BY <1>1, <2>1 DEF Edge
  <2>3. Min(S) \in Nat
    BY <2>2, MinOfNaturals
  <2>4. \A e \in B : e.contracted \subseteq Vertex
    BY <2>1 DEF Edge
  <2>5. QED
    BY <2>3, <2>4 DEF MinCost, Along
<1>2. /\ MinCost(E, directed, u, v) \in Nat /\ Along(E, directed, u, v) \subseteq Vertex
      /\ MinCost(E, directed, v, w) \in Nat /\ Along(E, directed, v, w) \subseteq Vertex
  BY <1>1 DEF HasUVW
<1>3. QED
  BY <1>2 DEF Shortcut, Edge

Replaces(e, u, v, w) ==
  /\ e \in Edge /\ e.id < 0 /\ v \in e.contracted
  /\ (e.from = u /\ e.to = w) \/ (e.from = w /\ e.to = u)

\* What the shortcuts around a linear vertex are: one or two, with negative
\* identifiers, between its neighbours, and each holds the vertex.
LEMMA ShortcutsOfLinear ==
  ASSUME NEW E \in SUBSET Edge, NEW directed \in BOOLEAN, NEW h \in [Vertex -> SUBSET Vertex],
         NEW n \in Nat, NEW u \in Vertex, NEW v \in Vertex, NEW w \in Vertex
  PROVE  LET new == ShortcutsAround(E, directed, h, n, u, v, w)
         IN  /\ IsFiniteSet(new) /\ Cardinality(new) \in Nat
             /\ \A e \in new : Replaces(e, u, v, w)
<1> DEFINE there == IF HasUVW(E, directed, u, v, w)
                    THEN {Shortcut(E, directed, h, -(n + 1), u, v, w)} ELSE {}
           next  == n + Cardinality(there) + 1
           back  == IF directed /\ HasUVW(E, directed, w, v, u)
                    THEN {Shortcut(E, directed, h, -next, w, v, u)} ELSE {}
<1>0. there = {} \/ there = {Shortcut(E, directed, h, -(n + 1), u, v, w)}
  OBVIOUS
<1>1. IsFiniteSet(there) /\ Cardinality(there) \in Nat
  <2> HIDE DEF there
  <2>1. IsFiniteSet({}) /\ Cardinality({}) \in Nat
    BY FS_EmptySet
  <2>2. ASSUME NEW x PROVE IsFiniteSet({x}) /\ Cardinality({x}) \in Nat
    <3>1. IsFiniteSet({x}) /\ Cardinality({x}) = 1
      BY FS_Singleton
    <3>2. QED
      BY <3>1
  <2>3. CASE there = {}
    BY <2>1, <2>3
  <2>4. ASSUME NEW x, there = {x} PROVE IsFiniteSet(there) /\ Cardinality(there) \in Nat
    BY <2>2, <2>4
  <2>5. QED
    BY <1>0, <2>3, <2>4
<1>2. IsFiniteSet(back)
  <2>1. CASE directed /\ HasUVW(E, directed, w, v, u)
    BY <2>1, FS_Singleton
  <2>2. CASE ~ (directed /\ HasUVW(E, directed, w, v, u))
    BY <2>2, FS_EmptySet
  <2>3. QED
    BY <2>1, <2>2
<1>3. next \in Int /\ -next < 0 /\ -next \in Int /\ -(n + 1) \in Int /\ -(n + 1) < 0
  BY <1>1
<1>4. ASSUME NEW e \in there PROVE Replaces(e, u, v, w)
  <2> DEFINE s == Shortcut(E, directed, h, -(n + 1), u, v, w)
  <2>1. HasUVW(E, directed, u, v, w) /\ e = s
    BY <1>4
  <2>2. s \in Edge /\ s.id = -(n + 1) /\ s.from = u /\ s.to = w /\ v \in s.contracted
    BY <2>1, <1>3, ShortcutOfPath
  <2> HIDE DEF s, there
  <2>3. QED
    BY <2>1, <2>2, <1>3 DEF Replaces
<1>5. ASSUME NEW e \in back PROVE Replaces(e, u, v, w)
  <2> HIDE DEF next
  <2> DEFINE s == Shortcut(E, directed, h, -next, w, v, u)
  <2>1. HasUVW(E, directed, w, v, u) /\ e = s
    BY <1>5
  <2>2. s \in Edge /\ s.id = -next /\ s.from = w /\ s.to = u /\ v \in s.contracted
    <3> DEFINE k == -next
    <3>1. k \in Int /\ s = Shortcut(E, directed, h, k, w, v, u) /\ HasUVW(E, directed, w, v, u)
      BY <2>1, <1>3
    <3> HIDE DEF k, next
    <3>2. s \in Edge /\ s.id = k /\ s.from = w /\ s.to = u /\ v \in s.contracted
      BY <3>1, ShortcutOfPath
    <3>3. QED
      BY <3>2 DEF k
  <2> HIDE DEF s, back
  <2>3. QED
    BY <2>1, <2>2, <1>3 DEF Replaces
<1>6. ShortcutsAround(E, directed, h, n, u, v, w) = there \cup back
  BY DEF ShortcutsAround
<1>7. IsFiniteSet(there \cup back) /\ Cardinality(there \cup back) \in Nat
  <2> HIDE DEF there, back
  <2>1. QED
    BY <1>1, <1>2, FS_Union, FS_CardinalityType
<1>8. \A e \in there \cup back : Replaces(e, u, v, w)
  <2> HIDE DEF there, back
  <2>1. QED
    BY <1>4, <1>5
<1>9. QED
  <2> HIDE DEF there, back
  <2>1. QED
    BY <1>6, <1>7, <1>8

----------------------------------------------------------------------------
(***************************************************************************)
(* The stack.                                                              *)
(***************************************************************************)
\* Pushing the two neighbours.
LEMMA RangeOfPush ==
  ASSUME NEW stack \in Seq(Vertex), NEW u \in Vertex, NEW w \in Vertex
  PROVE  /\ <<u, w>> \o stack \in Seq(Vertex)
         /\ u \in Range(<<u, w>> \o stack) /\ w \in Range(<<u, w>> \o stack)
         /\ Range(stack) \subseteq Range(<<u, w>> \o stack)
<1> DEFINE s == <<u, w>> \o stack
<1>1. s \in Seq(Vertex) /\ Len(s) = Len(stack) + 2 /\ DOMAIN s = 1..Len(stack) + 2
  OBVIOUS
<1>2. s[1] = u /\ s[2] = w
  OBVIOUS
<1>3. \A i \in 1..Len(stack) : s[i + 2] = stack[i]
  OBVIOUS
<1>4. u \in Range(s) /\ w \in Range(s)
  <2>1. 1 \in DOMAIN s /\ 2 \in DOMAIN s
    BY <1>1
  <2>2. QED
    BY <2>1, <1>2 DEF Range
<1>5. ASSUME NEW x \in Range(stack) PROVE x \in Range(s)
  <2>1. PICK i \in 1..Len(stack) : stack[i] = x
    BY <1>5 DEF Range
  <2>2. i + 2 \in DOMAIN s /\ s[i + 2] = x
    BY <2>1, <1>1, <1>3
  <2>3. QED
    BY <2>2 DEF Range
<1>6. QED
  BY <1>1, <1>4, <1>5

\* Popping one.
LEMMA RangeOfPop ==
  ASSUME NEW stack \in Seq(Vertex), stack # <<>>
  PROVE  /\ Head(stack) \in Vertex /\ Tail(stack) \in Seq(Vertex)
         /\ Range(stack) \subseteq {Head(stack)} \cup Range(Tail(stack))
<1>1. Head(stack) \in Vertex /\ Tail(stack) \in Seq(Vertex) /\ Len(stack) > 0
  OBVIOUS
<1>2. ASSUME NEW x \in Range(stack), x # Head(stack) PROVE x \in Range(Tail(stack))
  <2>1. PICK i \in 1..Len(stack) : stack[i] = x
    BY <1>2 DEF Range
  <2>2. i # 1
    BY <2>1, <1>2
  <2>3. i - 1 \in DOMAIN Tail(stack) /\ Tail(stack)[i - 1] = x
    BY <2>1, <2>2
  <2>4. QED
    BY <2>3 DEF Range
<1>3. QED
  BY <1>1, <1>2

----------------------------------------------------------------------------
(***************************************************************************)
(* Dead end contraction.                                                   *)
(***************************************************************************)
\* Clearing v changes the edges of v and of its neighbours only.
LEMMA ClearingIsLocal ==
  ASSUME NEW E \in SUBSET Edge, NEW v \in Vertex, NEW x \in Vertex,
         x # v, x \notin Adjacent(E, v)
  PROVE  Incident(E \ Incident(E, v), x) = Incident(E, x)
<1>1. ASSUME NEW e \in Incident(E, x) PROVE e \notin Incident(E, v)
  <2>1. e \in E /\ (e.from = x \/ e.to = x)
    BY <1>1 DEF Incident
  <2>2. CASE e.from = v
    BY <2>1, <2>2 DEF Adjacent
  <2>3. CASE e.to = v
    BY <2>1, <2>3 DEF Adjacent
  <2>4. QED
    BY <2>2, <2>3 DEF Incident
<1>2. QED
  BY <1>1 DEF Incident

\* After its edges are gone, a vertex has none.
LEMMA ClearedIsIsolated ==
  ASSUME NEW E \in SUBSET Edge, NEW v \in Vertex
  PROVE  Incident(E \ Incident(E, v), v) = {}
BY DEF Incident

\* The worklist stays exact.
LEMMA RefreshedIsExact ==
  ASSUME NEW E \in SUBSET Edge, NEW v \in Vertex, is_directed \in BOOLEAN,
         NEW W, W = DeadEnds(E),
         NEW F, F = E \ Incident(E, v)
  PROVE  Refreshed(F, Adjacent(E, v), W \ {v}) = DeadEnds(F)
<1> DEFINE U == Adjacent(E, v)
           R == Refreshed(F, U, W \ {v})
<1>1. F \in SUBSET Edge /\ U \subseteq Vertex
  BY AdjacentVertices
<1>2. ~ IsDeadEndToContract(F, v)
  BY <1>1, ClearedIsIsolated, IsolatedVertex DEF IsDeadEndToContract
<1>3. ASSUME NEW x \in Vertex, x # v, x \notin U
      PROVE  IsDeadEndToContract(E, x) <=> IsDeadEndToContract(F, x)
  <2>1. Incident(F, x) = Incident(E, x)
    BY <1>3, ClearingIsLocal
  <2>2. QED
    BY <2>1, <1>1, LocalJudgement DEF IsDeadEndToContract
<1>4. ASSUME NEW x \in Vertex PROVE x \in R <=> IsDeadEndToContract(F, x)
  <2> HIDE DEF U
  <2>1. R = ((W \ {v}) \ U) \cup {u \in U : IsDeadEndToContract(F, u)}
    BY DEF Refreshed
  <2>2. CASE x \in U
    BY <2>1, <2>2
  <2>3. CASE x \notin U /\ x = v
    BY <2>1, <2>3, <1>2
  <2>4. CASE x \notin U /\ x # v
    BY <2>1, <2>4, <1>3 DEF DeadEnds
  <2>5. QED
    BY <2>2, <2>3, <2>4
<1>5. R \subseteq Vertex
  BY <1>1 DEF Refreshed, DeadEnds
<1>6. QED
  BY <1>4, <1>5 DEF DeadEnds

\* What the types of a state say of the operators above.
LEMMA StateTypes ==
  ASSUME TypeOK
  PROVE  /\ is_directed \in BOOLEAN /\ request.forbidden \subseteq Vertex
         /\ edges \in SUBSET Edge /\ request \in RequestType
         /\ \A x, y : Along(edges, is_directed, x, y) \subseteq Vertex
<1>1. request \in RequestType
  BY RequestsAssumption DEF TypeOK
<1>2. is_directed \in BOOLEAN /\ request.forbidden \subseteq Vertex
  BY <1>1 DEF RequestType, is_directed
<1>3. edges \in SUBSET Edge
  BY DEF TypeOK
<1>4. ASSUME NEW x, NEW y PROVE Along(edges, is_directed, x, y) \subseteq Vertex
  <2>1. \A e \in EdgesBetween(edges, is_directed, x, y) : e.contracted \subseteq Vertex
    BY <1>3 DEF EdgesBetween, Edge
  <2>2. QED
    BY <2>1 DEF Along
<1>5. QED
  BY <1>1, <1>2, <1>3, <1>4

\* One iteration of the dead end loop.
LEMMA ContractDeadEndKeeps ==
  ASSUME IInv, ContractDeadEnd
  PROVE  IInv'
<1> DEFINE v == Min(worklist)
           U == Adjacent(edges, v)
<1>0. UNCHANGED <<request, phase, created, contract_order, front, cycle, performed, pending, answer>>
  BY DEF ContractDeadEnd, loopVars
<1>1. phase = "deadEnd" /\ worklist # {} /\ IsDeadEnd(edges, is_directed, v)
      /\ held' = MergeInto(v, U) /\ edges' = edges \ Incident(edges, v)
      /\ removed' = removed \cup {v}
      /\ worklist' = Refreshed(edges', U, worklist \ {v})
  BY DEF ContractDeadEnd
<1>2. TypeOK /\ DequeInv /\ IsFiniteSet(get_shortcuts) /\ WorklistExact /\ MarksShortcuts /\ ForbiddenStay
  BY DEF IInv
<1>3. /\ is_directed \in BOOLEAN /\ edges \in SUBSET Edge
      /\ \A x, y : Along(edges, is_directed, x, y) \subseteq Vertex
  BY <1>2, StateTypes
<1>4. worklist = DeadEnds(edges)
  BY <1>1, <1>2 DEF WorklistExact
<1>5. v \in worklist /\ v \in Vertex /\ v \notin request.forbidden
  <2>1. worklist \subseteq Nat
    BY <1>4, VertexAssumption DEF DeadEnds
  <2>2. v \in worklist
    BY <2>1, <1>1, MinOfNaturals
  <2>3. QED
    BY <2>2, <1>4 DEF DeadEnds, IsDeadEndToContract
<1>6. is_directed' = is_directed
  BY <1>0 DEF is_directed
<1>7. WorklistExact'
  <2> HIDE DEF v, U
  <2>1. worklist' = DeadEnds(edges')
    BY <1>1, <1>3, <1>4, <1>5, RefreshedIsExact DEF U
  <2>2. DeadEnds(edges') = DeadEnds(edges)'
    BY <1>0, <1>6 DEF DeadEnds, IsDeadEndToContract
  <2>3. QED
    BY <2>1, <2>2, <1>0, <1>1 DEF WorklistExact
<1>8. TypeOK'
  <2> HIDE DEF v, U
  <2>1. held' \in [Vertex -> SUBSET Vertex]
    BY <1>1, <1>2, <1>3, <1>5 DEF MergeInto, TypeOK
  <2>2. worklist' \subseteq Vertex
    BY <1>7, <1>0, <1>1 DEF WorklistExact, DeadEnds
  <2>3. edges' \subseteq Edge /\ removed' \subseteq Vertex
    BY <1>1, <1>2, <1>5 DEF TypeOK
  <2>4. QED
    BY <2>1, <2>2, <2>3, <1>0, <1>2 DEF TypeOK
<1>9. IsFiniteSet(get_shortcuts)'
  <2> HIDE DEF v, U
  <2>1. get_shortcuts' \subseteq get_shortcuts
    BY <1>1 DEF get_shortcuts
  <2>2. QED
    BY <2>1, <1>2, FS_Subset
<1>10. MarksShortcuts' /\ ForbiddenStay' /\ DequeInv' /\ NothingLeft'
  <2> HIDE DEF v, U
  <2>1. MarksShortcuts'
    BY <1>1, <1>2 DEF MarksShortcuts
  <2>2. ForbiddenStay'
    BY <1>0, <1>1, <1>2, <1>5 DEF ForbiddenStay
  <2>3. DequeInv'
    BY <1>0, <1>2 DEF DequeInv
  <2>4. NothingLeft'
    BY <1>0, <1>1 DEF NothingLeft
  <2>5. QED
    BY <2>1, <2>2, <2>3, <2>4
<1>11. QED
  BY <1>7, <1>8, <1>9, <1>10 DEF IInv

----------------------------------------------------------------------------
(***************************************************************************)
(* Linear contraction.                                                     *)
(***************************************************************************)
\* The edges of "new" join neighbours of v.
JoinsNeighbours(new, E, v) == \A e \in new : e.from \in Adjacent(E, v) /\ e.to \in Adjacent(E, v)

\* Replacing v by shortcuts between its neighbours is as local as clearing it.
LEMMA ReplacingIsLocal ==
  ASSUME NEW E \in SUBSET Edge, NEW new \in SUBSET Edge, NEW v \in Vertex, NEW x \in Vertex,
         x # v, x \notin Adjacent(E, v), JoinsNeighbours(new, E, v)
  PROVE  Incident((E \ Incident(E, v)) \cup new, x) = Incident(E, x)
<1>1. Incident(E \ Incident(E, v), x) = Incident(E, x)
  BY ClearingIsLocal
<1>2. Incident(new, x) = {}
  BY DEF Incident, JoinsNeighbours
<1>3. QED
  BY <1>1, <1>2 DEF Incident

\* One call of one_cycle, from the loop or from the recursion: "exact" says that
\* the worklist is right about every vertex but v and those left on the stack.
LEMMA OneCycleKeeps ==
  ASSUME IInv, phase = "linear", NEW v \in Vertex, NEW stack \in Seq(Vertex),
         \A x \in Vertex : x # v /\ x \notin Range(stack) =>
                             (x \in worklist <=> IsContractible(edges, x)),
         OneCycle(v, stack), UNCHANGED <<request, phase, loopVars, answer>>
  PROVE  IInv'
<1> DEFINE u   == Min(Adjacent(edges, v))
           w   == Max(Adjacent(edges, v))
           new == ShortcutsAround(edges, is_directed, held, created, u, v, w)
<1>0. UNCHANGED <<request, phase, contract_order, front, cycle, performed, answer>>
  BY DEF loopVars
<1>1. /\ IsContractible(edges, v)
      /\ edges' = (edges \ Incident(edges, v)) \cup new
      /\ created' = created + Cardinality(new)
      /\ held' = [held EXCEPT ![v] = {}]
      /\ removed' = removed \cup {v}
      /\ worklist' = worklist \ {v}
      /\ pending' = <<u, w>> \o stack
  BY DEF OneCycle
<1>2. TypeOK /\ DequeInv /\ IsFiniteSet(get_shortcuts) /\ MarksShortcuts /\ ForbiddenStay
  BY DEF IInv
<1>3. is_directed \in BOOLEAN /\ edges \in SUBSET Edge
  BY <1>2, StateTypes
<1>4. IsLinear(edges, is_directed, v) /\ v \notin request.forbidden
  BY <1>1 DEF IsContractible
<1>5. /\ Adjacent(edges, v) = {u, w}
      /\ u \in Vertex /\ w \in Vertex
      /\ u # v /\ w # v
  BY <1>3, <1>4, NeighboursOfLinear
<1>6. /\ IsFiniteSet(new) /\ Cardinality(new) \in Nat
      /\ \A e \in new : Replaces(e, u, v, w)
  <2>1. held \in [Vertex -> SUBSET Vertex] /\ created \in Nat
    BY <1>2 DEF TypeOK
  <2> HIDE DEF u, w
  <2>2. QED
    BY <2>1, <1>3, <1>5, ShortcutsOfLinear
<1> HIDE DEF u, w, new
<1>6a. /\ new \in SUBSET Edge
       /\ \A e \in new : /\ e.id < 0 /\ e.contracted # {}
                        /\ e.from \in {u, w} /\ e.to \in {u, w}
  BY <1>6 DEF Replaces
<1>7. is_directed' = is_directed
  BY <1>0 DEF is_directed
<1>8. TypeOK'
  <2>1. edges' \subseteq Edge
    BY <1>1, <1>3, <1>6a
  <2>2. created' \in Nat
    BY <1>1, <1>2, <1>6 DEF TypeOK
  <2>3. held' \in [Vertex -> SUBSET Vertex]
    BY <1>1, <1>2 DEF TypeOK
  <2>4. pending' \in Seq(Vertex)
    BY <1>1, <1>5, RangeOfPush
  <2>5. removed' \subseteq Vertex /\ worklist' \subseteq Vertex
    BY <1>1, <1>2 DEF TypeOK
  <2>6. QED
    BY <2>1, <2>2, <2>3, <2>4, <2>5, <1>0, <1>2 DEF TypeOK
<1>9. WorklistExact'
  <2>1. phase' = "linear"
    BY <1>0
  <2>2. u \in Range(pending') /\ w \in Range(pending') /\ Range(stack) \subseteq Range(pending')
    BY <1>1, <1>5, RangeOfPush
  <2>3. ASSUME NEW x \in Vertex, x \notin Range(pending')
        PROVE  x \in worklist' <=> IsContractible(edges', x)
    <3>1. x # u /\ x # w /\ x \notin Range(stack)
      BY <2>2, <2>3
    <3>2. CASE x = v
      <4>1. Incident(edges', v) = {}
        BY <1>1, <1>5, <1>6a DEF Incident
      <4>2. ~ IsLinear(edges', is_directed, v)
        BY <4>1, <1>1, <1>3, <1>6a, IsolatedVertex
      <4>3. QED
        BY <4>2, <3>2, <1>1 DEF IsContractible
    <3>3. CASE x # v
      <4>0. x \notin Adjacent(edges, v) /\ edges' \in SUBSET Edge
        BY <3>1, <1>1, <1>3, <1>5, <1>6a
      <4>1. Incident((edges \ Incident(edges, v)) \cup new, x) = Incident(edges, x)
        <5>1. JoinsNeighbours(new, edges, v)
          BY <1>5, <1>6a DEF JoinsNeighbours
        <5>2. new \in SUBSET Edge /\ edges \in SUBSET Edge
          BY <1>3, <1>6a
        <5>3. QED
          BY ONLY <4>0, <5>1, <5>2, <3>3, v \in Vertex, x \in Vertex, ReplacingIsLocal
      <4>2. IsLinear(edges', is_directed, x) <=> IsLinear(edges, is_directed, x)
        <5>1. Incident(edges', x) = Incident(edges, x)
          BY <4>1, <1>1
        <5> DEFINE F == edges'
        <5>2. F \in SUBSET Edge /\ Incident(F, x) = Incident(edges, x)
          BY <4>0, <5>1
        <5> HIDE DEF F
        <5>3. IsLinear(F, is_directed, x) <=> IsLinear(edges, is_directed, x)
          BY <5>2, <1>3, LocalJudgement, ZenonT(40)
        <5>4. QED
          BY <5>3 DEF F
      <4>3. x \in worklist <=> IsContractible(edges, x)
        BY <3>1, <3>3
      <4>4. QED
        BY <4>2, <4>3, <3>3, <1>1 DEF IsContractible
    <3>4. QED
      BY <3>2, <3>3
  <2>4. QED
    BY <2>1, <2>3, <1>0, <1>7 DEF WorklistExact, IsContractible
<1>10. IsFiniteSet(get_shortcuts)'
  <2>1. get_shortcuts' \subseteq get_shortcuts \cup new
    BY <1>1 DEF get_shortcuts
  <2>2. IsFiniteSet(get_shortcuts \cup new)
    BY <1>2, <1>6, FS_Union
  <2>3. QED
    BY <2>1, <2>2, FS_Subset
<1>11. MarksShortcuts'
  BY <1>1, <1>2, <1>6a DEF MarksShortcuts
<1>12. ForbiddenStay'
  BY <1>0, <1>1, <1>2, <1>4 DEF ForbiddenStay
<1>13. DequeInv' /\ NothingLeft'
  BY <1>0, <1>2 DEF DequeInv, NothingLeft
<1>14. QED
  BY <1>8, <1>9, <1>10, <1>11, <1>12, <1>13 DEF IInv

----------------------------------------------------------------------------
(***************************************************************************)
(* The invariant.                                                          *)
(***************************************************************************)
LEMMA InitIInv == Init => IInv
<1> SUFFICES ASSUME Init PROVE IInv
  OBVIOUS
<1> USE DEF Init
<1>1. TypeOK
  BY DEF TypeOK, NoRows
<1>2. DequeInv /\ WorklistExact /\ MarksShortcuts /\ ForbiddenStay /\ NothingLeft
  BY DEF DequeInv, WorklistExact, MarksShortcuts, ForbiddenStay, NothingLeft
<1>3. IsFiniteSet(get_shortcuts)
  <2>1. get_shortcuts = {}
    BY DEF get_shortcuts
  <2>2. QED
    BY <2>1, FS_EmptySet
<1>4. QED
  BY <1>1, <1>2, <1>3 DEF IInv

\* The graph is built.
LEMMA CallKeeps ==
  ASSUME IInv, pgr_contraction
  PROVE  IInv'
<1> USE DEF pgr_contraction
<1>1. TypeOK /\ DequeInv /\ IsFiniteSet(get_shortcuts) /\ ForbiddenStay
  BY DEF IInv
<1>2. is_directed \in BOOLEAN /\ request.rows \in SUBSET Row /\ request.methods \in Seq(Int)
  BY <1>1, StateTypes DEF RequestType
<1>3. edges' \subseteq Edge /\ \A e \in edges' : e.id >= 0 /\ e.contracted = {}
  BY <1>2, EdgesOfRows
<1>4. contract_order' \in Seq(Int) /\ contract_order' # <<>>
  BY <1>2 DEF Start
<1>5. TypeOK'
  BY <1>1, <1>3, <1>4 DEF TypeOK
<1>6. get_shortcuts' = {}
  <2>1. \A e \in edges' : ~ (e.id < 0)
    <3>1. \A e \in edges' : e.id \in Int /\ e.id >= 0
      BY <1>3 DEF Edge
    <3>2. QED
      BY <3>1
  <2>2. QED
    BY <2>1 DEF get_shortcuts
<1>7. IsFiniteSet(get_shortcuts)'
  BY <1>6, FS_EmptySet
<1>8. MarksShortcuts'
  BY <1>3, <1>6 DEF MarksShortcuts, get_shortcuts
<1>9. DequeInv' /\ WorklistExact' /\ ForbiddenStay' /\ NothingLeft'
  <2>1. phase' = "cycle" /\ performed' = <<>>
    BY <1>1 DEF DequeInv
  <2>2. removed' = removed /\ request' = request
    OBVIOUS
  <2>3. DequeInv'
    BY <2>1, <1>4 DEF DequeInv
  <2>4. WorklistExact' /\ NothingLeft'
    BY <2>1 DEF WorklistExact, NothingLeft
  <2>5. ForbiddenStay'
    BY <2>2, <1>1 DEF ForbiddenStay
  <2>6. QED
    BY <2>3, <2>4, <2>5
<1>10. QED
  BY <1>5, <1>7, <1>8, <1>9 DEF IInv

\* The steps between two methods.
LEMMA TurningKeeps ==
  ASSUME IInv, NextCycle \/ EndMethod
  PROVE  IInv'
<1>1. TypeOK /\ DequeInv /\ IsFiniteSet(get_shortcuts) /\ WorklistExact /\ MarksShortcuts
      /\ ForbiddenStay /\ NothingLeft
  BY DEF IInv
<1>2. contract_order # <<>> /\ contract_order \in Seq(Int)
  BY <1>1 DEF NextCycle, EndMethod, DequeInv, TypeOK
<1>3. \A x \in Int : Append(Tail(contract_order), x) \in Seq(Int)
                     /\ Append(Tail(contract_order), x) # <<>>
  <2>1. Tail(contract_order) \in Seq(Int)
    BY <1>2
  <2>2. ASSUME NEW t \in Seq(Int), NEW x \in Int
        PROVE  Append(t, x) \in Seq(Int) /\ Append(t, x) # <<>>
    <3> DEFINE s == Append(t, x)
    <3>1. s \in Seq(Int) /\ Len(s) = Len(t) + 1 /\ Len(t) \in Nat
      OBVIOUS
    <3>2. s # <<>>
      <4> HIDE DEF s
      <4>1. Len(s) # 0
        BY <3>1
      <4>2. QED
        BY <4>1
    <3>3. QED
      BY <3>1, <3>2
  <2>3. QED
    BY <2>1, <2>2
<1>4. UNCHANGED <<request, edges, held, created, removed, worklist, pending, answer>>
  BY DEF NextCycle, EndMethod, graphVars
<1>5. phase' = "cycle"
  BY DEF NextCycle, EndMethod
<1>6. contract_order' \in Seq(Int) /\ contract_order' # <<>>
  <2>1. Head(contract_order) \in Int /\ front \in Int
    BY <1>1, <1>2 DEF TypeOK, Start
  <2>2. \/ contract_order' = Append(Tail(contract_order), Head(contract_order))
        \/ contract_order' = Append(Tail(contract_order), front)
    BY DEF NextCycle, EndMethod, Turn
  <2>3. QED
    BY <2>1, <2>2, <1>3
<1>7. CASE NextCycle
  <2>1. front' = Start /\ cycle' \in Nat /\ performed' = performed /\ phase = "cycle"
    BY <1>1, <1>7 DEF NextCycle, TypeOK
  <2>2. TypeOK'
    BY <2>1, <1>1, <1>4, <1>5, <1>6 DEF TypeOK
  <2>3. DequeInv' /\ NothingLeft'
    BY <2>1, <1>1, <1>4, <1>5, <1>6
    DEF DequeInv, NothingLeft, IsDeadEndToContract, IsContractible, is_directed
  <2>4. QED
    BY <2>2, <2>3, <1>1, <1>4, <1>5
    DEF IInv, get_shortcuts, WorklistExact, MarksShortcuts, ForbiddenStay
<1>8. CASE EndMethod
  <2>1. phase \in {"deadEnd", "linear"} /\ worklist = {} /\ pending = <<>>
        /\ performed' = Append(performed, Head(contract_order))
        /\ UNCHANGED <<front, cycle>>
    BY <1>8 DEF EndMethod
  <2>2. performed' \in Seq(Int) /\ Last(performed') = Head(contract_order)
    <3>1. performed \in Seq(Int) /\ Head(contract_order) \in Int
      BY <1>1, <1>2 DEF TypeOK
    <3>2. QED
      BY <3>1, <2>1 DEF Last
  <2>3. TypeOK'
    BY <2>1, <2>2, <1>1, <1>4, <1>5, <1>6 DEF TypeOK
  <2>4. DequeInv'
    BY <1>5, <1>6 DEF DequeInv
  <2>5. NothingLeft'
    <3>1. CASE phase = "deadEnd"
      <4>1. \A v \in Vertex : ~ IsDeadEndToContract(edges, v)
        BY <3>1, <2>1, <1>1 DEF WorklistExact, DeadEnds
      <4>2. Last(performed') = DEADEND
        BY <3>1, <2>2, <1>1 DEF DequeInv
      <4>3. QED
        BY <4>1, <4>2, <1>4 DEF NothingLeft, IsDeadEndToContract, is_directed
    <3>2. CASE phase = "linear"
      <4>1. Range(pending) = {}
        BY <2>1 DEF Range
      <4>2. \A v \in Vertex : ~ IsContractible(edges, v)
        BY <3>2, <2>1, <4>1, <1>1 DEF WorklistExact
      <4>3. Last(performed') # DEADEND
        BY <3>2, <2>2, <1>1 DEF DequeInv, DEADEND, LINEAR
      <4>4. QED
        BY <4>2, <4>3, <1>4 DEF NothingLeft, IsContractible, is_directed
    <3>3. QED
      BY <3>1, <3>2, <2>1
  <2>6. QED
    BY <2>3, <2>4, <2>5, <1>1, <1>4, <1>5
    DEF IInv, get_shortcuts, WorklistExact, MarksShortcuts, ForbiddenStay
<1>9. QED
  BY <1>7, <1>8

\* The worklists are filled.
LEMMA FillingKeeps ==
  ASSUME IInv, perform_deadEnd \/ perform_linear
  PROVE  IInv'
<1>1. TypeOK /\ DequeInv /\ IsFiniteSet(get_shortcuts) /\ MarksShortcuts /\ ForbiddenStay
  BY DEF IInv
<1>2. UNCHANGED <<request, edges, held, created, removed, contract_order, front, cycle,
                  performed, pending, answer>>
  BY DEF perform_deadEnd, perform_linear, graphVars, loopVars
<1>3. \/ /\ Head(contract_order) = DEADEND /\ phase' = "deadEnd"
         /\ worklist' = DeadEnds(edges)
      \/ /\ Head(contract_order) = LINEAR /\ phase' = "linear"
         /\ worklist' = {v \in Vertex : IsContractible(edges, v)}
  BY DEF perform_deadEnd, perform_linear, DeadEnds
<1>4. phase = "cycle"
  BY DEF perform_deadEnd, perform_linear
<1>5. TypeOK'
  <2>1. worklist' \subseteq Vertex
    BY <1>3 DEF DeadEnds
  <2>2. QED
    BY <2>1, <1>1, <1>2, <1>3 DEF TypeOK
<1>6. WorklistExact'
  BY <1>2, <1>3 DEF WorklistExact, DeadEnds, IsDeadEndToContract, IsContractible, is_directed
<1>7. DequeInv' /\ NothingLeft'
  BY <1>1, <1>2, <1>3, <1>4 DEF DequeInv, NothingLeft
<1>8. QED
  BY <1>1, <1>2, <1>5, <1>6, <1>7 DEF IInv, get_shortcuts, MarksShortcuts, ForbiddenStay

\* The steps of linear contraction.
LEMMA LinearKeeps ==
  ASSUME IInv, ContractLinear \/ Recurse \/ Skip
  PROVE  IInv'
<1>1. TypeOK /\ DequeInv /\ IsFiniteSet(get_shortcuts) /\ WorklistExact /\ MarksShortcuts
      /\ ForbiddenStay
  BY DEF IInv
<1>2. phase = "linear"
  BY DEF ContractLinear, Recurse, Skip
<1>3. \A x \in Vertex : x \notin Range(pending) => (x \in worklist <=> IsContractible(edges, x))
  BY <1>1, <1>2 DEF WorklistExact
<1>4. pending \in Seq(Vertex) /\ worklist \subseteq Vertex
  BY <1>1 DEF TypeOK
<1>5. CASE ContractLinear
  <2>1. pending = <<>> /\ worklist # {} /\ OneCycle(Min(worklist), <<>>)
        /\ UNCHANGED <<request, phase, loopVars, answer>>
    BY <1>5 DEF ContractLinear
  <2>2. Min(worklist) \in Vertex
    BY <2>1, <1>4, VertexAssumption, MinOfNaturals
  <2>3. Range(<<>>) = {} /\ <<>> \in Seq(Vertex)
    BY DEF Range
  <2>4. \A x \in Vertex : x # Min(worklist) /\ x \notin Range(<<>>) =>
                             (x \in worklist <=> IsContractible(edges, x))
    BY <2>1, <2>3, <1>3
  <2>5. QED
    BY <2>1, <2>2, <2>3, <2>4, <1>2, OneCycleKeeps
<1>6. CASE Recurse
  <2>1. pending # <<>> /\ OneCycle(Head(pending), Tail(pending))
        /\ UNCHANGED <<request, phase, loopVars, answer>>
    BY <1>6 DEF Recurse
  <2>2. Head(pending) \in Vertex /\ Tail(pending) \in Seq(Vertex)
        /\ Range(pending) \subseteq {Head(pending)} \cup Range(Tail(pending))
    BY <2>1, <1>4, RangeOfPop
  <2>3. \A x \in Vertex : x # Head(pending) /\ x \notin Range(Tail(pending)) =>
                             (x \in worklist <=> IsContractible(edges, x))
    BY <2>2, <1>3
  <2>4. QED
    BY <2>1, <2>2, <2>3, <1>2, OneCycleKeeps
<1>7. CASE Skip
  <2>1. /\ pending # <<>> /\ ~ IsContractible(edges, Head(pending))
        /\ pending' = Tail(pending) /\ worklist' = worklist \ {Head(pending)}
        /\ UNCHANGED <<request, phase, edges, held, created, removed, contract_order, front,
                       cycle, performed, answer>>
    BY <1>7 DEF Skip, graphVars, loopVars
  <2>2. Tail(pending) \in Seq(Vertex)
        /\ Range(pending) \subseteq {Head(pending)} \cup Range(Tail(pending))
    BY <2>1, <1>4, RangeOfPop
  <2>3. WorklistExact'
    <3>1. ASSUME NEW x \in Vertex, x \notin Range(Tail(pending))
          PROVE  x \in worklist \ {Head(pending)} <=> IsContractible(edges, x)
      BY <3>1, <2>1, <2>2, <1>3
    <3>2. QED
      BY <3>1, <2>1, <1>2 DEF WorklistExact, IsContractible, is_directed
  <2>4. TypeOK'
    BY <2>1, <2>2, <1>1 DEF TypeOK
  <2>5. DequeInv' /\ NothingLeft'
    BY <2>1, <1>1, <1>2 DEF DequeInv, NothingLeft
  <2>6. QED
    BY <2>1, <2>3, <2>4, <2>5, <1>1 DEF IInv, get_shortcuts, MarksShortcuts, ForbiddenStay
<1>8. QED
  BY <1>5, <1>6, <1>7

\* The end of a call.
LEMMA EndKeeps ==
  ASSUME IInv, Refuse \/ Return
  PROVE  IInv'
<1>1. TypeOK /\ DequeInv /\ IsFiniteSet(get_shortcuts) /\ MarksShortcuts /\ ForbiddenStay
  BY DEF IInv
<1>2. UNCHANGED <<request, edges, held, created, removed, contract_order, front, cycle,
                  performed, worklist, pending>>
  BY DEF Refuse, Return, graphVars, loopVars
<1>3. phase' \in {"returned", "refused"}
  BY DEF Refuse, Return
<1>4. answer' \in [vertices : SUBSET [id : Vertex, contracted : SUBSET Vertex],
                   edges : SUBSET Edge]
  <2>1. CASE Refuse
    BY <2>1, <1>1 DEF Refuse, TypeOK
  <2>2. CASE Return
    <3> DEFINE vs == {[id |-> v, contracted |-> held[v]] : v \in get_modified_vertices}
               number(e) == Cardinality({d \in get_shortcuts : d.id >= e.id})
               es == {[e EXCEPT !.id = -number(e)] : e \in get_shortcuts}
    <3>1. answer' = [vertices |-> vs, edges |-> es]
      BY <2>2 DEF Return
    <3>2. vs \in SUBSET [id : Vertex, contracted : SUBSET Vertex]
      BY <1>1 DEF TypeOK, get_modified_vertices
    <3>3. ASSUME NEW e \in get_shortcuts PROVE [e EXCEPT !.id = -number(e)] \in Edge
      <4>1. IsFiniteSet({d \in get_shortcuts : d.id >= e.id})
        BY <1>1, FS_Subset
      <4>2. number(e) \in Nat
        BY <4>1, FS_CardinalityType
      <4>3. e \in Edge
        BY <1>1 DEF TypeOK, get_shortcuts
      <4> HIDE DEF number
      <4>4. QED
        BY <4>2, <4>3 DEF Edge
    <3>4. es \in SUBSET Edge
      BY <3>3
    <3> HIDE DEF vs, es
    <3>5. QED
      BY <3>1, <3>2, <3>4
  <2>3. QED
    BY <2>1, <2>2
<1>5. TypeOK'
  BY <1>1, <1>2, <1>3, <1>4 DEF TypeOK
<1>6. DequeInv' /\ NothingLeft' /\ WorklistExact'
  BY <1>3 DEF DequeInv, NothingLeft, WorklistExact
<1>7. QED
  BY <1>1, <1>2, <1>5, <1>6 DEF IInv, get_shortcuts, MarksShortcuts, ForbiddenStay

\* Every step keeps the invariant.
LEMMA NextIInv == IInv /\ [Next]_vars => IInv'
<1> SUFFICES ASSUME IInv, [Next]_vars PROVE IInv'
  OBVIOUS
<1>1. CASE Refuse \/ Return
  BY <1>1, EndKeeps
<1>2. CASE pgr_contraction
  BY <1>2, CallKeeps
<1>3. CASE NextCycle \/ EndMethod
  BY <1>3, TurningKeeps
<1>4. CASE perform_deadEnd \/ perform_linear
  BY <1>4, FillingKeeps
<1>5. CASE ContractDeadEnd
  BY <1>5, ContractDeadEndKeeps
<1>6. CASE ContractLinear \/ Recurse \/ Skip
  BY <1>6, LinearKeeps
<1>7. CASE Done \/ UNCHANGED vars
  BY <1>7 DEF Done, vars, IInv, TypeOK, DequeInv, get_shortcuts, WorklistExact, DeadEnds,
       MarksShortcuts, ForbiddenStay, NothingLeft, IsDeadEndToContract, IsContractible, is_directed
<1>8. QED
  BY <1>1, <1>2, <1>3, <1>4, <1>5, <1>6, <1>7 DEF Next

\* Whatever is asked, the invariant holds throughout the call.
THEOREM ContractionInvariant == Spec => []IInv
<1>1. QED
  BY InitIInv, NextIInv, PTL DEF Spec

\* The types of the state of pgr_contraction (contract.hpp, contractionGraph.hpp).
THEOREM ContractionTypes == Spec => []TypeOK
<1>1. IInv => TypeOK
  BY DEF IInv
<1>2. QED
  BY <1>1, ContractionInvariant, PTL

\* No vertex of the forbidden list is ever contracted
\* (deadEndContraction.hpp:94-98, linearContraction.hpp:66-68).
THEOREM ForbiddenAreKept == Spec => []ForbiddenStay
<1>1. IInv => ForbiddenStay
  BY DEF IInv
<1>2. QED
  BY <1>1, ContractionInvariant, PTL

\* No assertion of the two loops, nor those on the returned edges, can fail
\* (deadEndContraction.hpp:70, linearContraction.hpp:89, contractionGraph.hpp:316-334).
THEOREM AssertionsNeverFail == Spec => []AssertionsHold
<1>1. IInv => AssertionsHold
  <2> SUFFICES ASSUME IInv PROVE AssertionsHold
    OBVIOUS
  <2>1. WorklistExact /\ MarksShortcuts /\ worklist \subseteq Vertex
    BY DEF IInv, TypeOK
  <2>2. phase = "deadEnd" => \A v \in worklist : IsDeadEnd(edges, is_directed, v)
    BY <2>1 DEF WorklistExact, DeadEnds, IsDeadEndToContract
  <2>3. phase = "linear" /\ pending = <<>> => \A v \in worklist : IsContractible(edges, v)
    BY <2>1 DEF WorklistExact, Range
  <2>4. QED
    BY <2>1, <2>2, <2>3 DEF AssertionsHold, MarksShortcuts
<1>2. QED
  BY <1>1, ContractionInvariant, PTL

\* A method ends only when there is nothing left for it to contract
\* (deadEndContraction.hpp:94-98, linearContraction.hpp:141-152).
THEOREM MethodsAreExhaustive == Spec => []NothingLeft
<1>1. IInv => NothingLeft
  BY DEF IInv
<1>2. QED
  BY <1>1, ContractionInvariant, PTL

----------------------------------------------------------------------------
(***************************************************************************)
(* Undirected graphs: every contracted vertex is recorded in one place.    *)
(* Contracting v moves what v and the edges at v hold, and v itself, to a  *)
(* single place: the neighbour of a dead end, the shortcut around a linear *)
(* vertex.                                                                 *)
(***************************************************************************)
Holders(h, y)  == {x \in Vertex : y \in h[x]}
Carriers(E, y) == {e \in E : y \in e.contracted}

Free(h, E, y) == Holders(h, y) = {} /\ Carriers(E, y) = {}

Lone(h, E, y) ==
  \/ (\E x \in Vertex : Holders(h, y) = {x}) /\ Carriers(E, y) = {}
  \/ Holders(h, y) = {} /\ \E e \in E : Carriers(E, y) = {e}

\* What would be moved if v were contracted.
Moved(h, E, v, y) == y = v \/ y \in h[v] \/ \E e \in Incident(E, v) : y \in e.contracted

\* Everything is moved to the vertex u.
LEMMA MovingToVertex ==
  ASSUME NEW E \in SUBSET Edge, NEW u \in Vertex, NEW v \in Vertex, u # v,
         NEW h, NEW k, NEW F, F = E \ Incident(E, v),
         k[v] = {}, \A x \in Vertex \ {u, v} : k[x] = h[x],
         \A y : y \in k[u] <=> y \in h[u] \/ Moved(h, E, v, y),
         Free(h, E, v), NEW y
  PROVE  /\ y = v => Lone(k, F, y)
         /\ y # v /\ Free(h, E, y) => Free(k, F, y)
         /\ y # v /\ Lone(h, E, y) => Lone(k, F, y)
<1>1. Carriers(F, y) = {e \in Carriers(E, y) : e \notin Incident(E, v)}
  BY DEF Carriers
<1>2. \A x \in Vertex : x \in Holders(k, y) <=>
        \/ x = u /\ Moved(h, E, v, y)
        \/ x # v /\ x \in Holders(h, y)
  BY DEF Holders
<1>3. Moved(h, E, v, y) <=>
        y = v \/ v \in Holders(h, y) \/ \E e \in Carriers(E, y) : e \in Incident(E, v)
  BY DEF Moved, Holders, Carriers, Incident
<1>4. Holders(k, y) \subseteq Vertex /\ Holders(h, y) \subseteq Vertex
  BY DEF Holders
<1>5. ASSUME y = v PROVE Lone(k, F, y)
  <2>1. Holders(h, y) = {} /\ Carriers(E, y) = {}
    BY <1>5 DEF Free
  <2>2. Holders(k, y) = {u} /\ Carriers(F, y) = {}
    BY <2>1, <1>1, <1>2, <1>3, <1>4, <1>5
  <2>3. QED
    BY <2>2 DEF Lone
<1>6. ASSUME y # v, Free(h, E, y) PROVE Free(k, F, y)
  BY <1>1, <1>2, <1>3, <1>4, <1>6 DEF Free
<1>7. ASSUME y # v, NEW x \in Vertex, Holders(h, y) = {x}, Carriers(E, y) = {}
      PROVE  Lone(k, F, y)
  <2>1. Holders(k, y) = {IF x = v THEN u ELSE x} /\ Carriers(F, y) = {}
    BY <1>1, <1>2, <1>3, <1>4, <1>7
  <2>2. QED
    BY <2>1 DEF Lone
<1>8. ASSUME y # v, Holders(h, y) = {}, NEW e \in E, Carriers(E, y) = {e}
      PROVE  Lone(k, F, y)
  <2>1. CASE e \in Incident(E, v)
    <3>1. Holders(k, y) = {u} /\ Carriers(F, y) = {}
      BY <1>1, <1>2, <1>3, <1>4, <1>8, <2>1
    <3>2. QED
      BY <3>1 DEF Lone
  <2>2. CASE e \notin Incident(E, v)
    <3>1. Holders(k, y) = {} /\ Carriers(F, y) = {e} /\ e \in F
      BY <1>1, <1>2, <1>3, <1>4, <1>8, <2>2
    <3>2. QED
      BY <3>1 DEF Lone
  <2>3. QED
    BY <2>1, <2>2
<1>9. ASSUME y # v, Lone(h, E, y) PROVE Lone(k, F, y)
  BY <1>7, <1>8, <1>9 DEF Lone
<1>10. QED
  BY <1>5, <1>6, <1>9

\* Everything is moved to the new edge s.
LEMMA MovingToEdge ==
  ASSUME NEW E \in SUBSET Edge, NEW v \in Vertex, NEW s,
         NEW h, NEW k, NEW F, F = (E \ Incident(E, v)) \cup {s},
         k[v] = {}, \A x \in Vertex \ {v} : k[x] = h[x],
         \A y : y \in s.contracted <=> Moved(h, E, v, y),
         Free(h, E, v), NEW y
  PROVE  /\ y = v => Lone(k, F, y)
         /\ y # v /\ Free(h, E, y) => Free(k, F, y)
         /\ y # v /\ Lone(h, E, y) => Lone(k, F, y)
<1>1. \A e : e \in Carriers(F, y) <=>
        \/ e \in Carriers(E, y) /\ e \notin Incident(E, v)
        \/ e = s /\ Moved(h, E, v, y)
  BY DEF Carriers
<1>2. Holders(k, y) = Holders(h, y) \ {v}
  BY DEF Holders
<1>3. Moved(h, E, v, y) <=>
        y = v \/ v \in Holders(h, y) \/ \E e \in Carriers(E, y) : e \in Incident(E, v)
  BY DEF Moved, Holders, Carriers, Incident
<1>4. s \in F
  OBVIOUS
<1>5. ASSUME y = v PROVE Lone(k, F, y)
  <2>1. Holders(h, y) = {} /\ Carriers(E, y) = {}
    BY <1>5 DEF Free
  <2>2. Holders(k, y) = {} /\ Carriers(F, y) = {s}
    BY <2>1, <1>1, <1>2, <1>3, <1>5
  <2>3. QED
    BY <2>2, <1>4 DEF Lone
<1>6. ASSUME y # v, Free(h, E, y) PROVE Free(k, F, y)
  <2>1. Holders(h, y) = {} /\ Carriers(E, y) = {}
    BY <1>6 DEF Free
  <2>2. Holders(k, y) = {} /\ Carriers(F, y) = {}
    BY <2>1, <1>1, <1>2, <1>3, <1>6
  <2>3. QED
    BY <2>2 DEF Free
<1>7. ASSUME y # v, NEW x \in Vertex, Holders(h, y) = {x}, Carriers(E, y) = {}
      PROVE  Lone(k, F, y)
  <2>1. CASE x = v
    <3>1. Holders(k, y) = {} /\ Carriers(F, y) = {s}
      BY <1>1, <1>2, <1>3, <1>7, <2>1
    <3>2. QED
      BY <3>1, <1>4 DEF Lone
  <2>2. CASE x # v
    <3>1. Holders(k, y) = {x} /\ Carriers(F, y) = {}
      BY <1>1, <1>2, <1>3, <1>7, <2>2
    <3>2. QED
      BY <3>1 DEF Lone
  <2>3. QED
    BY <2>1, <2>2
<1>8. ASSUME y # v, Holders(h, y) = {}, NEW e \in E, Carriers(E, y) = {e}
      PROVE  Lone(k, F, y)
  <2>1. CASE e \in Incident(E, v)
    <3>1. Holders(k, y) = {} /\ Carriers(F, y) = {s}
      BY <1>1, <1>2, <1>3, <1>8, <2>1
    <3>2. QED
      BY <3>1, <1>4 DEF Lone
  <2>2. CASE e \notin Incident(E, v)
    <3>1. Holders(k, y) = {} /\ Carriers(F, y) = {e} /\ e \in F
      BY <1>1, <1>2, <1>3, <1>8, <2>2
    <3>2. QED
      BY <3>1 DEF Lone
  <2>3. QED
    BY <2>1, <2>2
<1>9. ASSUME y # v, Lone(h, E, y) PROVE Lone(k, F, y)
  BY <1>7, <1>8, <1>9 DEF Lone
<1>10. QED
  BY <1>5, <1>6, <1>9

\* The edges and the records of an undirected call, R being the removed vertices.
Records(h, E, R) ==
  /\ \A e \in E : e.from # e.to /\ e.from \notin R /\ e.to \notin R
  /\ \A y \in R : Lone(h, E, y) /\ h[y] = {}
  /\ \A y \in Vertex \ R : Free(h, E, y)

\* Nothing happens before the graph is built.
Fresh == phase = "called" => removed = {} /\ \A x \in Vertex : held[x] = {}

RInv == ~ is_directed /\ NoLoops => Records(held, edges, removed)

\* An edge at v leads to a neighbour of v.
LEMMA EdgeToNeighbour ==
  ASSUME NEW E \in SUBSET Edge, NEW v \in Vertex, NEW e \in Incident(E, v)
  PROVE  \E u \in Adjacent(E, v) : /\ e \in EdgesBetween(E, FALSE, u, v)
                                   /\ e \in EdgesBetween(E, FALSE, v, u)
<1>1. CASE e.from = v
  <2>1. e.to \in Adjacent(E, v)
    BY <1>1 DEF Adjacent, Incident
  <2>2. QED
    BY <1>1, <2>1 DEF EdgesBetween, Incident
<1>2. CASE e.to = v
  <2>1. e.from \in Adjacent(E, v)
    BY <1>2 DEF Adjacent, Incident
  <2>2. QED
    BY <1>2, <2>1 DEF EdgesBetween, Incident
<1>3. QED
  BY <1>1, <1>2 DEF Incident

\* An edge between v and another vertex is an edge at v.
LEMMA EdgeBetweenIsIncident ==
  ASSUME NEW E, NEW u, NEW v
  PROVE  /\ EdgesBetween(E, FALSE, u, v) \subseteq Incident(E, v)
         /\ EdgesBetween(E, FALSE, v, u) \subseteq Incident(E, v)
BY DEF EdgesBetween, Incident

\* Without loops, and when no edge touches R: v is not its own neighbour, and a
\* vertex that has neighbours is not in R, and nor are they.
LEMMA NeighboursAreLeft ==
  ASSUME NEW E, NEW v, NEW R,
         \A e \in E : e.from # e.to /\ e.from \notin R /\ e.to \notin R
  PROVE  /\ v \notin Adjacent(E, v)
         /\ Adjacent(E, v) # {} => v \notin R
         /\ Adjacent(E, v) \cap R = {}
BY DEF Adjacent

\* From the moves of the lemmas above to the records of the whole graph.
LEMMA MovingKeepsRecords ==
  ASSUME NEW E \in SUBSET Edge, NEW F, NEW h, NEW k, NEW R \in SUBSET Vertex, NEW v \in Vertex,
         Records(h, E, R), v \notin R, k[v] = {},
         \A e \in F : e.from # e.to /\ e.from \notin R \cup {v} /\ e.to \notin R \cup {v},
         \A y \in R : k[y] = h[y],
         \A y : /\ y = v => Lone(k, F, y)
                /\ y # v /\ Free(h, E, y) => Free(k, F, y)
                /\ y # v /\ Lone(h, E, y) => Lone(k, F, y)
  PROVE  Records(k, F, R \cup {v})
<1>1. ASSUME NEW y \in R \cup {v} PROVE Lone(k, F, y) /\ k[y] = {}
  <2>1. CASE y = v
    BY <2>1
  <2>2. CASE y # v
    <3>1. y \in R /\ Lone(h, E, y) /\ h[y] = {}
      BY <2>2 DEF Records
    <3>2. QED
      BY <3>1, <2>2
  <2>3. QED
    BY <2>1, <2>2
<1>2. ASSUME NEW y \in Vertex \ (R \cup {v}) PROVE Free(k, F, y)
  <2>1. Free(h, E, y) /\ y # v
    BY DEF Records
  <2>2. QED
    BY <2>1
<1>3. QED
  BY <1>1, <1>2 DEF Records

\* Dead end contraction of an undirected graph.
LEMMA DeadEndRecords ==
  ASSUME IInv, RInv, ContractDeadEnd, ~ is_directed, NoLoops
  PROVE  Records(held', edges', removed')
<1> DEFINE v == Min(worklist)
           U == Adjacent(edges, v)
<1>1. phase = "deadEnd" /\ worklist # {} /\ IsDeadEnd(edges, is_directed, v)
      /\ held' = MergeInto(v, U) /\ edges' = edges \ Incident(edges, v)
      /\ removed' = removed \cup {v}
  BY DEF ContractDeadEnd
<1>2. TypeOK /\ is_directed = FALSE /\ edges \in SUBSET Edge
      /\ held \in [Vertex -> SUBSET Vertex] /\ removed \in SUBSET Vertex
  <2>1. TypeOK
    BY DEF IInv
  <2>2. QED
    BY <2>1, StateTypes DEF TypeOK
<1>3. v \in Vertex
  <2>1. worklist \subseteq Nat /\ worklist \subseteq Vertex
    BY <1>2, VertexAssumption DEF TypeOK
  <2>2. QED
    BY <2>1, <1>1, MinOfNaturals
<1> HIDE DEF v
<1>4. Records(held, edges, removed)
  BY DEF RInv
<1>5. \A e \in edges : e.from # e.to /\ e.from \notin removed /\ e.to \notin removed
  BY <1>4 DEF Records
<1>6. PICK u : U = {u}
  <2>1. Cardinality(U) = 1
    BY <1>1, <1>2 DEF IsDeadEnd
  <2>2. IsFiniteSet(U)
    BY <1>2, <1>3, AdjacentVertices
  <2>3. QED
    BY <2>1, <2>2, FS_Singleton
<1>7. u \in Vertex /\ u # v /\ v \notin removed
  <2>1. U \subseteq Vertex
    BY <1>2, <1>3, AdjacentVertices
  <2>2. v \notin U
    BY <1>5, NeighboursAreLeft
  <2>3. v \notin removed
    BY <1>5, <1>6, NeighboursAreLeft
  <2>4. QED
    BY <2>1, <2>2, <2>3, <1>6
<1>8. Incident(edges, v) = EdgesBetween(edges, FALSE, u, v)
  <2>1. ASSUME NEW e \in Incident(edges, v) PROVE e \in EdgesBetween(edges, FALSE, u, v)
    <3>1. \E x \in Adjacent(edges, v) : e \in EdgesBetween(edges, FALSE, x, v)
      BY <1>2, <1>3, EdgeToNeighbour
    <3>2. QED
      BY <3>1, <1>6
  <2>2. EdgesBetween(edges, FALSE, u, v) \subseteq Incident(edges, v)
    BY EdgeBetweenIsIncident
  <2>3. QED
    BY <2>1, <2>2
<1>9. held'[v] = {} /\ \A x \in Vertex \ {u, v} : held'[x] = held[x]
  BY <1>1, <1>3, <1>6 DEF MergeInto
<1>10. \A y : y \in held'[u] <=> y \in held[u] \/ Moved(held, edges, v, y)
  <2>1. held'[u] = held[u] \cup {v} \cup held[v] \cup Along(edges, FALSE, u, v)
    BY <1>1, <1>2, <1>6, <1>7 DEF MergeInto
  <2>2. \A y : y \in Along(edges, FALSE, u, v) <=> \E e \in Incident(edges, v) : y \in e.contracted
    BY <1>8 DEF Along
  <2>3. QED
    BY <2>1, <2>2 DEF Moved
<1>11. Free(held, edges, v)
  BY <1>3, <1>4, <1>7 DEF Records
<1>12. \A y : /\ y = v => Lone(held', edges', y)
              /\ y # v /\ Free(held, edges, y) => Free(held', edges', y)
              /\ y # v /\ Lone(held, edges, y) => Lone(held', edges', y)
  BY <1>1, <1>2, <1>3, <1>7, <1>9, <1>10, <1>11, MovingToVertex
<1>13. \A e \in edges' : e.from # e.to /\ e.from \notin removed \cup {v} /\ e.to \notin removed \cup {v}
  BY <1>1, <1>5 DEF Incident
<1>14. \A y \in removed : held'[y] = held[y]
  <2>1. u \notin removed
    BY <1>5, <1>6, NeighboursAreLeft
  <2>2. QED
    BY <2>1, <1>2, <1>7, <1>9
<1>15. QED
  BY <1>1, <1>2, <1>3, <1>4, <1>7, <1>9, <1>12, <1>13, <1>14, MovingKeepsRecords

\* Linear contraction of an undirected graph.
LEMMA LinearRecords ==
  ASSUME IInv, RInv, NEW v \in Vertex, NEW stack, OneCycle(v, stack), ~ is_directed, NoLoops
  PROVE  Records(held', edges', removed')
<1> DEFINE u   == Min(Adjacent(edges, v))
           w   == Max(Adjacent(edges, v))
           id  == -(created + 1)
           s   == Shortcut(edges, FALSE, held, id, u, v, w)
           new == ShortcutsAround(edges, is_directed, held, created, u, v, w)
<1>1. /\ IsContractible(edges, v)
      /\ edges' = (edges \ Incident(edges, v)) \cup new
      /\ held' = [held EXCEPT ![v] = {}]
      /\ removed' = removed \cup {v}
  BY DEF OneCycle
<1>2. TypeOK /\ is_directed = FALSE /\ edges \in SUBSET Edge /\ created \in Nat
      /\ held \in [Vertex -> SUBSET Vertex] /\ removed \in SUBSET Vertex
  <2>1. TypeOK
    BY DEF IInv
  <2>2. QED
    BY <2>1, StateTypes DEF TypeOK
<1>3. /\ Adjacent(edges, v) = {u, w}
      /\ u \in Vertex /\ w \in Vertex
      /\ u # v /\ w # v /\ u # w
      /\ HasUVW(edges, FALSE, u, v, w)
  <2>1. IsLinear(edges, is_directed, v) /\ is_directed \in BOOLEAN
    BY <1>1, <1>2 DEF IsContractible
  <2>2. /\ Adjacent(edges, v) = {u, w}
        /\ u \in Vertex /\ w \in Vertex
        /\ u # v /\ w # v /\ u # w
        /\ HasUVW(edges, is_directed, u, v, w) \/ (is_directed /\ HasUVW(edges, is_directed, w, v, u))
    BY <2>1, <1>2, NeighboursOfLinear
  <2> HIDE DEF u, w
  <2>3. QED
    BY <2>2, <1>2
<1>4. new = {s}
  BY <1>2, <1>3 DEF ShortcutsAround
<1>5. /\ s.from = u /\ s.to = w
      /\ s.contracted = {v} \cup held[v] \cup Along(edges, FALSE, u, v) \cup Along(edges, FALSE, v, w)
  <2>1. id \in Int /\ FALSE \in BOOLEAN
    BY <1>2
  <2> HIDE DEF u, w, id
  <2>2. /\ Shortcut(edges, FALSE, held, id, u, v, w).from = u
        /\ Shortcut(edges, FALSE, held, id, u, v, w).to = w
        /\ Shortcut(edges, FALSE, held, id, u, v, w).contracted
             = {v} \cup held[v] \cup Along(edges, FALSE, u, v) \cup Along(edges, FALSE, v, w)
    BY DEF Shortcut
  <2>3. QED
    BY <2>2
<1> HIDE DEF u, w, id, s, new
<1>6. Records(held, edges, removed)
  BY DEF RInv
<1>7. \A e \in edges : e.from # e.to /\ e.from \notin removed /\ e.to \notin removed
  BY <1>6 DEF Records
<1>8. v \notin removed /\ u \notin removed /\ w \notin removed
  BY <1>3, <1>7, NeighboursAreLeft
<1>9. \A y : y \in s.contracted <=> Moved(held, edges, v, y)
  <2>1. ASSUME NEW e \in Incident(edges, v)
        PROVE  e \in EdgesBetween(edges, FALSE, u, v) \/ e \in EdgesBetween(edges, FALSE, v, w)
    <3>1. \E x \in Adjacent(edges, v) : /\ e \in EdgesBetween(edges, FALSE, x, v)
                                        /\ e \in EdgesBetween(edges, FALSE, v, x)
      BY <1>2, EdgeToNeighbour
    <3>2. QED
      BY <3>1, <1>3
  <2>2. EdgesBetween(edges, FALSE, u, v) \subseteq Incident(edges, v)
        /\ EdgesBetween(edges, FALSE, v, w) \subseteq Incident(edges, v)
    BY EdgeBetweenIsIncident
  <2>3. Incident(edges, v) =
          EdgesBetween(edges, FALSE, u, v) \cup EdgesBetween(edges, FALSE, v, w)
    BY <2>1, <2>2
  <2>4. \A y : (y \in Along(edges, FALSE, u, v) \/ y \in Along(edges, FALSE, v, w)) <=>
                 \E e \in Incident(edges, v) : y \in e.contracted
    BY <2>3 DEF Along
  <2>5. QED
    BY <2>4, <1>5 DEF Moved
<1>10. held'[v] = {} /\ \A x \in Vertex \ {v} : held'[x] = held[x]
  BY <1>1, <1>2
<1>11. Free(held, edges, v)
  BY <1>6, <1>8 DEF Records
<1>12. edges' = (edges \ Incident(edges, v)) \cup {s}
  BY <1>1, <1>4
<1>13. \A y : /\ y = v => Lone(held', edges', y)
              /\ y # v /\ Free(held, edges, y) => Free(held', edges', y)
              /\ y # v /\ Lone(held, edges, y) => Lone(held', edges', y)
  BY <1>2, <1>9, <1>10, <1>11, <1>12, MovingToEdge
<1>14. \A e \in edges' : e.from # e.to /\ e.from \notin removed \cup {v} /\ e.to \notin removed \cup {v}
  <2>1. \A e \in edges \ Incident(edges, v) :
          e.from # e.to /\ e.from \notin removed \cup {v} /\ e.to \notin removed \cup {v}
    BY <1>7 DEF Incident
  <2>2. QED
    BY <2>1, <1>3, <1>5, <1>8, <1>12
<1>15. \A y \in removed : held'[y] = held[y]
  BY <1>2, <1>8, <1>10
<1>16. QED
  BY <1>1, <1>2, <1>6, <1>8, <1>10, <1>13, <1>14, <1>15, MovingKeepsRecords

\* Nothing is contracted yet.
LEMMA InitRInv == Init => RInv
BY DEF Init, RInv, Records, Free, Holders, Carriers

\* Before the call nothing is contracted, and nothing is held.
LEMMA FreshInv == (Init => Fresh) /\ (Fresh /\ [Next]_vars => Fresh')
<1>1. Init => Fresh
  BY DEF Init, Fresh
<1>2. ASSUME Fresh, Next, phase' = "called" PROVE UNCHANGED <<held, removed, phase>>
  BY <1>2 DEF Next, Refuse, pgr_contraction, NextCycle, perform_deadEnd, ContractDeadEnd,
              perform_linear, ContractLinear, Recurse, Skip, EndMethod, Return, Done, vars
<1>3. QED
  BY <1>1, <1>2 DEF Fresh, vars

\* Every step keeps what is recorded.
LEMMA NextRInv == IInv /\ RInv /\ Fresh /\ [Next]_vars => RInv'
<1> SUFFICES ASSUME IInv, RInv, Fresh, [Next]_vars, (~ is_directed /\ NoLoops)'
             PROVE  Records(held', edges', removed')
  BY DEF RInv
<1>1. TypeOK /\ request' = request
  BY DEF IInv, Next, Refuse, pgr_contraction, NextCycle, perform_deadEnd, ContractDeadEnd,
         perform_linear, ContractLinear, Recurse, Skip, EndMethod, Return, Done, vars
<1>2. ~ is_directed /\ NoLoops
  BY <1>1 DEF is_directed, NoLoops
<1>3. Records(held, edges, removed)
  BY <1>2 DEF RInv
<1>4. CASE UNCHANGED <<held, edges, removed>>
  BY <1>3, <1>4
<1>5. CASE ContractDeadEnd
  BY <1>2, <1>5, DeadEndRecords
<1>6. CASE ContractLinear
  <2>1. worklist # {} /\ OneCycle(Min(worklist), <<>>)
    BY <1>6 DEF ContractLinear
  <2>2. Min(worklist) \in Vertex
    BY <2>1, <1>1, VertexAssumption, MinOfNaturals DEF TypeOK
  <2>3. QED
    BY <2>1, <2>2, <1>2, LinearRecords
<1>7. CASE Recurse
  <2>1. pending # <<>> /\ OneCycle(Head(pending), Tail(pending))
    BY <1>7 DEF Recurse
  <2>2. Head(pending) \in Vertex
    BY <2>1, <1>1, RangeOfPop DEF TypeOK
  <2>3. QED
    BY <2>1, <2>2, <1>2, LinearRecords
<1>8. CASE pgr_contraction
  <2>1. UNCHANGED <<held, removed>> /\ edges' = EdgesOf(request.rows, is_directed)
    BY <1>8 DEF pgr_contraction
  <2>2. request \in RequestType /\ is_directed \in BOOLEAN
    BY <1>1, StateTypes
  <2>3. \A e \in edges' : e.contracted = {}
    BY <2>1, <2>2, EdgesOfRows DEF RequestType
  <2>4. \A e \in edges' : e.from # e.to
    BY <2>1, <1>2 DEF EdgesOf, Plain, NoLoops
  <2>5. removed = {} /\ \A x \in Vertex : held[x] = {}
    BY <1>8 DEF Fresh, pgr_contraction
  <2>6. QED
    BY <2>1, <2>3, <2>4, <2>5 DEF Records, Free, Holders, Carriers
<1>9. QED
  BY <1>4, <1>5, <1>6, <1>7, <1>8
  DEF Next, Refuse, NextCycle, perform_deadEnd, perform_linear, Skip, EndMethod, Return, Done,
      vars, graphVars

\* In an undirected graph without loops every contracted vertex is recorded at
\* exactly one vertex or shortcut of the graph that is left
\* (deadEndContraction.hpp:73-88, contractionGraph.hpp:369-392).
THEOREM ContractedRecordedOnce == Spec => []RecordedOnce
<1>1. IInv /\ RInv => RecordedOnce
  <2> SUFFICES ASSUME IInv, RInv, ~ is_directed, NoLoops PROVE RecordedOnce
    BY DEF RecordedOnce
  <2>1. Records(held, edges, removed)
    BY DEF RInv
  <2>2. \A y : HoldersOf(y) = Holders(held, y) /\ CarriersOf(y) = Carriers(edges, y)
    BY DEF HoldersOf, CarriersOf, Holders, Carriers
  <2>3. ASSUME NEW y \in removed
        PROVE  Cardinality(HoldersOf(y)) + Cardinality(CarriersOf(y)) = 1
    <3>1. \/ (\E x : HoldersOf(y) = {x}) /\ CarriersOf(y) = {}
          \/ HoldersOf(y) = {} /\ \E e : CarriersOf(y) = {e}
      BY <2>1, <2>2 DEF Records, Lone
    <3>2. Cardinality({}) = 0 /\ \A x : Cardinality({x}) = 1
      BY FS_EmptySet, FS_Singleton
    <3>3. CASE CarriersOf(y) = {}
      <4>1. Cardinality(HoldersOf(y)) = 1
        BY <3>1, <3>2, <3>3
      <4>2. QED
        BY <4>1, <3>2, <3>3
    <3>4. CASE HoldersOf(y) = {}
      <4>1. Cardinality(CarriersOf(y)) = 1
        BY <3>1, <3>2, <3>4
      <4>2. QED
        BY <4>1, <3>2, <3>4
    <3>5. QED
      BY <3>1, <3>3, <3>4
  <2>4. QED
    BY <2>1, <2>2, <2>3 DEF RecordedOnce, Records, Free
<1>2. QED
  BY <1>1, ContractionInvariant, InitRInv, NextRInv, FreshInv, PTL DEF Spec

----------------------------------------------------------------------------
(***************************************************************************)
(* Distances.  A potential without a root, a list of prices, gives every   *)
(* vertex a value that no arc raises by more than its cost.  Prices of the *)
(* road network are prices of the contracted one, for a shortcut is worth  *)
(* the two edges it replaces; and prices of the contracted network extend  *)
(* to the vertices that were contracted, the last one first, so that no    *)
(* way is missing in it.                                                   *)
(***************************************************************************)
Prices == [Vertex -> 0..INF]
Respects(A, D) == \A a \in A : D[a.to] <= D[a.from] + a.cost

Original == EdgesOf(request.rows, is_directed)

\* The graph E is what is left of the edges of orig when R was contracted.
Kept(orig, directed, E, h, R) ==
  /\ \A x \in Vertex : h[x] \subseteq R
  /\ \A e \in E : e.from \notin R /\ e.to \notin R /\ e.contracted \subseteq R
  /\ \A e \in E : e.contracted = {} => e \in orig
  /\ \A D \in Prices : Respects(ArcsIn(orig, directed), D) => Respects(ArcsIn(E, directed), D)
  /\ \A D \in Prices : Respects(ArcsIn(E, directed), D) =>
       \E C \in Prices : /\ Respects(ArcsIn(orig, directed), C)
                         /\ \A x \in Vertex \ R : C[x] = D[x]

\* An arc is an edge in the direction it is travelled in.
LEMMA ArcsOfEdges ==
  ASSUME NEW E \in SUBSET Edge, NEW directed \in BOOLEAN
  PROVE  /\ ArcsIn(E, directed) \in SUBSET Arc
         /\ \A a \in ArcsIn(E, directed) :
              \E e \in EdgesBetween(E, directed, a.from, a.to) : e.cost = a.cost
         /\ \A u, v : \A e \in EdgesBetween(E, directed, u, v) :
              \E a \in ArcsIn(E, directed) : a.from = u /\ a.to = v /\ a.cost = e.cost
<1> DEFINE Go(e, u, v) == [id |-> e.id, from |-> u, to |-> v, cost |-> e.cost, pos |-> 0]
           There == {Go(e, e.from, e.to) : e \in E}
           Back  == {Go(e, e.to, e.from) : e \in E}
<1>1. ArcsIn(E, directed) = There \cup (IF directed THEN {} ELSE Back)
  BY DEF ArcsIn
<1>2. \A e \in E : /\ e.id \in Int /\ e.from \in Vertex /\ e.to \in Vertex /\ e.cost \in Nat
                   /\ Go(e, e.from, e.to) \in Arc /\ Go(e, e.to, e.from) \in Arc
  BY DEF Edge, Arc
<1>2a. \A e, u, v : /\ Go(e, u, v).from = u /\ Go(e, u, v).to = v
                    /\ Go(e, u, v).cost = e.cost
  OBVIOUS
<1>2b. /\ \A a : a \in There <=> \E e \in E : a = Go(e, e.from, e.to)
       /\ \A a : a \in Back <=> \E e \in E : a = Go(e, e.to, e.from)
  OBVIOUS
<1> HIDE DEF Go, There, Back
<1>3. \A a \in There : a \in Arc /\ \E e \in E : e.from = a.from /\ e.to = a.to /\ e.cost = a.cost
  BY <1>2, <1>2a, <1>2b
<1>4. \A a \in Back : a \in Arc /\ \E e \in E : e.from = a.to /\ e.to = a.from /\ e.cost = a.cost
  BY <1>2, <1>2a, <1>2b
<1>5. \A e \in E : \E a \in There : a.from = e.from /\ a.to = e.to /\ a.cost = e.cost
  BY <1>2a, <1>2b
<1>6. \A e \in E : \E a \in Back : a.from = e.to /\ a.to = e.from /\ a.cost = e.cost
  BY <1>2a, <1>2b
<1>7. ArcsIn(E, directed) \in SUBSET Arc
  BY <1>1, <1>3, <1>4
<1>8. \A a \in ArcsIn(E, directed) :
        \E e \in EdgesBetween(E, directed, a.from, a.to) : e.cost = a.cost
  BY <1>1, <1>3, <1>4 DEF EdgesBetween
<1>9. \A u, v : \A e \in EdgesBetween(E, directed, u, v) :
        \E a \in ArcsIn(E, directed) : a.from = u /\ a.to = v /\ a.cost = e.cost
  <2> SUFFICES ASSUME NEW u, NEW v, NEW e \in EdgesBetween(E, directed, u, v)
               PROVE  \E a \in ArcsIn(E, directed) : a.from = u /\ a.to = v /\ a.cost = e.cost
    OBVIOUS
  <2>1. e \in E /\ (\/ e.from = u /\ e.to = v
                    \/ ~ directed /\ e.from = v /\ e.to = u)
    BY DEF EdgesBetween
  <2>2. QED
    BY <2>1, <1>1, <1>5, <1>6
<1>10. QED
  BY <1>7, <1>8, <1>9

\* An edge that can be travelled from one vertex to another is an arc between them.
LEMMA EdgeIsArc ==
  ASSUME NEW E, NEW directed \in BOOLEAN, NEW u, NEW v,
         NEW e \in EdgesBetween(E, directed, u, v)
  PROVE  \E a \in ArcsIn(E, directed) : a.from = u /\ a.to = v /\ a.cost = e.cost
<1>1. /\ e \in E
      /\ \/ e.from = u /\ e.to = v
         \/ ~ directed /\ e.from = v /\ e.to = u
  BY DEF EdgesBetween
<1>2. PICK a : a = [id |-> e.id, from |-> u, to |-> v, cost |-> e.cost, pos |-> 0]
  OBVIOUS
<1>3. a \in ArcsIn(E, directed)
  BY <1>1, <1>2 DEF ArcsIn
<1>4. a.from = u /\ a.to = v /\ a.cost = e.cost
  BY <1>2
<1>5. QED
  BY <1>3, <1>4

\* Arcs of more edges are more arcs.
LEMMA ArcsOfUnion ==
  ASSUME NEW E, NEW F, NEW directed \in BOOLEAN
  PROVE  ArcsIn(E \cup F, directed) = ArcsIn(E, directed) \cup ArcsIn(F, directed)
BY DEF ArcsIn

\* The cheapest edge is there, and none is cheaper.
LEMMA CheapestEdge ==
  ASSUME NEW E \in SUBSET Edge, NEW directed \in BOOLEAN, NEW x, NEW y,
         EdgesBetween(E, directed, x, y) # {}
  PROVE  /\ MinCost(E, directed, x, y) \in Nat
         /\ \E e \in EdgesBetween(E, directed, x, y) : e.cost = MinCost(E, directed, x, y)
         /\ \A e \in EdgesBetween(E, directed, x, y) : MinCost(E, directed, x, y) <= e.cost
<1> DEFINE B == EdgesBetween(E, directed, x, y)
           S == {e.cost : e \in B}
<1>1. \A e \in B : e.cost \in Nat
  BY DEF EdgesBetween, Edge
<1>2. S \in SUBSET Nat /\ S # {}
  BY <1>1
<1>3. Min(S) \in S /\ \A c \in S : Min(S) <= c
  <2> HIDE DEF S
  <2>1. QED
    BY <1>2, MinOfNaturals
<1>4. QED
  BY <1>2, <1>3 DEF MinCost

\* A shortcut is worth the two edges it replaces.
LEMMA ShortcutIsWorthIt ==
  ASSUME NEW E \in SUBSET Edge, NEW directed \in BOOLEAN,
         NEW u \in Vertex, NEW v \in Vertex, NEW w \in Vertex,
         HasUVW(E, directed, u, v, w), NEW D \in Prices, Respects(ArcsIn(E, directed), D)
  PROVE  D[w] <= D[u] + (MinCost(E, directed, u, v) + MinCost(E, directed, v, w))
<1> DEFINE c == MinCost(E, directed, u, v)
           d == MinCost(E, directed, v, w)
<1>1. /\ c \in Nat /\ d \in Nat
      /\ \E e \in EdgesBetween(E, directed, u, v) : e.cost = c
      /\ \E e \in EdgesBetween(E, directed, v, w) : e.cost = d
  BY CheapestEdge DEF HasUVW
<1> HIDE DEF c, d
<1>2. \E a \in ArcsIn(E, directed) : a.from = u /\ a.to = v /\ a.cost = c
  <2>1. PICK e \in EdgesBetween(E, directed, u, v) : e.cost = c
    BY <1>1
  <2>2. \E a \in ArcsIn(E, directed) : a.from = u /\ a.to = v /\ a.cost = e.cost
    BY EdgeIsArc
  <2>3. QED
    BY <2>1, <2>2
<1>3. \E a \in ArcsIn(E, directed) : a.from = v /\ a.to = w /\ a.cost = d
  <2>1. PICK e \in EdgesBetween(E, directed, v, w) : e.cost = d
    BY <1>1
  <2>2. \E a \in ArcsIn(E, directed) : a.from = v /\ a.to = w /\ a.cost = e.cost
    BY EdgeIsArc
  <2>3. QED
    BY <2>1, <2>2
<1>4. D[v] <= D[u] + c /\ D[w] <= D[v] + d
  BY <1>2, <1>3 DEF Respects
<1>5. D[u] \in Nat /\ D[v] \in Nat /\ D[w] \in Nat
  BY InfAssumption DEF Prices
<1>6. D[w] <= D[u] + (c + d)
  BY <1>1, <1>4, <1>5
<1>7. QED
  BY <1>6 DEF c, d

\* An undirected graph is the same in both directions.
LEMMA UndirectedBothWays ==
  ASSUME NEW E, NEW u, NEW v, NEW w
  PROVE  /\ EdgesBetween(E, FALSE, u, v) = EdgesBetween(E, FALSE, v, u)
         /\ MinCost(E, FALSE, u, v) = MinCost(E, FALSE, v, u)
         /\ HasUVW(E, FALSE, u, v, w) <=> HasUVW(E, FALSE, w, v, u)
<1>1. \A x, y : EdgesBetween(E, FALSE, x, y) = EdgesBetween(E, FALSE, y, x)
  BY DEF EdgesBetween
<1>2. QED
  BY <1>1 DEF MinCost, HasUVW

\* A vertex can be priced again, if no arc beyond it asks for less than the ways
\* through it allow.
LEMMA PricedAgain ==
  ASSUME NEW A \in SUBSET Arc, NEW v \in Vertex, NEW D \in Prices,
         \A a \in A : a.from # v /\ a.to # v => D[a.to] <= D[a.from] + a.cost,
         \A a, b \in A : a.to = v /\ a.from # v /\ b.from = v /\ b.to # v =>
                           D[b.to] <= D[a.from] + a.cost + b.cost
  PROVE  \E C \in Prices : Respects(A, C) /\ \A x \in Vertex \ {v} : C[x] = D[x]
<1> DEFINE In == {a \in A : a.to = v /\ a.from # v}
           S  == {INF} \cup {D[a.from] + a.cost : a \in In}
           m  == Min(S)
           C  == [D EXCEPT ![v] = m]
<1>1. \A a \in A : a.from \in Vertex /\ a.to \in Vertex /\ a.cost \in Nat
  BY DEF Arc
<1>2. \A x \in Vertex : D[x] \in 0..INF /\ D[x] \in Nat
  BY InfAssumption DEF Prices
<1>3. S \in SUBSET Nat /\ S # {}
  BY <1>1, <1>2, InfAssumption
<1>4. m \in S /\ \A s \in S : m <= s
  <2> HIDE DEF S
  <2>1. QED
    BY <1>3, MinOfNaturals
<1>5. m \in Nat /\ m <= INF /\ \A a \in In : m <= D[a.from] + a.cost
  BY <1>3, <1>4
<1>6. m = INF \/ \E a \in In : m = D[a.from] + a.cost
  BY <1>4
<1> HIDE DEF m, S
<1>7. C \in Prices /\ C[v] = m /\ \A x \in Vertex \ {v} : C[x] = D[x]
  BY <1>5, InfAssumption DEF Prices
<1> HIDE DEF C
<1>8. ASSUME NEW a \in A PROVE C[a.to] <= C[a.from] + a.cost
  <2>1. CASE a.from # v /\ a.to # v
    BY <2>1, <1>1, <1>7
  <2>2. CASE a.from = v /\ a.to = v
    BY <2>2, <1>1, <1>5, <1>7
  <2>3. CASE a.from # v /\ a.to = v
    BY <2>3, <1>1, <1>5, <1>7
  <2>4. CASE a.from = v /\ a.to # v
    <3>1. D[a.to] <= m + a.cost
      <4>1. CASE m = INF
        BY <4>1, <1>1, <1>2, InfAssumption
      <4>2. CASE \E b \in In : m = D[b.from] + b.cost
        BY <4>2, <2>4
      <4>3. QED
        BY <1>6, <4>1, <4>2
    <3>2. QED
      BY <3>1, <2>4, <1>1, <1>7
  <2>5. QED
    BY <2>1, <2>2, <2>3, <2>4
<1>9. QED
  BY <1>7, <1>8 DEF Respects

\* The new edges are worth what is in E ...
AreWorthIt(E, new, directed) ==
  \A D \in Prices : Respects(ArcsIn(E, directed), D) => Respects(ArcsIn(new, directed), D)
\* ... and prices that respect them leave room for one of v.
NoWayIsLost(E, new, directed, v) ==
  \A D \in Prices : Respects(ArcsIn(new, directed), D) =>
    \A a, b \in ArcsIn(E, directed) :
      a.to = v /\ a.from # v /\ b.from = v /\ b.to # v => D[b.to] <= D[a.from] + a.cost + b.cost

\* When v is contracted and new edges take its place: the prices of what is left are
\* kept if the new edges are worth what they replace and no way through v is missing.
LEMMA ReplacedIsKept ==
  ASSUME NEW orig \in SUBSET Edge, NEW directed \in BOOLEAN, NEW E \in SUBSET Edge,
         NEW new \in SUBSET Edge, NEW h, NEW k, NEW R \in SUBSET Vertex,
         NEW v \in Vertex, v \notin R, Kept(orig, directed, E, h, R),
         \A x \in Vertex : k[x] \subseteq R \cup {v},
         \A e \in new : /\ e.from \notin R \cup {v} /\ e.to \notin R \cup {v}
                        /\ e.contracted # {} /\ e.contracted \subseteq R \cup {v},
         AreWorthIt(E, new, directed), NoWayIsLost(E, new, directed, v),
         NEW F, F = (E \ Incident(E, v)) \cup new
  PROVE  Kept(orig, directed, F, k, R \cup {v})
<1> DEFINE rest == E \ Incident(E, v)
<1>1. /\ rest \in SUBSET Edge /\ rest \subseteq E
      /\ \A e \in rest : e.from # v /\ e.to # v
      /\ \A e \in E : e.from # v /\ e.to # v => e \in rest
  BY DEF Incident
<1> HIDE DEF rest
<1>2. ArcsIn(F, directed) = ArcsIn(rest, directed) \cup ArcsIn(new, directed)
  BY ArcsOfUnion DEF rest
<1>3. /\ ArcsIn(rest, directed) \subseteq ArcsIn(E, directed)
      /\ \A a \in ArcsIn(E, directed) : a.from # v /\ a.to # v => a \in ArcsIn(rest, directed)
  BY <1>1 DEF ArcsIn
<1>4. /\ \A e \in E : e.from \notin R /\ e.to \notin R /\ e.contracted \subseteq R
      /\ \A e \in E : e.contracted = {} => e \in orig
      /\ \A D \in Prices : Respects(ArcsIn(orig, directed), D) => Respects(ArcsIn(E, directed), D)
      /\ \A D \in Prices : Respects(ArcsIn(E, directed), D) =>
           \E C \in Prices : /\ Respects(ArcsIn(orig, directed), C)
                             /\ \A x \in Vertex \ R : C[x] = D[x]
  BY DEF Kept
<1>5. \A e \in F : /\ e.from \notin R \cup {v} /\ e.to \notin R \cup {v}
                   /\ e.contracted \subseteq R \cup {v}
                   /\ e.contracted = {} => e \in orig
  BY <1>1, <1>4 DEF rest
<1>6. ASSUME NEW D \in Prices, Respects(ArcsIn(orig, directed), D)
      PROVE  Respects(ArcsIn(F, directed), D)
  <2>1. Respects(ArcsIn(E, directed), D) /\ Respects(ArcsIn(new, directed), D)
    BY <1>4, <1>6 DEF AreWorthIt
  <2>2. QED
    BY <2>1, <1>2, <1>3 DEF Respects
<1>7. ASSUME NEW D \in Prices, Respects(ArcsIn(F, directed), D)
      PROVE  \E C \in Prices : /\ Respects(ArcsIn(orig, directed), C)
                               /\ \A x \in Vertex \ (R \cup {v}) : C[x] = D[x]
  <2>1. Respects(ArcsIn(rest, directed), D) /\ Respects(ArcsIn(new, directed), D)
    BY <1>2, <1>7 DEF Respects
  <2> DEFINE A == ArcsIn(E, directed)
  <2>2. A \in SUBSET Arc
    BY ArcsOfEdges
  <2>3. \A a \in A : a.from # v /\ a.to # v => D[a.to] <= D[a.from] + a.cost
    BY <2>1, <1>3 DEF Respects
  <2>4. \A a, b \in A : a.to = v /\ a.from # v /\ b.from = v /\ b.to # v =>
                          D[b.to] <= D[a.from] + a.cost + b.cost
    BY <2>1 DEF NoWayIsLost
  <2> HIDE DEF A
  <2>5. PICK B \in Prices : Respects(A, B) /\ \A x \in Vertex \ {v} : B[x] = D[x]
    BY <2>2, <2>3, <2>4, PricedAgain, ZenonT(60)
  <2>6. PICK C \in Prices : /\ Respects(ArcsIn(orig, directed), C)
                            /\ \A x \in Vertex \ R : C[x] = B[x]
    BY <2>5, <1>4 DEF A
  <2>7. QED
    BY <2>5, <2>6
<1>8. QED
  BY <1>5, <1>6, <1>7 DEF Kept

\* Nothing was contracted yet.
LEMMA OriginalIsKept ==
  ASSUME NEW orig, NEW directed, NEW h, \A x \in Vertex : h[x] = {},
         \A e \in orig : e.contracted = {}
  PROVE  Kept(orig, directed, orig, h, {})
BY DEF Kept

----------------------------------------------------------------------------
\* From the first cycle on.
KInv == phase \notin {"called", "refused"} => Kept(Original, is_directed, edges, held, removed)

\* The rows of the request make edges of the graph.
LEMMA OriginalEdges ==
  ASSUME TypeOK
  PROVE  Original \in SUBSET Edge /\ \A e \in Original : e.id >= 0 /\ e.contracted = {}
<1>1. request \in RequestType /\ is_directed \in BOOLEAN
  BY StateTypes
<1>2. request.rows \in SUBSET Row
  BY <1>1 DEF RequestType
<1>3. QED
  BY <1>1, <1>2, EdgesOfRows DEF Original

\* An arc has an edge that is incident to both of its ends.
LEMMA ArcOfNeighbours ==
  ASSUME NEW E \in SUBSET Edge, NEW directed \in BOOLEAN, NEW a \in ArcsIn(E, directed)
  PROVE  /\ a.from \in Adjacent(E, a.to) /\ a.to \in Adjacent(E, a.from)
         /\ directed => /\ {e \in E : e.from = a.from} # {}
                        /\ a.from \in {e.from : e \in {d \in E : d.to = a.to}}
<1>1. PICK e \in EdgesBetween(E, directed, a.from, a.to) : TRUE
  BY ArcsOfEdges
<1>2. /\ e \in E
      /\ \/ e.from = a.from /\ e.to = a.to
         \/ ~ directed /\ e.from = a.to /\ e.to = a.from
  BY <1>1 DEF EdgesBetween
<1>3. QED
  BY <1>2 DEF Adjacent

\* A dead end lies on no way between other vertices.
LEMMA DeadEndDistances ==
  ASSUME IInv, KInv, ContractDeadEnd
  PROVE  KInv'
<1> DEFINE v == Min(worklist)
           U == Adjacent(edges, v)
<1>1. phase = "deadEnd" /\ worklist # {} /\ IsDeadEnd(edges, is_directed, v)
      /\ held' = MergeInto(v, U) /\ edges' = edges \ Incident(edges, v)
      /\ removed' = removed \cup {v} /\ request' = request
  BY DEF ContractDeadEnd
<1>2. TypeOK
  BY DEF IInv
<1>3. /\ is_directed \in BOOLEAN /\ edges \in SUBSET Edge /\ removed \in SUBSET Vertex
      /\ Original \in SUBSET Edge
  BY <1>2, StateTypes, OriginalEdges DEF TypeOK
<1>4. v \in Vertex
  <2>1. worklist \in SUBSET Vertex /\ worklist \in SUBSET Nat
    BY <1>2, VertexAssumption DEF TypeOK
  <2>2. QED
    BY <2>1, <1>1, MinOfNaturals
<1>5. Kept(Original, is_directed, edges, held, removed)
  BY <1>1 DEF KInv
<1>6. /\ \A x \in Vertex : held[x] \subseteq removed
      /\ \A e \in edges : e.from \notin removed /\ e.to \notin removed /\ e.contracted \subseteq removed
  BY <1>5 DEF Kept
<1>7. \/ Cardinality(U) = 1
      \/ is_directed /\ {e \in edges : e.to = v} # {} /\ {e \in edges : e.from = v} = {}
  BY <1>1 DEF IsDeadEnd
<1>8. v \notin removed
  <2>1. U # {} \/ {e \in edges : e.to = v} # {}
    BY <1>7, FS_EmptySet
  <2>2. QED
    BY <2>1, <1>6 DEF Adjacent
<1>9. \A x \in Vertex : held'[x] \subseteq removed \cup {v}
  <2>1. \A x : Along(edges, is_directed, x, v) \subseteq removed
    BY <1>6 DEF Along, EdgesBetween
  <2> HIDE DEF v, U
  <2>2. QED
    BY <2>1, <1>1, <1>4, <1>6 DEF MergeInto
<1>10. ASSUME NEW D \in Prices, NEW a \in ArcsIn(edges, is_directed), NEW b \in ArcsIn(edges, is_directed),
              a.to = v, a.from # v, b.from = v, b.to # v
       PROVE  D[b.to] <= D[a.from] + a.cost + b.cost
  <2> HIDE DEF v, U
  <2>1. a.from \in U /\ b.to \in U
    BY <1>3, <1>10, ArcOfNeighbours DEF U
  <2>2. ~ (is_directed /\ {e \in edges : e.from = v} = {})
    BY <1>3, <1>10, ArcOfNeighbours
  <2>3. Cardinality(U) = 1 /\ IsFiniteSet(U) /\ U \subseteq Vertex
    BY <2>2, <1>7, <1>3, <1>4, AdjacentVertices DEF U
  <2>4. PICK x : U = {x}
    BY <2>3, FS_Singleton
  <2>5. a.from = x /\ b.to = x /\ x \in Vertex
    BY <2>1, <2>3, <2>4
  <2>6. a.cost \in Nat /\ b.cost \in Nat
    <3>1. ArcsIn(edges, is_directed) \in SUBSET Arc
      BY <1>3, ArcsOfEdges, ZenonT(40)
    <3>2. QED
      BY <3>1 DEF Arc
  <2>7. D[x] \in Nat
    BY <2>5, InfAssumption DEF Prices
  <2>8. QED
    BY <2>5, <2>6, <2>7
<1> HIDE DEF v, U
<1>11. Kept(Original, is_directed, edges', held', removed \cup {v})
  <2>1. edges' = (edges \ Incident(edges, v)) \cup {}
    BY <1>1
  <2>2. ArcsIn({}, is_directed) = {}
    BY DEF ArcsIn
  <2>3. \A D \in Prices : Respects(ArcsIn({}, is_directed), D)
    BY <2>2 DEF Respects
  <2>4. \A D \in Prices : Respects(ArcsIn({}, is_directed), D) =>
          \A a, b \in ArcsIn(edges, is_directed) :
            a.to = v /\ a.from # v /\ b.from = v /\ b.to # v => D[b.to] <= D[a.from] + a.cost + b.cost
    BY <1>10
  <2> DEFINE F == edges'
             k == held'
             none == {}
  <2>5. /\ F = (edges \ Incident(edges, v)) \cup none /\ \A x \in Vertex : k[x] \subseteq removed \cup {v}
        /\ none \in SUBSET Edge
        /\ AreWorthIt(edges, none, is_directed) /\ NoWayIsLost(edges, none, is_directed, v)
        /\ \A e \in none : /\ e.from \notin removed \cup {v} /\ e.to \notin removed \cup {v}
                        /\ e.contracted # {} /\ e.contracted \subseteq removed \cup {v}
    BY <2>1, <2>3, <2>4, <1>9 DEF AreWorthIt, NoWayIsLost
  <2> HIDE DEF F, k, none
  <2>6. Kept(Original, is_directed, F, k, removed \cup {v})
    BY <2>5, <1>3, <1>4, <1>5, <1>8, ReplacedIsKept
  <2>7. QED
    BY <2>6 DEF F, k
<1>12. QED
  <2>1. Original' = Original /\ is_directed' = is_directed
    BY <1>1 DEF Original, is_directed
  <2>2. QED
    BY <2>1, <1>1, <1>11 DEF KInv

Bypass(E, directed, u, v, w) == MinCost(E, directed, u, v) + MinCost(E, directed, v, w)

\* The edge e takes the place of the way from u over v to w.
TakesPlace(e, E, directed, h, u, v, w) ==
  /\ HasUVW(E, directed, u, v, w)
  /\ e.from = u /\ e.to = w /\ e.cost = Bypass(E, directed, u, v, w)
  /\ e.contracted = {v} \cup h[v] \cup Along(E, directed, u, v) \cup Along(E, directed, v, w)

\* What the shortcuts around v are, and when they are there.
LEMMA ShortcutsBothWays ==
  ASSUME NEW E, NEW directed \in BOOLEAN, NEW h, NEW n, NEW u, NEW v, NEW w,
         NEW new, new = ShortcutsAround(E, directed, h, n, u, v, w)
  PROVE  /\ \A e \in new : \/ TakesPlace(e, E, directed, h, u, v, w)
                           \/ directed /\ TakesPlace(e, E, directed, h, w, v, u)
         /\ HasUVW(E, directed, u, v, w) => \E e \in new : TakesPlace(e, E, directed, h, u, v, w)
         /\ directed /\ HasUVW(E, directed, w, v, u) =>
              \E e \in new : TakesPlace(e, E, directed, h, w, v, u)
<1> DEFINE s == Shortcut(E, directed, h, -(n + 1), u, v, w)
           there == IF HasUVW(E, directed, u, v, w) THEN {s} ELSE {}
           next  == n + Cardinality(there) + 1
           t == Shortcut(E, directed, h, -next, w, v, u)
           back  == IF directed /\ HasUVW(E, directed, w, v, u) THEN {t} ELSE {}
<1>1. new = there \cup back
  BY DEF ShortcutsAround
<1>2. HasUVW(E, directed, u, v, w) => TakesPlace(s, E, directed, h, u, v, w)
  BY DEF Shortcut, TakesPlace, Bypass
<1> HIDE DEF s
<1>3. HasUVW(E, directed, w, v, u) => TakesPlace(t, E, directed, h, w, v, u)
  <2> HIDE DEF next
  <2>1. QED
    BY DEF Shortcut, TakesPlace, Bypass
<1> HIDE DEF t
<1>4. QED
  BY <1>1, <1>2, <1>3

\* The way through a linear vertex is a shortcut, in every direction it can be
\* travelled in.
LEMMA LinearDistances ==
  ASSUME IInv, KInv, phase = "linear", NEW v \in Vertex, NEW stack,
         OneCycle(v, stack), UNCHANGED <<request, phase>>
  PROVE  KInv'
<1> DEFINE u   == Min(Adjacent(edges, v))
           w   == Max(Adjacent(edges, v))
           new == ShortcutsAround(edges, is_directed, held, created, u, v, w)
           total(x, y) == Bypass(edges, is_directed, x, v, y)
<1>1. /\ IsContractible(edges, v)
      /\ edges' = (edges \ Incident(edges, v)) \cup new
      /\ held' = [held EXCEPT ![v] = {}]
      /\ removed' = removed \cup {v}
  BY DEF OneCycle
<1>2. TypeOK
  BY DEF IInv
<1>3. /\ is_directed \in BOOLEAN /\ edges \in SUBSET Edge /\ removed \in SUBSET Vertex
      /\ Original \in SUBSET Edge /\ created \in Nat /\ held \in [Vertex -> SUBSET Vertex]
  BY <1>2, StateTypes, OriginalEdges DEF TypeOK
<1>4. /\ Adjacent(edges, v) = {u, w}
      /\ u \in Vertex /\ w \in Vertex
      /\ u # v /\ w # v
  <2>1. IsLinear(edges, is_directed, v)
    BY <1>1 DEF IsContractible
  <2>2. QED
    BY <2>1, <1>3, NeighboursOfLinear
<1>5. Kept(Original, is_directed, edges, held, removed)
  BY DEF KInv
<1>6. /\ \A x \in Vertex : held[x] \subseteq removed
      /\ \A e \in edges : e.from \notin removed /\ e.to \notin removed /\ e.contracted \subseteq removed
  BY <1>5 DEF Kept
<1> HIDE DEF u, w
<1>7. v \notin removed /\ u \notin removed /\ w \notin removed
  BY <1>4, <1>6 DEF Adjacent
<1>8. /\ \A e \in new : \/ TakesPlace(e, edges, is_directed, held, u, v, w)
                        \/ is_directed /\ TakesPlace(e, edges, is_directed, held, w, v, u)
      /\ HasUVW(edges, is_directed, u, v, w) =>
           \E e \in new : TakesPlace(e, edges, is_directed, held, u, v, w)
      /\ is_directed /\ HasUVW(edges, is_directed, w, v, u) =>
           \E e \in new : TakesPlace(e, edges, is_directed, held, w, v, u)
  <2> HIDE DEF new
  <2>1. new = ShortcutsAround(edges, is_directed, held, created, u, v, w)
    BY DEF new
  <2>2. QED
    BY <2>1, <1>3, ShortcutsBothWays
<1>9. new \in SUBSET Edge
  <2>1. \A e \in new : e \in Edge
    BY <1>3, <1>4, ShortcutsOfLinear DEF Replaces
  <2>2. QED
    BY <2>1
<1> HIDE DEF new
<1>10. \A e \in new : /\ e.from \notin removed \cup {v} /\ e.to \notin removed \cup {v}
                       /\ e.contracted # {} /\ e.contracted \subseteq removed \cup {v}
  <2>1. \A x, y : Along(edges, is_directed, x, y) \subseteq removed
    BY <1>6 DEF Along, EdgesBetween
  <2>2. held[v] \subseteq removed
    BY <1>6
  <2>3. QED
    BY <2>1, <2>2, <1>4, <1>7, <1>8 DEF TakesPlace
<1>11. \A x \in Vertex : held'[x] \subseteq removed \cup {v}
  BY <1>1, <1>3, <1>6
<1>12. ASSUME NEW D \in Prices, Respects(ArcsIn(edges, is_directed), D)
       PROVE  Respects(ArcsIn(new, is_directed), D)
  <2>1. ASSUME NEW x \in Vertex, NEW y \in Vertex, HasUVW(edges, is_directed, x, v, y)
        PROVE  /\ D[y] <= D[x] + total(x, y)
               /\ ~ is_directed => D[x] <= D[y] + total(x, y)
    <3>1. D[y] <= D[x] + total(x, y)
      BY <2>1, <1>3, <1>12, ShortcutIsWorthIt DEF Bypass
    <3>2. ASSUME ~ is_directed PROVE D[x] <= D[y] + total(x, y)
      <4>1. is_directed = FALSE
        BY <3>2, <1>3
      <4>2. /\ HasUVW(edges, is_directed, y, v, x)
            /\ MinCost(edges, is_directed, x, v) = MinCost(edges, is_directed, v, x)
            /\ MinCost(edges, is_directed, v, y) = MinCost(edges, is_directed, y, v)
        BY <4>1, <2>1, UndirectedBothWays
      <4>3. D[x] <= D[y] + (MinCost(edges, is_directed, y, v) + MinCost(edges, is_directed, v, x))
        BY <4>2, <1>3, <1>12, ShortcutIsWorthIt
      <4>4. MinCost(edges, is_directed, y, v) \in Nat /\ MinCost(edges, is_directed, v, x) \in Nat
        BY <4>2, <1>3, CheapestEdge DEF HasUVW
      <4>5. total(x, y) = MinCost(edges, is_directed, y, v) + MinCost(edges, is_directed, v, x)
        BY <4>2, <4>4 DEF Bypass
      <4>6. QED
        BY <4>3, <4>5
    <3>3. QED
      BY <3>1, <3>2
  <2>2. ASSUME NEW a \in ArcsIn(new, is_directed) PROVE D[a.to] <= D[a.from] + a.cost
    <3>1. PICK e \in EdgesBetween(new, is_directed, a.from, a.to) : e.cost = a.cost
      BY <1>3, <1>9, ArcsOfEdges
    <3>2. e \in new /\ \/ e.from = a.from /\ e.to = a.to
                       \/ ~ is_directed /\ e.from = a.to /\ e.to = a.from
      BY <3>1 DEF EdgesBetween
    <3>3. \E x, y \in Vertex : /\ HasUVW(edges, is_directed, x, v, y)
                               /\ e.from = x /\ e.to = y /\ e.cost = total(x, y)
      BY <3>2, <1>4, <1>8 DEF TakesPlace
    <3>4. QED
      BY <3>1, <3>2, <3>3, <2>1
  <2>3. QED
    BY <2>2 DEF Respects
<1>13. ASSUME NEW D \in Prices, Respects(ArcsIn(new, is_directed), D),
              NEW a \in ArcsIn(edges, is_directed), NEW b \in ArcsIn(edges, is_directed),
              a.to = v, a.from # v, b.from = v, b.to # v
       PROVE  D[b.to] <= D[a.from] + a.cost + b.cost
  <2> DEFINE x == a.from
             y == b.to
  <2>1. x \in {u, w} /\ y \in {u, w}
    <3>1. x \in Adjacent(edges, v) /\ y \in Adjacent(edges, v)
      BY <1>3, <1>13, ArcOfNeighbours
    <3>2. QED
      BY <3>1, <1>4
  <2>2. a.cost \in Nat /\ b.cost \in Nat
    <3>1. ArcsIn(edges, is_directed) \in SUBSET Arc
      BY <1>3, ArcsOfEdges
    <3>2. a \in Arc /\ b \in Arc
      BY <3>1
    <3>3. QED
      BY <3>2 DEF Arc
  <2>3. D[x] \in Nat /\ D[y] \in Nat
    BY <2>1, <1>4, InfAssumption DEF Prices
  <2>4. /\ \E e \in EdgesBetween(edges, is_directed, x, v) : e.cost = a.cost
        /\ \E e \in EdgesBetween(edges, is_directed, v, y) : e.cost = b.cost
    BY <1>3, <1>13, ArcsOfEdges
  <2> HIDE DEF x, y
  <2>5. /\ HasUVW(edges, is_directed, x, v, y)
        /\ MinCost(edges, is_directed, x, v) \in Nat /\ MinCost(edges, is_directed, x, v) <= a.cost
        /\ MinCost(edges, is_directed, v, y) \in Nat /\ MinCost(edges, is_directed, v, y) <= b.cost
    <3>1. HasUVW(edges, is_directed, x, v, y)
      BY <2>4 DEF HasUVW
    <3>2. QED
      BY <3>1, <2>4, <1>3, CheapestEdge DEF HasUVW
  <2>6. total(x, y) \in Nat /\ total(x, y) <= a.cost + b.cost
    BY <2>2, <2>5 DEF Bypass
  <2>7. x = y \/ D[y] <= D[x] + total(x, y)
    <3>1. \A s, t : \A e \in EdgesBetween(new, is_directed, s, t) : D[t] <= D[s] + e.cost
      <4>1. \A s, t : \A e \in EdgesBetween(new, is_directed, s, t) :
              \E d \in ArcsIn(new, is_directed) : d.from = s /\ d.to = t /\ d.cost = e.cost
        BY <1>3, <1>9, ArcsOfEdges
      <4>2. QED
        BY <4>1, <1>13 DEF Respects
    <3>3. CASE x = u /\ y = w
      <4>1. \E e \in new : e.from = u /\ e.to = w /\ e.cost = total(u, w)
        BY <1>8, <2>5, <3>3 DEF TakesPlace
      <4> HIDE DEF total
      <4>2. QED
        BY <4>1, <3>1, <3>3 DEF EdgesBetween
    <3>4. CASE x = w /\ y = u /\ is_directed
      <4>1. \E e \in new : e.from = w /\ e.to = u /\ e.cost = total(w, u)
        BY <1>8, <2>5, <3>4 DEF TakesPlace
      <4> HIDE DEF total
      <4>2. QED
        BY <4>1, <3>1, <3>4 DEF EdgesBetween
    <3>5. CASE x = w /\ y = u /\ ~ is_directed
      <4>1. is_directed = FALSE
        BY <3>5, <1>3
      <4>2. /\ HasUVW(edges, is_directed, u, v, w)
            /\ MinCost(edges, is_directed, x, v) = MinCost(edges, is_directed, v, x)
            /\ MinCost(edges, is_directed, v, y) = MinCost(edges, is_directed, y, v)
        BY <4>1, <2>5, <3>5, UndirectedBothWays
      <4>3. total(y, x) = total(x, y)
        BY <4>2, <2>5 DEF Bypass
      <4>4. \E e \in new : e.from = u /\ e.to = w /\ e.cost = total(u, w)
        BY <1>8, <4>2 DEF TakesPlace
      <4> HIDE DEF total
      <4>5. \E e \in EdgesBetween(new, is_directed, x, y) : e.cost = total(y, x)
        BY <4>4, <3>5 DEF EdgesBetween
      <4>6. QED
        BY <4>3, <4>5, <3>1
    <3>6. QED
      BY <3>3, <3>4, <3>5, <2>1
  <2> HIDE DEF total
  <2>8. D[y] <= D[x] + a.cost + b.cost
    BY <2>2, <2>3, <2>6, <2>7
  <2>9. QED
    BY <2>8 DEF x, y
<1>14. Kept(Original, is_directed, edges', held', removed \cup {v})
  <2> DEFINE F == edges'
             k == held'
  <2>1. /\ F = (edges \ Incident(edges, v)) \cup new /\ \A x \in Vertex : k[x] \subseteq removed \cup {v}
        /\ AreWorthIt(edges, new, is_directed) /\ NoWayIsLost(edges, new, is_directed, v)
    BY <1>1, <1>11, <1>12, <1>13 DEF AreWorthIt, NoWayIsLost
  <2> HIDE DEF F, k
  <2>2. Kept(Original, is_directed, F, k, removed \cup {v})
    BY <2>1, <1>3, <1>5, <1>7, <1>9, <1>10, ReplacedIsKept
  <2>3. QED
    BY <2>2 DEF F, k
<1>15. QED
  <2>1. Original' = Original /\ is_directed' = is_directed
    BY DEF Original, is_directed
  <2>2. QED
    BY <2>1, <1>1, <1>14 DEF KInv

\* No graph was built yet.
LEMMA InitKInv == Init => KInv
BY DEF Init, KInv

\* The two ways to contract a vertex keep the prices; nothing else touches the graph.
LEMMA NextKInv == IInv /\ KInv /\ Fresh /\ [Next]_vars => KInv'
<1> SUFFICES ASSUME IInv, KInv, Fresh, [Next]_vars PROVE KInv'
  OBVIOUS
<1>1. TypeOK
  BY DEF IInv
<1>2. CASE UNCHANGED <<request, graphVars>> /\ (phase' \in {"called", "refused"} \/ phase \notin {"called", "refused"})
  BY <1>2 DEF KInv, Original, is_directed, graphVars
<1>3. CASE ContractDeadEnd
  BY <1>3, DeadEndDistances
<1>4. CASE ContractLinear
  <2>1. /\ phase = "linear" /\ worklist # {} /\ OneCycle(Min(worklist), <<>>)
        /\ UNCHANGED <<request, phase>>
    BY <1>4 DEF ContractLinear
  <2>2. Min(worklist) \in Vertex
    BY <2>1, <1>1, VertexAssumption, MinOfNaturals DEF TypeOK
  <2>3. QED
    BY <2>1, <2>2, LinearDistances
<1>5. CASE Recurse
  <2>1. /\ phase = "linear" /\ pending # <<>> /\ OneCycle(Head(pending), Tail(pending))
        /\ UNCHANGED <<request, phase>>
    BY <1>5 DEF Recurse
  <2>2. Head(pending) \in Vertex
    BY <2>1, <1>1, RangeOfPop DEF TypeOK
  <2>3. QED
    BY <2>1, <2>2, LinearDistances
<1>6. CASE pgr_contraction
  <2>1. /\ phase = "called" /\ edges' = Original /\ UNCHANGED <<request, held, removed>>
    BY <1>6 DEF pgr_contraction, graphVars, Original
  <2>2. removed' = {} /\ \A x \in Vertex : held'[x] = {}
    BY <2>1 DEF Fresh
  <2>3. \A e \in Original : e.contracted = {}
    BY <1>1, OriginalEdges
  <2> DEFINE k == held'
  <2>4. \A x \in Vertex : k[x] = {}
    BY <2>2
  <2> HIDE DEF k
  <2>5. Kept(Original, is_directed, Original, k, {})
    BY <2>3, <2>4, OriginalIsKept
  <2>6. Original' = Original /\ is_directed' = is_directed
    BY <2>1 DEF Original, is_directed
  <2>7. QED
    BY <2>1, <2>2, <2>5, <2>6 DEF KInv, k
<1>7. QED
  BY <1>2, <1>3, <1>4, <1>5, <1>6
  DEF Next, Refuse, NextCycle, perform_deadEnd, perform_linear, Skip, EndMethod, Return, Done,
      vars, graphVars

\* What is returned is the graph that is left.
AnswerInv ==
  phase = "returned" =>
    answer = [vertices |-> {[id |-> v, contracted |-> held[v]] : v \in get_modified_vertices},
              edges |-> {[e EXCEPT !.id = -Cardinality({d \in get_shortcuts : d.id >= e.id})] :
                           e \in get_shortcuts}]

\* Return copies it, and nothing happens after.
LEMMA AnswerIsLeft == (Init => AnswerInv) /\ (AnswerInv /\ [Next]_vars => AnswerInv')
<1>1. Init => AnswerInv
  BY DEF Init, AnswerInv
<1>2. ASSUME AnswerInv, [Next]_vars, phase' = "returned"
      PROVE  AnswerInv'
  <2>1. \/ Return
        \/ UNCHANGED <<phase, answer, held, edges>>
    BY <1>2 DEF Next, Refuse, pgr_contraction, NextCycle, perform_deadEnd, ContractDeadEnd,
                perform_linear, ContractLinear, Recurse, Skip, EndMethod, Done, vars, OneCycle
  <2>2. CASE Return
    BY <2>2 DEF Return, graphVars, AnswerInv, get_modified_vertices, get_shortcuts
  <2>3. CASE UNCHANGED <<phase, answer, held, edges>>
    BY <2>3, <1>2 DEF AnswerInv, get_modified_vertices, get_shortcuts
  <2>4. QED
    BY <2>1, <2>2, <2>3
<1>3. QED
  BY <1>1, <1>2 DEF AnswerInv

\* Edges that others stand for ask for nothing more.
LEMMA StandingIn ==
  ASSUME NEW E \in SUBSET Edge, NEW F \in SUBSET Edge, NEW directed \in BOOLEAN,
         \A e \in E : \E f \in F : f.from = e.from /\ f.to = e.to /\ f.cost = e.cost,
         NEW D, Respects(ArcsIn(F, directed), D)
  PROVE  Respects(ArcsIn(E, directed), D)
<1>1. ASSUME NEW a \in ArcsIn(E, directed) PROVE D[a.to] <= D[a.from] + a.cost
  <2>1. PICK e \in EdgesBetween(E, directed, a.from, a.to) : e.cost = a.cost
    BY ArcsOfEdges
  <2>2. \E f \in EdgesBetween(F, directed, a.from, a.to) : f.cost = a.cost
    BY <2>1 DEF EdgesBetween
  <2>3. \E b \in ArcsIn(F, directed) : b.from = a.from /\ b.to = a.to /\ b.cost = a.cost
    BY <2>2, ArcsOfEdges
  <2>4. QED
    BY <2>3 DEF Respects
<1>2. QED
  BY <1>1 DEF Respects

\* Prices that start at nothing are distances at most, and distances are prices.
LEMMA PricesAndDistances ==
  ASSUME NEW A \in SUBSET Arc, NEW x \in Vertex
  PROVE  /\ \A D \in Prices : D[x] = 0 /\ Respects(A, D) =>
              \A y \in Vertex : D[y] <= Distance(A, x, y)
         /\ \E D \in Prices : /\ D[x] = 0 /\ Respects(A, D)
                              /\ \A y \in Vertex : D[y] = Distance(A, x, y)
<1>1. PICK G : IsGreatest(A, x, G)
  BY GreatestExists
<1>2. \A y \in Vertex : Distance(A, x, y) = G[y]
  BY <1>1, DistanceIsGreatest
<1>3. QED
  BY <1>1, <1>2 DEF IsGreatest, Potential, Prices, Respects

\* What was not contracted is as far apart as ever.
LEMMA DistancesAgree ==
  ASSUME NEW A \in SUBSET Arc, NEW B \in SUBSET Arc, NEW R,
         \A D \in Prices : Respects(A, D) => Respects(B, D),
         \A D \in Prices : Respects(B, D) =>
           \E C \in Prices : Respects(A, C) /\ \A x \in Vertex \ R : C[x] = D[x],
         NEW x \in Vertex \ R, NEW y \in Vertex \ R
  PROVE  Distance(A, x, y) = Distance(B, x, y)
<1>1. PICK D \in Prices : /\ D[x] = 0 /\ Respects(A, D) /\ D[y] = Distance(A, x, y)
  BY PricesAndDistances
<1>2. Distance(A, x, y) <= Distance(B, x, y)
  BY <1>1, PricesAndDistances
<1>3. PICK E \in Prices : /\ E[x] = 0 /\ Respects(B, E) /\ E[y] = Distance(B, x, y)
  BY PricesAndDistances
<1>4. PICK C \in Prices : Respects(A, C) /\ C[x] = 0 /\ C[y] = E[y]
  BY <1>3
<1>5. Distance(B, x, y) <= Distance(A, x, y)
  BY <1>3, <1>4, PricesAndDistances
<1>6. Distance(A, x, y) \in Nat /\ Distance(B, x, y) \in Nat
  <2>1. Distance(A, x, y) \in 0..INF /\ Distance(B, x, y) \in 0..INF
    BY DistanceFacts
  <2>2. QED
    BY <2>1, InfAssumption
<1>7. QED
  BY <1>2, <1>5, <1>6

\* pgr_contraction keeps distances: between vertices that were not contracted the rows
\* that are returned, with the edges beside them, give the distances of the original
\* graph (deadEndContraction.hpp:68-110, linearContraction.hpp:84-160,
\* contractionGraph.hpp:224-262).
THEOREM DistancesStay == Spec => []DistancesKept
<1>1. ASSUME IInv, KInv, AnswerInv PROVE DistancesKept
  <2> SUFFICES ASSUME phase = "returned" PROVE DistancesKept
    BY DEF DistancesKept
  <2> DEFINE before == ArcsIn(Original, is_directed)
             after  == ArcsIn(ContractedGraph, is_directed)
             number(e) == -Cardinality({d \in get_shortcuts : d.id >= e.id})
             kept == {e \in Original : e.from \notin Named /\ e.to \notin Named}
  <2>1. TypeOK /\ IsFiniteSet(get_shortcuts) /\ MarksShortcuts
    BY <1>1 DEF IInv
  <2>2. /\ is_directed \in BOOLEAN /\ edges \in SUBSET Edge /\ Original \in SUBSET Edge
        /\ held \in [Vertex -> SUBSET Vertex]
    BY <2>1, StateTypes, OriginalEdges DEF TypeOK
  <2>3. Kept(Original, is_directed, edges, held, removed)
    BY <1>1 DEF KInv
  <2>4. /\ \A x \in Vertex : held[x] \subseteq removed
        /\ \A e \in edges : e.from \notin removed /\ e.to \notin removed /\ e.contracted \subseteq removed
        /\ \A e \in edges : e.contracted = {} => e \in Original
        /\ \A D \in Prices : Respects(before, D) => Respects(ArcsIn(edges, is_directed), D)
        /\ \A D \in Prices : Respects(ArcsIn(edges, is_directed), D) =>
             \E C \in Prices : Respects(before, C) /\ \A x \in Vertex \ removed : C[x] = D[x]
    BY <2>3 DEF Kept
  <2>5. answer.vertices = {[id |-> v, contracted |-> held[v]] : v \in get_modified_vertices}
        /\ answer.edges = {[e EXCEPT !.id = number(e)] : e \in get_shortcuts}
    <3> DEFINE V == {[id |-> v, contracted |-> held[v]] : v \in get_modified_vertices}
               E == {[e EXCEPT !.id = number(e)] : e \in get_shortcuts}
    <3>1. answer = [vertices |-> V, edges |-> E]
      BY <1>1 DEF AnswerInv
    <3> HIDE DEF V, E
    <3>2. answer.vertices = V /\ answer.edges = E
      BY <3>1
    <3>3. QED
      BY <3>2 DEF V, E
  <2>6. \A e \in edges : number(e) \in Int
    <3>1. ASSUME NEW e \in edges PROVE Cardinality({d \in get_shortcuts : d.id >= e.id}) \in Nat
      <4> DEFINE S == {d \in get_shortcuts : d.id >= e.id}
      <4>1. IsFiniteSet(S)
        BY <2>1, FS_Subset
      <4> HIDE DEF S
      <4>2. Cardinality(S) \in Nat
        BY <4>1, FS_CardinalityType
      <4>3. QED
        BY <4>2 DEF S
    <3>2. QED
      BY <3>1
  <2> HIDE DEF number
  <2>7. \A e \in edges : LET f == [e EXCEPT !.id = number(e)]
                         IN  /\ f \in Edge /\ f.from = e.from /\ f.to = e.to
                             /\ f.cost = e.cost /\ f.contracted = e.contracted
    BY <2>2, <2>6 DEF Edge
  <2>8. /\ answer.edges \in SUBSET Edge
        /\ \A f \in answer.edges : \E e \in edges : /\ f.from = e.from /\ f.to = e.to
                                                   /\ f.cost = e.cost /\ f.contracted = e.contracted
        /\ \A e \in get_shortcuts : \E f \in answer.edges : /\ f.from = e.from /\ f.to = e.to
                                                           /\ f.cost = e.cost
    BY <2>5, <2>7 DEF get_shortcuts
  <2>9. Named \subseteq removed
    <3>1. \A r \in answer.vertices : r.contracted \subseteq removed
      BY <2>4, <2>5 DEF get_modified_vertices
    <3>2. \A r \in answer.edges : r.contracted \subseteq removed
      BY <2>4, <2>8
    <3>3. QED
      BY <3>1, <3>2 DEF Named
  <2>10. ContractedGraph = kept \cup answer.edges /\ kept \subseteq Original
    BY DEF ContractedGraph, Original
  <2>11. ContractedGraph \in SUBSET Edge
    BY <2>2, <2>8, <2>10
  <2>12. ASSUME NEW D \in Prices, Respects(before, D) PROVE Respects(after, D)
    <3>1. Respects(ArcsIn(edges, is_directed), D)
      BY <2>4, <2>12
    <3>2. Original \cup edges \in SUBSET Edge
      BY <2>2
    <3>3. ArcsIn(Original \cup edges, is_directed) = before \cup ArcsIn(edges, is_directed)
      BY <2>2, ArcsOfUnion
    <3>4. Respects(ArcsIn(Original \cup edges, is_directed), D)
      BY <3>1, <3>3, <2>12 DEF Respects
    <3>5. \A e \in ContractedGraph : \E f \in Original \cup edges :
            f.from = e.from /\ f.to = e.to /\ f.cost = e.cost
      BY <2>8, <2>10
    <3>6. QED
      BY <2>2, <2>11, <3>2, <3>4, <3>5, StandingIn
  <2>13. ASSUME NEW D \in Prices, Respects(after, D)
         PROVE  \E C \in Prices : Respects(before, C) /\ \A x \in Vertex \ removed : C[x] = D[x]
    <3>1. ASSUME NEW e \in edges
          PROVE  \E f \in ContractedGraph : f.from = e.from /\ f.to = e.to /\ f.cost = e.cost
      <4>1. CASE e.id < 0
        BY <4>1, <2>8, <2>10 DEF get_shortcuts
      <4>2. CASE ~ (e.id < 0)
        <5>1. e \in Original
          BY <4>2, <2>1, <2>4 DEF MarksShortcuts
        <5>2. e \in kept
          BY <5>1, <2>4, <2>9
        <5>3. QED
          BY <5>2, <2>10
      <4>3. QED
        BY <4>1, <4>2
    <3>2. Respects(ArcsIn(edges, is_directed), D)
      BY <3>1, <2>2, <2>11, <2>13, StandingIn
    <3>3. QED
      BY <3>2, <2>4
  <2>14. before \in SUBSET Arc /\ after \in SUBSET Arc
    BY <2>2, <2>11, ArcsOfEdges
  <2> HIDE DEF before, after
  <2>15. \A x, y \in Vertex \ removed : Distance(before, x, y) = Distance(after, x, y)
    BY <2>12, <2>13, <2>14, DistancesAgree
  <2>16. QED
    BY <2>15 DEF DistancesKept, Distance, before, after, Original
<1>2. QED
  BY <1>1, ContractionInvariant, InitKInv, NextKInv, FreshInv, AnswerIsLeft, PTL DEF Spec

----------------------------------------------------------------------------
(***************************************************************************)
(* Contraction hierarchies: what a contraction, simulated or not, makes of *)
(* the copy.                                                               *)
(***************************************************************************)
\* What a loop over one value leaves is that value's.
LEMMA OnlyOne ==
  ASSUME NEW x
  PROVE  The({x}) = x
BY DEF The

\* g is E with shortcuts past v, numbered from n on, that are worth the edges of E.
Grown(E, directed, n, v, g) ==
  /\ g.new \in SUBSET Edge /\ IsFiniteSet(g.new) /\ g.edges = E \cup g.new
  /\ g.created \in Nat /\ g.created = n + Cardinality(g.new)
  /\ \A e \in g.new : /\ e.id < -n /\ e.id >= -g.created /\ e.contracted # {}
                      /\ e.from \in VerticesIn(E) \ {v} /\ e.to \in VerticesIn(E) \ {v}
  /\ AreWorthIt(E, g.new, directed)

\* One edge more, which no other is like.
LEMMA OneEdgeMore ==
  ASSUME NEW S, IsFiniteSet(S), NEW s, s \notin S
  PROVE  IsFiniteSet(S \cup {s}) /\ Cardinality(S \cup {s}) = Cardinality(S) + 1
         /\ Cardinality(S) \in Nat
BY FS_AddElement, FS_CardinalityType

\* Edges that are worth others, and edges that are worth both, are worth them together.
LEMMA WorthOfTwo ==
  ASSUME NEW E, NEW N, NEW M, NEW s, NEW directed \in BOOLEAN,
         AreWorthIt(E, N, directed), AreWorthIt(E \cup N, {s}, directed), M = N \cup {s}
  PROVE  AreWorthIt(E, M, directed)
<1>1. /\ ArcsIn(E \cup N, directed) = ArcsIn(E, directed) \cup ArcsIn(N, directed)
      /\ ArcsIn(M, directed) = ArcsIn(N, directed) \cup ArcsIn({s}, directed)
  BY ArcsOfUnion
<1>2. ASSUME NEW D \in Prices, Respects(ArcsIn(E, directed), D)
      PROVE  Respects(ArcsIn(M, directed), D)
  <2>1. Respects(ArcsIn(N, directed), D)
    BY <1>2 DEF AreWorthIt
  <2>2. Respects(ArcsIn(E \cup N, directed), D)
    BY <1>1, <1>2, <2>1 DEF Respects
  <2>3. Respects(ArcsIn({s}, directed), D)
    BY <2>2 DEF AreWorthIt
  <2>4. QED
    BY <1>1, <2>1, <2>3 DEF Respects
<1>3. QED
  BY <1>2 DEF AreWorthIt

\* A shortcut asks for what the edges it replaces ask for.
LEMMA ShortcutAsksForLess ==
  ASSUME NEW E \in SUBSET Edge, NEW directed \in BOOLEAN,
         NEW u \in Vertex, NEW v \in Vertex, NEW w \in Vertex, HasUVW(E, directed, u, v, w),
         NEW D \in Prices, Respects(ArcsIn(E, directed), D),
         NEW s, s.from = u, s.to = w,
         s.cost = MinCost(E, directed, u, v) + MinCost(E, directed, v, w)
  PROVE  Respects(ArcsIn({s}, directed), D)
<1>1. D[w] <= D[u] + s.cost
  BY ShortcutIsWorthIt
<1>2. ~ directed => D[u] <= D[w] + s.cost
  <2> SUFFICES ASSUME ~ directed PROVE D[u] <= D[w] + s.cost
    OBVIOUS
  <2>1. directed = FALSE
    OBVIOUS
  <2>2. HasUVW(E, FALSE, w, v, u)
    BY <2>1, UndirectedBothWays
  <2>3. D[u] <= D[w] + (MinCost(E, FALSE, w, v) + MinCost(E, FALSE, v, u))
    BY <2>1, <2>2, ShortcutIsWorthIt
  <2>4. /\ MinCost(E, FALSE, w, v) = MinCost(E, FALSE, v, w)
        /\ MinCost(E, FALSE, v, u) = MinCost(E, FALSE, u, v)
    BY UndirectedBothWays
  <2>5. /\ MinCost(E, FALSE, u, v) \in Nat /\ MinCost(E, FALSE, v, w) \in Nat
    BY <2>1, CheapestEdge DEF HasUVW
  <2>6. s.cost = MinCost(E, FALSE, w, v) + MinCost(E, FALSE, v, u)
    <3>1. s.cost = MinCost(E, FALSE, u, v) + MinCost(E, FALSE, v, w)
      BY <2>1
    <3>2. PICK a \in Nat, b \in Nat : a = MinCost(E, FALSE, u, v) /\ b = MinCost(E, FALSE, v, w)
      BY <2>5
    <3>3. s.cost = a + b
      BY ONLY <3>1, <3>2
    <3>4. a + b = b + a
      OBVIOUS
    <3>5. s.cost = b + a
      BY ONLY <3>3, <3>4
    <3>6. QED
      BY <3>2, <3>5, <2>4
  <2>7. QED
    BY <2>3, <2>6
<1>3. \A a \in ArcsIn({s}, directed) :
        \/ a.from = u /\ a.to = w /\ a.cost = s.cost
        \/ ~ directed /\ a.from = w /\ a.to = u /\ a.cost = s.cost
  BY DEF ArcsIn
<1>4. QED
  BY <1>1, <1>2, <1>3 DEF Respects

\* The neighbours on either side of v are vertices, with edges to it and from it.
LEMMA SidesOfVertex ==
  ASSUME NEW E \in SUBSET Edge, NEW directed \in BOOLEAN, NEW v,
         NEW u \in find_adjacent_in_vertices(E, directed, v),
         NEW w \in find_adjacent_out_vertices(E, directed, v)
  PROVE  u \in VerticesIn(E) /\ w \in VerticesIn(E) /\ HasUVW(E, directed, u, v, w)
<1>1. \E e \in E : \/ e.from = u /\ e.to = v
                   \/ ~ directed /\ e.from = v /\ e.to = u
  BY DEF find_adjacent_in_vertices, Adjacent
<1>2. \E e \in E : \/ e.from = v /\ e.to = w
                   \/ ~ directed /\ e.from = w /\ e.to = v
  BY DEF find_adjacent_out_vertices, Adjacent
<1>3. QED
  BY <1>1, <1>2 DEF VerticesIn, HasUVW, EdgesBetween

\* Edges end at vertices.
LEMMA EndsAreVertices ==
  ASSUME NEW E \in SUBSET Edge
  PROVE  VerticesIn(E) \in SUBSET Vertex
BY DEF VerticesIn, Edge

\* A shortcut more.
LEMMA ShortcutGrows ==
  ASSUME NEW E \in SUBSET Edge, NEW directed \in BOOLEAN, NEW n \in Nat, NEW v \in Vertex,
         NEW u \in VerticesIn(E), NEW w \in VerticesIn(E), HasUVW(E, directed, u, v, w),
         NEW g, Grown(E, directed, n, v, g)
  PROVE  Grown(E, directed, n, v, process_ch_shortcut(g, directed, u, v, w))
<1> DEFINE none == [x \in Vertex |-> {}]
           h == process_ch_shortcut(g, directed, u, v, w)
<1>1. CASE ~ IsShortcutPossible(g.edges, directed, u, v, w) \/ HasEdge(g.edges, directed, u, w)
  BY <1>1 DEF process_ch_shortcut
<1>2. CASE ~ (~ IsShortcutPossible(g.edges, directed, u, v, w) \/ HasEdge(g.edges, directed, u, w))
  <2>1. PICK s : s = Shortcut(g.edges, directed, none, -(g.created + 1), u, v, w)
    OBVIOUS
  <2>2. h = [edges |-> g.edges \cup {s}, created |-> g.created + 1, new |-> g.new \cup {s}]
    BY <1>2, <2>1 DEF process_ch_shortcut
  <2>3. h.edges = g.edges \cup {s} /\ h.created = g.created + 1 /\ h.new = g.new \cup {s}
    BY <2>2
  <2> HIDE DEF h
  <2>4. /\ g.new \in SUBSET Edge /\ IsFiniteSet(g.new) /\ g.edges = E \cup g.new
        /\ g.created \in Nat /\ g.created = n + Cardinality(g.new)
        /\ \A e \in g.new : /\ e.id < -n /\ e.id >= -g.created /\ e.contracted # {}
                            /\ e.from \in VerticesIn(E) \ {v} /\ e.to \in VerticesIn(E) \ {v}
        /\ AreWorthIt(E, g.new, directed)
    BY DEF Grown
  <2>5. g.edges \in SUBSET Edge /\ u \in Vertex /\ w \in Vertex
    BY <2>4, EndsAreVertices
  <2>6. HasUVW(g.edges, directed, u, v, w) /\ u # v /\ w # v
    BY <1>2, <2>4 DEF IsShortcutPossible, HasUVW, EdgesBetween
  <2>7. /\ s.id = -(g.created + 1) /\ s.from = u /\ s.to = w
        /\ s.cost = MinCost(g.edges, directed, u, v) + MinCost(g.edges, directed, v, w)
        /\ s.contracted = {v} \cup none[v] \cup Along(g.edges, directed, u, v)
                              \cup Along(g.edges, directed, v, w)
    BY <2>1 DEF Shortcut
  <2>8. MinCost(g.edges, directed, u, v) \in Nat /\ MinCost(g.edges, directed, v, w) \in Nat
    BY <2>5, <2>6, CheapestEdge DEF HasUVW
  <2>9. s.contracted \in SUBSET Vertex /\ s.contracted # {}
    <3>1. \A e \in g.edges : e.contracted \subseteq Vertex
      BY <2>5 DEF Edge
    <3>2. \A x, y : Along(g.edges, directed, x, y) \subseteq Vertex
      BY <3>1 DEF Along, EdgesBetween
    <3>3. none[v] = {}
      OBVIOUS
    <3>4. QED
      BY <2>7, <3>2, <3>3
  <2>10. s \in Edge
    <3>1. s = [id |-> -(g.created + 1), from |-> u, to |-> w,
               cost |-> MinCost(g.edges, directed, u, v) + MinCost(g.edges, directed, v, w),
               contracted |-> s.contracted]
      BY <2>1, <2>7 DEF Shortcut
    <3>2. -(g.created + 1) \in Int
      BY <2>4
    <3>3. QED
      BY <3>1, <3>2, <2>5, <2>8, <2>9 DEF Edge
  <2>11. s \notin g.new
    BY <2>4, <2>7
  <2>12. /\ IsFiniteSet(h.new) /\ Cardinality(h.new) = Cardinality(g.new) + 1
         /\ Cardinality(g.new) \in Nat
    BY <2>3, <2>4, <2>11, OneEdgeMore
  <2>13. AreWorthIt(E, h.new, directed)
    <3>1. ASSUME NEW D \in Prices, Respects(ArcsIn(E \cup g.new, directed), D)
          PROVE  Respects(ArcsIn({s}, directed), D)
      <4>1. Respects(ArcsIn(g.edges, directed), D)
        BY <2>4, <3>1
      <4>2. QED
        BY ONLY <4>1, <2>5, <2>6, <2>7, ShortcutAsksForLess, v \in Vertex, directed \in BOOLEAN, D \in Prices
    <3>2. AreWorthIt(E \cup g.new, {s}, directed)
      BY <3>1 DEF AreWorthIt
    <3>3. AreWorthIt(E, g.new, directed) /\ h.new = g.new \cup {s}
      BY <2>3, <2>4
    <3>4. QED
      BY ONLY <3>2, <3>3, WorthOfTwo, directed \in BOOLEAN
  <2>14. h.new \in SUBSET Edge /\ h.edges = E \cup h.new
    BY <2>3, <2>4, <2>10
  <2>15. h.created \in Nat /\ h.created = n + Cardinality(h.new)
    BY <2>3, <2>4, <2>12
  <2>16. \A e \in h.new : /\ e.id < -n /\ e.id >= -h.created /\ e.contracted # {}
                          /\ e.from \in VerticesIn(E) \ {v} /\ e.to \in VerticesIn(E) \ {v}
    <3>1. ASSUME NEW e \in g.new PROVE e.id >= -h.created
      <4>1. e.id \in Int /\ e.id >= -g.created
        BY <2>4 DEF Edge
      <4>2. QED
        BY <4>1, <2>3, <2>4
    <3>2. s.id < -n /\ s.id >= -h.created
      BY <2>3, <2>4, <2>7, <2>12
    <3>3. QED
      BY <3>1, <3>2, <2>3, <2>4, <2>6, <2>7, <2>9
  <2>17. QED
    BY <2>12, <2>13, <2>14, <2>15, <2>16 DEF Grown, h
<1>3. QED
  BY <1>1, <1>2

\* One neighbour w on the far side of v, as the loop of compute_shortcuts treats it.
DetourStep(directed, labels, u, v, w, g) ==
  The({IF IsDetour(k.edges, directed, labels, u, v, w)
       THEN process_ch_shortcut(k, directed, u, v, w) ELSE k : k \in {g}})

\* It adds a shortcut, or none.
LEMMA DetourStepIs ==
  ASSUME NEW directed, NEW labels, NEW u, NEW v, NEW w, NEW g
  PROVE  DetourStep(directed, labels, u, v, w, g) =
           IF IsDetour(g.edges, directed, labels, u, v, w)
           THEN process_ch_shortcut(g, directed, u, v, w) ELSE g
<1> DEFINE f(k) == IF IsDetour(k.edges, directed, labels, u, v, w)
                   THEN process_ch_shortcut(k, directed, u, v, w) ELSE k
<1>1. DetourStep(directed, labels, u, v, w, g) = The({f(k) : k \in {g}})
  BY DEF DetourStep
<1> HIDE DEF f
<1>2. {f(k) : k \in {g}} = {f(g)}
  OBVIOUS
<1>3. The({f(g)}) = f(g)
  BY OnlyOne
<1>4. QED
  BY <1>1, <1>2, <1>3 DEF f

\* The loop over the far side of v, about each round of which it is claimed that g has grown.
Detouring == INSTANCE Recursion WITH
  Start <- LAMBDA c : c.start, Pick <- LAMBDA c, S : Max(S),
  Step  <- LAMBDA c, w, g : DetourStep(c.directed, c.labels, c.u, c.v, w, g),
  Claim <- LAMBDA c, S, g : Grown(c.E, c.directed, c.n, c.v, g)

\* The loop is a recursion over the neighbours.
LEMMA DetoursAreFolded ==
  ASSUME NEW c, NEW out
  PROVE  DetoursOver(c.start, c.directed, c.labels, c.u, c.v, out) = Detouring!Folded(c, out)[out]
BY DEF DetoursOver, ForEach, MapThenFoldSet, DetourStep, Detouring!Folded, Detouring!IsFolded

\* R orders the elements of S.
Orders(R, S) ==
  /\ \A x, y \in S : <<x, y>> \in R \/ <<y, x>> \in R
  /\ \A x, y, z \in S : <<x, y>> \in R /\ <<y, z>> \in R => <<x, z>> \in R

HasFirst(R, S) == \E x \in S : \A y \in S : <<x, y>> \in R

\* A finite set that is ordered has a first element.
LEMMA FirstOfFinite ==
  ASSUME NEW R, NEW S, IsFiniteSet(S), S # {}, Orders(R, S)
  PROVE  HasFirst(R, S)
<1> DEFINE Lacks(X) == X # {} /\ IsFiniteSet(X) /\ ~ HasFirst(R, X)
           Bad == {k \in Nat : \E X \in SUBSET S : Lacks(X) /\ Cardinality(X) = k}
<1>1. ASSUME NEW X \in SUBSET S, Lacks(X)
      PROVE  \E Y \in SUBSET S : Lacks(Y) /\ Cardinality(Y) = Cardinality(X) - 1
  <2>1. PICK x \in X : TRUE
    BY <1>1
  <2> DEFINE Y == X \ {x}
  <2>2. IsFiniteSet(Y) /\ Cardinality(X) \in Nat /\ Cardinality(Y) = Cardinality(X) - 1
    BY <1>1, FS_RemoveElement, FS_CardinalityType
  <2>3. x \in S /\ <<x, x>> \in R
    BY DEF Orders
  <2>4. Y # {}
    <3>1. SUFFICES ASSUME Y = {} PROVE FALSE
      OBVIOUS
    <3>2. \A y \in X : y = x
      BY <3>1
    <3>3. QED
      BY <3>2, <2>3, <1>1 DEF HasFirst
  <2>5. ~ HasFirst(R, Y)
    <3>1. SUFFICES ASSUME HasFirst(R, Y) PROVE FALSE
      OBVIOUS
    <3>2. PICK m \in Y : \A y \in Y : <<m, y>> \in R
      BY <3>1 DEF HasFirst
    <3>3. m \in S /\ m \in X /\ \A y \in X : y = x \/ y \in Y
      OBVIOUS
    <3>4. CASE <<m, x>> \in R
      <4>1. \A y \in X : <<m, y>> \in R
        BY <3>2, <3>3, <3>4
      <4>2. QED
        BY <4>1, <3>3, <1>1 DEF HasFirst
    <3>5. CASE <<x, m>> \in R
      <4>1. \A y \in X : <<x, y>> \in R
        BY <3>2, <3>3, <3>5, <2>3 DEF Orders
      <4>2. QED
        BY <4>1, <1>1 DEF HasFirst
    <3>6. QED
      BY <3>3, <3>4, <3>5, <2>3 DEF Orders
  <2>6. QED
    BY <2>2, <2>4, <2>5
<1>2. \A X \in SUBSET S : IsFiniteSet(X) => Cardinality(X) \in Nat
  BY FS_CardinalityType
<1>3. Bad = {}
  <2>1. SUFFICES ASSUME Bad # {} PROVE FALSE
    OBVIOUS
  <2> DEFINE k == Min(Bad)
  <2>2. k \in Bad /\ \A j \in Bad : k <= j
    <3>1. Bad \in SUBSET Nat
      OBVIOUS
    <3> HIDE DEF Bad
    <3>2. QED
      BY <2>1, <3>1, MinOfNaturals
  <2> HIDE DEF k
  <2>3. PICK X \in SUBSET S : Lacks(X) /\ Cardinality(X) = k
    BY <2>2
  <2>4. PICK Y \in SUBSET S : Lacks(Y) /\ Cardinality(Y) = Cardinality(X) - 1
    BY <1>1, <2>3
  <2>5. Cardinality(Y) \in Bad /\ Cardinality(Y) < k
    BY <1>2, <2>2, <2>3, <2>4
  <2>6. QED
    BY <2>2, <2>5
<1>4. SUFFICES ASSUME ~ HasFirst(R, S) PROVE FALSE
  OBVIOUS
<1>5. S \in SUBSET S /\ Lacks(S) /\ Cardinality(S) \in Nat
  BY <1>2, <1>4
<1>6. QED
  BY <1>3, <1>5

\* A finite set of natural numbers that is not empty has a greatest element.
LEMMA MaxOfVertices ==
  ASSUME NEW S \in SUBSET Nat, S # {}, IsFiniteSet(S)
  PROVE  Max(S) \in S
<1> DEFINE R == {p \in S \X S : p[1] >= p[2]}
<1>1. \A x, y \in S : <<x, y>> \in R <=> x >= y
  OBVIOUS
<1> HIDE DEF R
<1>2. Orders(R, S)
  BY <1>1 DEF Orders
<1>3. HasFirst(R, S)
  BY <1>2, FirstOfFinite
<1>4. \E x \in S : \A y \in S : x >= y
  BY <1>1, <1>3 DEF HasFirst
<1>5. QED
  BY <1>4 DEF Max

\* What is looked at last.
LEMMA LastOnes ==
  ASSUME NEW S \in SUBSET Vertex
  PROVE  IsFiniteSet(S) /\ \A T \in SUBSET S : T # {} => Max(T) \in T
<1>1. \A T \in SUBSET S : IsFiniteSet(T) /\ T \in SUBSET Nat
  BY VertexAssumption, FS_Subset
<1>2. QED
  BY <1>1, MaxOfVertices

\* The loop over the far side of v adds shortcuts.
LEMMA DetoursGrow ==
  ASSUME NEW E \in SUBSET Edge, NEW directed \in BOOLEAN, NEW n \in Nat, NEW v \in Vertex,
         NEW u \in find_adjacent_in_vertices(E, directed, v), NEW labels,
         NEW g, Grown(E, directed, n, v, g)
  PROVE  Grown(E, directed, n, v,
               DetoursOver(g, directed, labels, u, v, find_adjacent_out_vertices(E, directed, v)))
<1> DEFINE out == find_adjacent_out_vertices(E, directed, v)
<1>1. PICK c : c = [E |-> E, directed |-> directed, n |-> n, v |-> v, u |-> u, labels |-> labels,
                    start |-> g]
  OBVIOUS
<1>2. /\ c.E = E /\ c.directed = directed /\ c.n = n /\ c.v = v /\ c.u = u /\ c.labels = labels
      /\ c.start = g
  BY <1>1
<1>3. \A w \in out : u \in VerticesIn(E) /\ w \in VerticesIn(E) /\ HasUVW(E, directed, u, v, w)
  BY SidesOfVertex
<1>4. out \in SUBSET Vertex
  BY <1>3, EndsAreVertices
<1> HIDE DEF out
<1>5. Detouring!IsFiniteSet(out) /\ \A S \in SUBSET out : S # {} => Max(S) \in S
  <2>1. IsFiniteSet(out) /\ \A S \in SUBSET out : S # {} => Max(S) \in S
    BY <1>4, LastOnes
  <2>2. QED
    BY <2>1 DEF IsFiniteSet, Detouring!IsFiniteSet
<1>6. Grown(c.E, c.directed, c.n, c.v, c.start)
  BY <1>2
<1>7. ASSUME NEW S \in SUBSET out, S # {}, NEW h, Grown(c.E, c.directed, c.n, c.v, h)
      PROVE  Grown(c.E, c.directed, c.n, c.v, DetourStep(c.directed, c.labels, c.u, c.v, Max(S), h))
  <2>1. PICK w \in out : w = Max(S)
    BY <1>5, <1>7
  <2>2. Grown(E, directed, n, v, h)
    BY <1>2, <1>7
  <2>3. Grown(E, directed, n, v, process_ch_shortcut(h, directed, u, v, w))
    BY <1>3, <2>2, ShortcutGrows
  <2>4. Grown(E, directed, n, v, DetourStep(directed, labels, u, v, w, h))
    BY <2>2, <2>3, DetourStepIs
  <2>5. QED
    BY <2>4, <2>1, <1>2
<1>8. \A S \in SUBSET out : Grown(c.E, c.directed, c.n, c.v, Detouring!Folded(c, out)[S])
  BY ONLY <1>5, <1>6, <1>7, Detouring!FoldedClaim, Zenon
<1>9. Grown(c.E, c.directed, c.n, c.v, DetoursOver(c.start, c.directed, c.labels, c.u, c.v, out))
  BY <1>8, DetoursAreFolded
<1>10. QED
  BY <1>9, <1>2 DEF out

\* compute_shortcuts, without its local variables.
LEMMA ComputingIs ==
  ASSUME NEW g, NEW directed, NEW order, NEW u, NEW v, NEW out
  PROVE  compute_shortcuts(g, directed, order, u, v, out) =
           LET p_max == compute_pmax(g.edges, directed, u, v, out)
           IN  IF p_max = 0 THEN g
               ELSE DetoursOver(g, directed, Labelled(g.edges, directed, order, u, p_max * Unit), u, v, out)
<1> DEFINE with(labels) == DetoursOver(g, directed, labels, u, v, out)
           Labels(p_max) == Labelled(g.edges, directed, order, u, p_max * Unit)
           f(p_max) == IF p_max = 0 THEN g ELSE The({with(labels) : labels \in {Labels(p_max)}})
           m == compute_pmax(g.edges, directed, u, v, out)
<1>1. compute_shortcuts(g, directed, order, u, v, out) = The({f(p_max) : p_max \in {m}})
  BY DEF compute_shortcuts
<1> HIDE DEF f, m
<1>2. {f(p_max) : p_max \in {m}} = {f(m)}
  OBVIOUS
<1>3. The({f(m)}) = f(m)
  BY OnlyOne
<1>4. The({with(labels) : labels \in {Labels(m)}}) = with(Labels(m))
  <2> HIDE DEF with, Labels
  <2>1. {with(labels) : labels \in {Labels(m)}} = {with(Labels(m))}
    OBVIOUS
  <2>2. The({with(Labels(m))}) = with(Labels(m))
    BY OnlyOne
  <2>3. QED
    BY <2>1, <2>2
<1>5. f(m) = IF m = 0 THEN g ELSE with(Labels(m))
  BY <1>4 DEF f
<1>6. QED
  BY <1>1, <1>2, <1>3, <1>5 DEF m

\* One neighbour u on the near side of v, as the loop of vertex_contraction treats it.
ComputeStep(E, directed, order, v, u, g) ==
  The({compute_shortcuts(h, directed, order, u, v, find_adjacent_out_vertices(E, directed, v)) : h \in {g}})

\* It computes the shortcuts from u.
LEMMA ComputeStepIs ==
  ASSUME NEW E, NEW directed, NEW order, NEW v, NEW u, NEW g
  PROVE  ComputeStep(E, directed, order, v, u, g) =
           compute_shortcuts(g, directed, order, u, v, find_adjacent_out_vertices(E, directed, v))
<1> DEFINE f(h) == compute_shortcuts(h, directed, order, u, v, find_adjacent_out_vertices(E, directed, v))
<1>1. ComputeStep(E, directed, order, v, u, g) = The({f(h) : h \in {g}})
  BY DEF ComputeStep
<1> HIDE DEF f
<1>2. {f(h) : h \in {g}} = {f(g)}
  OBVIOUS
<1>3. The({f(g)}) = f(g)
  BY OnlyOne
<1>4. QED
  BY <1>1, <1>2, <1>3 DEF f

\* The loop over the near side of v, with the same claim.
Computing == INSTANCE Recursion WITH
  Start <- LAMBDA c : [edges |-> c.E, created |-> c.n, new |-> {}], Pick <- LAMBDA c, S : Max(S),
  Step  <- LAMBDA c, u, g : ComputeStep(c.E, c.directed, c.order, c.v, u, g),
  Claim <- LAMBDA c, S, g : Grown(c.E, c.directed, c.n, c.v, g)

\* The loop is a recursion over the neighbours.
LEMMA ShortcutsAreFolded ==
  ASSUME NEW c
  PROVE  WithShortcuts(c.E, c.directed, c.order, c.n, c.v) =
           Computing!Folded(c, find_adjacent_in_vertices(c.E, c.directed, c.v))
             [find_adjacent_in_vertices(c.E, c.directed, c.v)]
BY DEF WithShortcuts, ForEach, MapThenFoldSet, ComputeStep, Computing!Folded, Computing!IsFolded

\* Nothing is changed yet.
LEMMA NothingGrown ==
  ASSUME NEW E, NEW directed \in BOOLEAN, NEW n \in Nat, NEW v
  PROVE  Grown(E, directed, n, v, [edges |-> E, created |-> n, new |-> {}])
<1>1. IsFiniteSet({}) /\ Cardinality({}) = 0
  BY FS_EmptySet
<1>2. AreWorthIt(E, {}, directed)
  BY DEF AreWorthIt, ArcsIn, Respects
<1>3. QED
  BY <1>1, <1>2 DEF Grown

\* A vertex is contracted, in simulation or not, by adding shortcuts past it.
LEMMA WithShortcutsGrow ==
  ASSUME NEW E \in SUBSET Edge, NEW directed \in BOOLEAN, NEW order, NEW n \in Nat, NEW v \in Vertex
  PROVE  Grown(E, directed, n, v, WithShortcuts(E, directed, order, n, v))
<1> DEFINE in == find_adjacent_in_vertices(E, directed, v)
<1>1. PICK c : c = [E |-> E, directed |-> directed, order |-> order, n |-> n, v |-> v]
  OBVIOUS
<1>2. c.E = E /\ c.directed = directed /\ c.order = order /\ c.n = n /\ c.v = v
  BY <1>1
<1>3. in \in SUBSET Vertex
  BY DEF find_adjacent_in_vertices, Adjacent, Edge
<1> HIDE DEF in
<1>4. Computing!IsFiniteSet(in) /\ \A S \in SUBSET in : S # {} => Max(S) \in S
  <2>1. IsFiniteSet(in) /\ \A S \in SUBSET in : S # {} => Max(S) \in S
    BY <1>3, LastOnes
  <2>2. QED
    BY <2>1 DEF IsFiniteSet, Computing!IsFiniteSet
<1>5. Grown(c.E, c.directed, c.n, c.v, [edges |-> c.E, created |-> c.n, new |-> {}])
  BY <1>2, NothingGrown
<1>6. ASSUME NEW S \in SUBSET in, S # {}, NEW h, Grown(c.E, c.directed, c.n, c.v, h)
      PROVE  Grown(c.E, c.directed, c.n, c.v, ComputeStep(c.E, c.directed, c.order, c.v, Max(S), h))
  <2>1. PICK u \in in : u = Max(S)
    BY <1>4, <1>6
  <2>2. Grown(E, directed, n, v, h)
    BY <1>2, <1>6
  <2> DEFINE out == find_adjacent_out_vertices(E, directed, v)
             labels == Labelled(h.edges, directed, order, u,
                                compute_pmax(h.edges, directed, u, v, out) * Unit)
  <2>3. Grown(E, directed, n, v, DetoursOver(h, directed, labels, u, v, out))
    <3> HIDE DEF labels
    <3>1. u \in find_adjacent_in_vertices(E, directed, v)
      BY <2>1 DEF in
    <3>2. QED
      BY <2>2, <3>1, DetoursGrow
  <2>4. compute_shortcuts(h, directed, order, u, v, out) \in {h, DetoursOver(h, directed, labels, u, v, out)}
    BY ComputingIs
  <2> HIDE DEF labels
  <2>5. Grown(E, directed, n, v, compute_shortcuts(h, directed, order, u, v, out))
    BY <2>2, <2>3, <2>4
  <2> HIDE DEF out
  <2>6. Grown(E, directed, n, v, ComputeStep(E, directed, order, v, u, h))
    BY <2>5, ComputeStepIs DEF out
  <2>7. QED
    BY <2>6, <2>1, <1>2
<1>7. \A S \in SUBSET in : Grown(c.E, c.directed, c.n, c.v, Computing!Folded(c, in)[S])
  BY ONLY <1>4, <1>5, <1>6, Computing!FoldedClaim, Zenon
<1>8. Grown(c.E, c.directed, c.n, c.v, WithShortcuts(c.E, c.directed, c.order, c.n, c.v))
  <2>1. in = find_adjacent_in_vertices(c.E, c.directed, c.v)
    BY <1>2 DEF in
  <2>2. WithShortcuts(c.E, c.directed, c.order, c.n, c.v) = Computing!Folded(c, in)[in]
    BY <2>1, ShortcutsAreFolded
  <2>3. QED
    BY <2>2, <1>7
<1>9. QED
  BY <1>8, <1>2

----------------------------------------------------------------------------
(***************************************************************************)
(* Contraction hierarchies: the copy that simulations and contractions     *)
(* share.                                                                  *)
(***************************************************************************)
ChTypeOK ==
  /\ request \in CallType
  /\ phase \in {"called", "choosing", "contracting", "over", "returned", "failed", "undefined"}
  /\ created \in Nat /\ copy \in SUBSET Edge /\ shortcuts \in SUBSET Edge
  /\ minPQ \in SUBSET (Int \X Vertex) /\ IsFiniteSet(minPQ)
  /\ ordered_vertex \in Int \X Vertex
  /\ contracted \in Seq(Vertex) /\ requeued \in Seq(Vertex)

\* The copy is what is left, its shortcuts have old numbers, and all the shortcuts
\* are worth what they replaced.
CopyInv ==
  /\ phase = "called" => copy = {} /\ shortcuts = {} /\ contracted = <<>> /\ requeued = <<>>
  /\ CopyIsWhatIsLeft
  /\ \A e \in copy : e.contracted # {} => e.id >= -created
  /\ AreWorthIt(Roads, shortcuts, is_directed)

\* Rows make edges that nothing was contracted into.
LEMMA LoadedEdges ==
  ASSUME NEW rows \in SUBSET AnyRow, NEW directed \in BOOLEAN
  PROVE  /\ Loaded(rows, directed) \in SUBSET Edge
         /\ \A e \in Loaded(rows, directed) : e.contracted = {}
<1>1. \A id \in Int, x, y \in Vertex, c \in Nat :
        Plain(id, x, y, c) \in Edge /\ Plain(id, x, y, c).contracted = {}
  BY DEF Plain, Edge
<1>2. \A r \in rows : /\ r.id \in Int /\ r.source \in Vertex /\ r.target \in Vertex
                      /\ r.cost \in Int /\ r.reverse_cost \in Int
  BY DEF AnyRow
<1>3. CASE directed
  <2>1. Loaded(rows, directed) = EdgesOf(rows, TRUE)
    BY <1>3 DEF Loaded
  <2>2. \A e \in EdgesOf(rows, TRUE) : \E r \in rows :
          \/ r.cost >= 0 /\ e = Plain(r.id, r.source, r.target, r.cost)
          \/ r.reverse_cost >= 0 /\ e = Plain(r.id, r.target, r.source, r.reverse_cost)
    BY DEF EdgesOf
  <2>3. \A r \in rows : /\ r.cost >= 0 => r.cost \in Nat
                        /\ r.reverse_cost >= 0 => r.reverse_cost \in Nat
    BY <1>2
  <2>4. ASSUME NEW e \in EdgesOf(rows, TRUE) PROVE e \in Edge /\ e.contracted = {}
    <3>1. PICK r \in rows :
            \/ r.cost >= 0 /\ e = Plain(r.id, r.source, r.target, r.cost)
            \/ r.reverse_cost >= 0 /\ e = Plain(r.id, r.target, r.source, r.reverse_cost)
      BY <2>2
    <3>2. CASE r.cost >= 0 /\ e = Plain(r.id, r.source, r.target, r.cost)
      BY <1>1, <1>2, <2>3, <3>2
    <3>3. CASE r.reverse_cost >= 0 /\ e = Plain(r.id, r.target, r.source, r.reverse_cost)
      BY <1>1, <1>2, <2>3, <3>3
    <3>4. QED
      BY <3>1, <3>2, <3>3
  <2>5. QED
    BY <2>1, <2>4
<1>4. CASE ~ directed
  <2> DEFINE price(r) == IF GivesReverse(r) THEN r.reverse_cost ELSE r.cost
  <2>1. Loaded(rows, directed) = LastAdded(rows)
    BY <1>4 DEF Loaded
  <2>2. \A e \in LastAdded(rows) : \E r \in rows :
          (r.cost >= 0 \/ r.reverse_cost >= 0) /\ e = Plain(r.id, r.source, r.target, price(r))
    BY DEF LastAdded
  <2>3. \A r \in rows : (r.cost >= 0 \/ r.reverse_cost >= 0) => price(r) \in Nat
    BY <1>2 DEF GivesReverse
  <2> HIDE DEF price
  <2>4. \A e \in LastAdded(rows) : e \in Edge /\ e.contracted = {}
    BY <1>1, <1>2, <2>2, <2>3
  <2>5. QED
    BY <2>1, <2>4
<1>5. QED
  BY <1>3, <1>4

\* The roads of the call.
LEMMA RoadsAreEdges ==
  ASSUME request \in CallType
  PROVE  /\ is_directed \in BOOLEAN /\ Roads \in SUBSET Edge
         /\ \A e \in Roads : e.contracted = {}
<1>1. request.rows \in SUBSET AnyRow /\ request.directed \in BOOLEAN
  BY DEF CallType
<1>2. QED
  BY <1>1, LoadedEdges DEF Roads, is_directed

\* What the queue gives first is in it, and nothing in it comes before.
LEMMA LeastOfQueue ==
  ASSUME NEW Q \in SUBSET (Int \X Vertex), IsFiniteSet(Q), Q # {}
  PROVE  Least(Q) \in Q /\ \A q \in Q : Least(Q)[1] <= q[1]
<1> DEFINE Before(p, q) == p[1] < q[1] \/ (p[1] = q[1] /\ p[2] <= q[2])
           R == {x \in Q \X Q : Before(x[1], x[2])}
<1>1. \A p, q \in Q : <<p, q>> \in R <=> Before(p, q)
  BY DEF Before
<1> HIDE DEF R
<1>2. \A p \in Q : p[1] \in Int /\ p[2] \in Int
  BY VertexAssumption
<1>3. \A p, q \in Q : Before(p, q) \/ Before(q, p)
  BY <1>2
<1>4. \A p, q, r \in Q : Before(p, q) /\ Before(q, r) => Before(p, r)
  BY <1>2
<1> HIDE DEF Before
<1>5. Orders(R, Q)
  BY <1>1, <1>3, <1>4 DEF Orders
<1>6. HasFirst(R, Q)
  BY <1>5, FirstOfFinite
<1>7. \E p \in Q : \A q \in Q : Before(p, q)
  BY <1>1, <1>6 DEF HasFirst
<1>8. Least(Q) \in Q /\ \A q \in Q : Before(Least(Q), q)
  BY <1>7 DEF Least, Before
<1>9. QED
  BY <1>2, <1>8 DEF Before

\* The edge difference is a number.
LEMMA MetricIsNumber ==
  ASSUME NEW E \in SUBSET Edge, NEW directed \in BOOLEAN, NEW v, NEW g, IsFiniteSet(g.new)
  PROVE  MetricOf(g, E, directed, v) \in Int
<1>1. /\ find_adjacent_in_vertices(E, directed, v) \in SUBSET Vertex
      /\ find_adjacent_out_vertices(E, directed, v) \in SUBSET Vertex
      /\ Adjacent(E, v) \in SUBSET Vertex
  BY DEF find_adjacent_in_vertices, find_adjacent_out_vertices, Adjacent, Edge
<1>2. \A S \in SUBSET Vertex : Cardinality(S) \in Nat
  BY VertexAssumption, FS_Subset, FS_CardinalityType
<1>3. Cardinality(g.new) \in Nat
  BY FS_CardinalityType
<1>4. QED
  BY <1>1, <1>2, <1>3 DEF MetricOf

\* Shortcuts that are made are new to the copy: taken out again they leave it.
LEMMA UndoneIsCopy ==
  ASSUME NEW E, NEW directed, NEW n \in Nat, NEW v, NEW g, Grown(E, directed, n, v, g),
         \A e \in E : e.contracted # {} => e.id >= -n
  PROVE  Undone(g) = E
<1>1. /\ g.new \in SUBSET Edge /\ g.edges = E \cup g.new
      /\ \A e \in g.new : e.id < -n /\ e.contracted # {}
  BY DEF Grown
<1>2. \A e \in g.new : e \notin E
  <2>1. ASSUME NEW e \in g.new, e \in E PROVE FALSE
    <3>1. e.id \in Int /\ e.id < -n /\ e.id >= -n
      BY <1>1, <2>1 DEF Edge
    <3>2. QED
      BY <3>1
  <2>2. QED
    BY <2>1
<1>3. QED
  BY <1>1, <1>2 DEF Undone

\* The graph after the contraction of v, and the metric it gives v.
Around(v) == WithShortcuts(copy, is_directed, rank, created, v)
Metric(v) == MetricOf(Around(v), copy, is_directed, v)

\* The vertex on top of the queue and what is beneath it.
Top  == Least(minPQ)
Rest == minPQ \ {Top}

\* What a simulation does, and that it leaves the copy alone.
LEMMA Simulating ==
  ASSUME ChTypeOK, CopyInv, Simulate
  PROVE  /\ phase = "choosing" /\ minPQ # {} /\ Top \in minPQ /\ Top[2] \in Vertex
         /\ \A q \in minPQ : Top[1] <= q[1]
         /\ copy' = copy /\ created' \in Nat /\ created' >= created
         /\ ordered_vertex' = Top /\ Metric(Top[2]) \in Int
         /\ \/ /\ TopOf(Rest, Top)[1] < Metric(Top[2])
               /\ minPQ' = Rest \cup {<<Metric(Top[2]), Top[2]>>}
               /\ requeued' = Append(requeued, Top[2]) /\ phase' = phase
            \/ minPQ' = Rest /\ requeued' = requeued /\ phase' = "contracting"
         /\ UNCHANGED <<request, rank, graph, shortcuts, contracted>>
<1> DEFINE g == Around(Top[2])
<1>1. /\ phase = "choosing" /\ minPQ # {}
      /\ created' = g.created /\ ordered_vertex' = Top /\ copy' = Undone(g)
      /\ \/ /\ TopOf(Rest, Top)[1] < Metric(Top[2])
            /\ minPQ' = Rest \cup {<<Metric(Top[2]), Top[2]>>}
            /\ requeued' = Append(requeued, Top[2]) /\ phase' = phase
         \/ minPQ' = Rest /\ requeued' = requeued /\ phase' = "contracting"
      /\ UNCHANGED <<request, rank, graph, shortcuts, contracted>>
  BY DEF Simulate, Top, Rest, Around, Metric, Requeued
<1>2. Top \in minPQ /\ \A q \in minPQ : Top[1] <= q[1]
  BY <1>1, LeastOfQueue DEF ChTypeOK, Top
<1>3. Top[2] \in Vertex /\ is_directed \in BOOLEAN /\ copy \in SUBSET Edge /\ created \in Nat
  BY <1>2, RoadsAreEdges DEF ChTypeOK
<1>4. Grown(copy, is_directed, created, Top[2], g)
  BY <1>3, WithShortcutsGrow DEF Around
<1> HIDE DEF g
<1>5. copy' = copy
  BY <1>1, <1>3, <1>4, UndoneIsCopy DEF CopyInv
<1>6. IsFiniteSet(g.new) /\ g.created \in Nat /\ g.created = created + Cardinality(g.new)
  BY <1>4 DEF Grown
<1>7. Cardinality(g.new) \in Nat
  BY <1>6, FS_CardinalityType
<1>8. created' \in Nat /\ created' >= created
  BY <1>1, <1>3, <1>6, <1>7
<1>9. Metric(Top[2]) \in Int
  BY <1>3, <1>6, MetricIsNumber DEF Metric, g
<1>10. QED
  BY <1>1, <1>2, <1>3, <1>5, <1>8, <1>9

\* What a contraction does.
LEMMA Contracting ==
  ASSUME ChTypeOK, CopyInv, Contract
  PROVE  LET v == ordered_vertex[2]
         IN  /\ phase = "contracting" /\ phase' = "choosing" /\ v \in Vertex
             /\ Grown(copy, is_directed, created, v, Around(v))
             /\ created' = Around(v).created
             /\ copy' = Around(v).edges \ Incident(Around(v).edges, v)
             /\ shortcuts' = shortcuts \cup Around(v).new
             /\ contracted' = Append(contracted, v) /\ requeued' = <<>>
             /\ UNCHANGED <<request, rank, graph, minPQ, ordered_vertex>>
<1>1. /\ ordered_vertex[2] \in Vertex /\ is_directed \in BOOLEAN
      /\ copy \in SUBSET Edge /\ created \in Nat
  BY RoadsAreEdges DEF ChTypeOK
<1>2. Grown(copy, is_directed, created, ordered_vertex[2], Around(ordered_vertex[2]))
  BY <1>1, WithShortcutsGrow DEF Around
<1>3. QED
  BY <1>1, <1>2 DEF Contract, Around

\* The other steps look at neither the copy nor the queue, once the call was made.
Quiet ==
  /\ UNCHANGED <<request, rank, created, copy, minPQ, ordered_vertex, shortcuts, requeued, contracted>>
  /\ phase' \in {"over", "returned", "failed", "undefined"} \/ phase' = phase
  /\ phase = "called" => phase' = "called"

\* A step is the call, a simulation, a contraction or a quiet one.
LEMMA ChSteps ==
  ASSUME [ChNext]_chVars
  PROVE  contractionHierarchies \/ Simulate \/ Contract \/ Quiet
<1>1. Undefined => Quiet
  BY DEF Undefined, Quiet
<1>2. CopyShortcuts => Quiet
  BY DEF CopyShortcuts, Quiet
<1>3. ChReturn => Quiet
  BY DEF ChReturn, Quiet
<1>4. ChDone \/ UNCHANGED chVars => Quiet
  BY DEF ChDone, Quiet, chVars
<1>5. QED
  BY <1>1, <1>2, <1>3, <1>4 DEF ChNext, ChStep

\* Shortcuts that are worth the roads of a copy are worth the roads.
LEMMA WorthOfMore ==
  ASSUME NEW E, NEW S, NEW F, NEW N, NEW directed \in BOOLEAN, AreWorthIt(E, S, directed),
         F \subseteq E \cup S, AreWorthIt(F, N, directed)
  PROVE  AreWorthIt(E, S \cup N, directed)
<1>1. /\ ArcsIn(S \cup N, directed) = ArcsIn(S, directed) \cup ArcsIn(N, directed)
      /\ ArcsIn(E \cup S, directed) = ArcsIn(E, directed) \cup ArcsIn(S, directed)
      /\ ArcsIn(F, directed) \subseteq ArcsIn(E \cup S, directed)
  BY DEF ArcsIn
<1>2. ASSUME NEW D \in Prices, Respects(ArcsIn(E, directed), D)
      PROVE  Respects(ArcsIn(S \cup N, directed), D)
  <2>1. Respects(ArcsIn(S, directed), D)
    BY <1>2 DEF AreWorthIt
  <2>2. Respects(ArcsIn(F, directed), D)
    BY <1>1, <1>2, <2>1 DEF Respects
  <2>3. Respects(ArcsIn(N, directed), D)
    BY <2>2 DEF AreWorthIt
  <2>4. QED
    BY <1>1, <2>1, <2>3 DEF Respects
<1>3. QED
  BY <1>2 DEF AreWorthIt

\* The call starts with a fresh copy.
LEMMA InitCopyInv == ChInit => ChTypeOK /\ CopyInv
<1> SUFFICES ASSUME ChInit PROVE ChTypeOK /\ CopyInv
  OBVIOUS
<1>1. /\ request \in Calls /\ phase = "called" /\ copy = {} /\ created = 0 /\ minPQ = {}
      /\ ordered_vertex = <<0, Min(Vertex)>> /\ shortcuts = {} /\ requeued = <<>> /\ contracted = <<>>
  BY DEF ChInit
<1>2. request \in CallType
  BY <1>1, CallsAssumption
<1>3. Min(Vertex) \in Vertex
  BY VertexAssumption, MinOfNaturals
<1>4. IsFiniteSet({}) /\ <<>> \in Seq(Vertex)
  BY FS_EmptySet
<1>5. ChTypeOK
  BY <1>1, <1>2, <1>3, <1>4 DEF ChTypeOK
<1>6. AreWorthIt(Roads, {}, is_directed)
  <2>1. ArcsIn({}, is_directed) = {}
    BY DEF ArcsIn
  <2>2. QED
    BY <2>1 DEF AreWorthIt, Respects
<1>7. CopyInv
  BY <1>1, <1>6 DEF CopyInv, CopyIsWhatIsLeft
<1>8. QED
  BY <1>5, <1>7

\* The rows of the call become roads, all of them in the copy.
LEMMA CallCopies ==
  ASSUME ChTypeOK, CopyInv, contractionHierarchies
  PROVE  ChTypeOK' /\ CopyInv' /\ requeued' = <<>>
         /\ \A p, q \in minPQ' : p[2] = q[2] => p = q
<1>1. /\ phase = "called" /\ phase' \in {"returned", "choosing"}
      /\ copy' = Loaded(request.rows, is_directed)
      /\ minPQ' = {<<v, v>> : v \in VerticesIn(copy') \ request.forbidden}
      /\ UNCHANGED <<request, created, ordered_vertex, shortcuts, requeued, contracted>>
  BY DEF contractionHierarchies
<1>2. shortcuts = {} /\ contracted = <<>> /\ requeued = <<>>
  BY <1>1 DEF CopyInv
<1>3. /\ is_directed \in BOOLEAN /\ Roads \in SUBSET Edge
      /\ \A e \in Roads : e.contracted = {}
  BY RoadsAreEdges DEF ChTypeOK
<1>4. copy' = Roads /\ Roads' = Roads /\ is_directed' = is_directed
  BY <1>1 DEF Roads, is_directed
<1>5. minPQ' \in SUBSET (Int \X Vertex) /\ IsFiniteSet(minPQ')
      /\ \A p, q \in minPQ' : p[2] = q[2] => p = q
  <2> DEFINE V == VerticesIn(copy') \ request.forbidden
             f == [v \in V |-> <<v, v>>]
  <2>1. V \in SUBSET Vertex
    BY <1>3, <1>4, EndsAreVertices
  <2>2. IsFiniteSet(V)
    BY <2>1, VertexAssumption, FS_Subset
  <2> HIDE DEF V
  <2>3. minPQ' = {<<v, v>> : v \in V}
    BY <1>1 DEF V
  <2>4. f \in Surjection(V, minPQ')
    BY <2>3 DEF Surjection
  <2>5. IsFiniteSet(minPQ')
    BY <2>2, <2>4, FS_Surjection DEF ExistsSurjection
  <2>6. \A v \in V : v \in Int /\ v \in Vertex
    BY <2>1, VertexAssumption
  <2>7. \A p \in minPQ' : p \in Int \X Vertex /\ p = <<p[2], p[2]>>
    BY <2>3, <2>6
  <2>8. QED
    BY <2>5, <2>7
<1>6. ChTypeOK'
  <2>1. copy' \in SUBSET Edge /\ created' \in Nat /\ phase' \in {"returned", "choosing"}
    BY <1>1, <1>3, <1>4 DEF ChTypeOK
  <2>2. QED
    BY <1>1, <1>5, <2>1 DEF ChTypeOK
<1>7. CopyInv'
  <2>1. CopyIsWhatIsLeft'
    <3>1. Range(contracted') = {}
      BY <1>1, <1>2 DEF Range
    <3>2. copy' = {e \in Roads' \cup shortcuts' : {e.from, e.to} \cap Range(contracted') = {}}
      BY <3>1, <1>1, <1>2, <1>4
    <3>3. QED
      BY <3>2 DEF CopyIsWhatIsLeft
  <2>2. AreWorthIt(Roads', shortcuts', is_directed')
    BY <1>1, <1>4 DEF CopyInv
  <2>3. \A e \in copy' : e.contracted = {}
    BY <1>3, <1>4
  <2>4. QED
    BY <1>1, <2>1, <2>2, <2>3 DEF CopyInv
<1>8. QED
  BY <1>1, <1>2, <1>5, <1>6, <1>7

\* What is contracted last is contracted.
LEMMA RangeOfAppend ==
  ASSUME NEW s \in Seq(Vertex), NEW v \in Vertex
  PROVE  Append(s, v) \in Seq(Vertex) /\ Range(Append(s, v)) = Range(s) \cup {v}
<1>1. /\ Append(s, v) \in Seq(Vertex) /\ DOMAIN Append(s, v) = 1..Len(s) + 1 /\ DOMAIN s = 1..Len(s)
      /\ Len(s) \in Nat /\ Append(s, v)[Len(s) + 1] = v
      /\ \A i \in 1..Len(s) : Append(s, v)[i] = s[i]
  OBVIOUS
<1>2. \A i \in 1..Len(s) + 1 : i \in 1..Len(s) \/ i = Len(s) + 1
  BY <1>1
<1>3. 1..Len(s) \subseteq 1..Len(s) + 1 /\ Len(s) + 1 \in 1..Len(s) + 1
  BY <1>1
<1>4. QED
  BY <1>1, <1>2, <1>3 DEF Range

\* Simulations leave the copy as it is.
LEMMA SimulateKeepsCopy ==
  ASSUME ChTypeOK, CopyInv, Simulate
  PROVE  ChTypeOK' /\ CopyInv'
<1>1. /\ phase = "choosing" /\ Top \in minPQ /\ Top[2] \in Vertex
      /\ copy' = copy /\ created' \in Nat /\ created' >= created
      /\ ordered_vertex' = Top /\ Metric(Top[2]) \in Int
      /\ \/ /\ minPQ' = Rest \cup {<<Metric(Top[2]), Top[2]>>}
            /\ requeued' = Append(requeued, Top[2]) /\ phase' = phase
         \/ minPQ' = Rest /\ requeued' = requeued /\ phase' = "contracting"
      /\ UNCHANGED <<request, shortcuts, contracted>>
  BY Simulating
<1>2. /\ minPQ \in SUBSET (Int \X Vertex) /\ IsFiniteSet(minPQ)
      /\ requeued \in Seq(Vertex) /\ created \in Nat /\ copy \in SUBSET Edge
  BY DEF ChTypeOK
<1>3. Rest \in SUBSET (Int \X Vertex) /\ IsFiniteSet(Rest)
  BY <1>2, FS_Subset DEF Rest
<1>4. minPQ' \in SUBSET (Int \X Vertex) /\ IsFiniteSet(minPQ')
  <2>1. <<Metric(Top[2]), Top[2]>> \in Int \X Vertex
    BY <1>1
  <2>2. IsFiniteSet(Rest \cup {<<Metric(Top[2]), Top[2]>>})
    BY <1>3, FS_AddElement
  <2>3. QED
    BY <1>1, <1>3, <2>1, <2>2
<1>5. requeued' \in Seq(Vertex)
  BY <1>1, <1>2, RangeOfAppend
<1>6. ordered_vertex' \in Int \X Vertex
  BY <1>1, <1>2
<1>7. ChTypeOK'
  BY <1>1, <1>2, <1>4, <1>5, <1>6 DEF ChTypeOK
<1>8. Roads' = Roads /\ is_directed' = is_directed
  BY <1>1 DEF Roads, is_directed
<1>9. \A e \in copy' : e.contracted # {} => e.id >= -created'
  <2>1. \A e \in copy : e.id \in Int /\ (e.contracted # {} => e.id >= -created)
    BY <1>2 DEF CopyInv, Edge
  <2>2. QED
    BY <1>1, <1>2, <2>1
<1>10. CopyIsWhatIsLeft'
  BY <1>1, <1>8 DEF CopyIsWhatIsLeft, CopyInv
<1>11. AreWorthIt(Roads', shortcuts', is_directed')
  BY <1>1, <1>8 DEF CopyInv
<1>12. QED
  BY <1>1, <1>7, <1>9, <1>10, <1>11 DEF CopyInv

\* A contraction takes the vertex out of the copy, and its shortcuts go into both.
LEMMA ContractKeepsCopy ==
  ASSUME ChTypeOK, CopyInv, Contract
  PROVE  ChTypeOK' /\ CopyInv'
<1> DEFINE v == ordered_vertex[2]
           g == Around(v)
<1>1. /\ phase = "contracting" /\ phase' = "choosing" /\ v \in Vertex
      /\ Grown(copy, is_directed, created, v, g)
      /\ created' = g.created /\ copy' = g.edges \ Incident(g.edges, v)
      /\ shortcuts' = shortcuts \cup g.new
      /\ contracted' = Append(contracted, v) /\ requeued' = <<>>
      /\ UNCHANGED <<request, minPQ, ordered_vertex>>
  BY Contracting
<1> HIDE DEF v, g
<1>2. /\ g.new \in SUBSET Edge /\ g.edges = copy \cup g.new
      /\ g.created \in Nat /\ g.created = created + Cardinality(g.new) /\ IsFiniteSet(g.new)
      /\ \A e \in g.new : /\ e.id < -created /\ e.id >= -g.created /\ e.contracted # {}
                          /\ e.from \in VerticesIn(copy) \ {v} /\ e.to \in VerticesIn(copy) \ {v}
      /\ AreWorthIt(copy, g.new, is_directed)
  BY <1>1 DEF Grown
<1>3. /\ copy \in SUBSET Edge /\ shortcuts \in SUBSET Edge /\ created \in Nat
      /\ contracted \in Seq(Vertex) /\ minPQ \in SUBSET (Int \X Vertex) /\ IsFiniteSet(minPQ)
      /\ ordered_vertex \in Int \X Vertex /\ request \in CallType
  BY DEF ChTypeOK
<1>4. contracted' \in Seq(Vertex) /\ Range(contracted') = Range(contracted) \cup {v}
  BY <1>1, <1>3, RangeOfAppend
<1>5. copy' \in SUBSET Edge /\ shortcuts' \in SUBSET Edge
  BY <1>1, <1>2, <1>3
<1>6. ChTypeOK'
  <2>1. <<>> \in Seq(Vertex)
    OBVIOUS
  <2>2. QED
    BY <1>1, <1>2, <1>3, <1>4, <1>5, <2>1 DEF ChTypeOK
<1>7. Roads' = Roads /\ is_directed' = is_directed /\ is_directed \in BOOLEAN
  BY <1>1, <1>3, RoadsAreEdges DEF Roads, is_directed
<1>8. copy = {e \in Roads \cup shortcuts : {e.from, e.to} \cap Range(contracted) = {}}
  BY <1>1 DEF CopyInv, CopyIsWhatIsLeft
<1>9. CopyIsWhatIsLeft'
  <2>1. \A e \in copy : e.from \notin Range(contracted) /\ e.to \notin Range(contracted)
    BY <1>8
  <2>2. \A x \in VerticesIn(copy) : x \notin Range(contracted)
    BY <2>1 DEF VerticesIn
  <2>3. \A e \in g.new : {e.from, e.to} \cap Range(contracted') = {}
    BY <1>2, <1>4, <2>2
  <2>4. copy' = {e \in copy \cup g.new : e.from # v /\ e.to # v}
    BY <1>1, <1>2 DEF Incident
  <2>5. copy' = {e \in Roads \cup (shortcuts \cup g.new) : {e.from, e.to} \cap Range(contracted') = {}}
    BY <1>4, <1>8, <2>3, <2>4
  <2>6. QED
    BY <1>1, <1>7, <2>5 DEF CopyIsWhatIsLeft
<1>10. \A e \in copy' : e.contracted # {} => e.id >= -created'
  <2>1. created' \in Nat /\ created' >= created
    BY <1>1, <1>2, <1>3, FS_CardinalityType
  <2>2. \A e \in copy : e.id \in Int /\ (e.contracted # {} => e.id >= -created)
    BY <1>3 DEF CopyInv, Edge
  <2>3. \A e \in copy : e.contracted # {} => e.id >= -created'
    BY <1>3, <2>1, <2>2
  <2>4. \A e \in g.new : e.id >= -created'
    BY <1>1, <1>2
  <2>5. QED
    BY <1>1, <1>2, <2>3, <2>4
<1>11. AreWorthIt(Roads', shortcuts', is_directed')
  <2>1. copy \subseteq Roads \cup shortcuts /\ AreWorthIt(Roads, shortcuts, is_directed)
    BY <1>8 DEF CopyInv
  <2>2. AreWorthIt(Roads, shortcuts \cup g.new, is_directed)
    BY <1>2, <1>7, <2>1, WorthOfMore
  <2>3. QED
    BY <1>1, <1>7, <2>2
<1>12. QED
  BY <1>1, <1>6, <1>9, <1>10, <1>11 DEF CopyInv

\* Nothing else touches the copy.
LEMMA QuietKeepsCopy ==
  ASSUME ChTypeOK, CopyInv, Quiet
  PROVE  ChTypeOK' /\ CopyInv'
<1>1. ChTypeOK'
  BY DEF ChTypeOK, Quiet
<1>2. Roads' = Roads /\ is_directed' = is_directed
  BY DEF Quiet, Roads, is_directed
<1>3. phase' = "called" => phase = "called"
  BY DEF Quiet
<1>4. CopyIsWhatIsLeft'
  BY <1>2 DEF Quiet, CopyInv, CopyIsWhatIsLeft
<1>5. QED
  BY <1>1, <1>2, <1>3, <1>4 DEF Quiet, CopyInv

\* Every step keeps the copy what it is.
LEMMA NextCopyInv == ChTypeOK /\ CopyInv /\ [ChNext]_chVars => ChTypeOK' /\ CopyInv'
BY ChSteps, CallCopies, SimulateKeepsCopy, ContractKeepsCopy, QuietKeepsCopy

\* The variables keep their types.
THEOREM HierarchiesTypes == ChSpec => []ChTypeOK
BY InitCopyInv, NextCopyInv, PTL DEF ChSpec

\* What DistancesFrom lists are the distances.
LEMMA DistancesAreListed ==
  ASSUME NEW A, NEW x
  PROVE  DistancesFrom(A, x) = [y \in Vertex |-> Distance(A, x, y)]
<1> DEFINE f(W) == [z \in Vertex |-> Min({INF} \cup {w[2] : w \in {y \in W : y[1] = z}})]
<1>1. DistancesFrom(A, x) = The({f(W) : W \in {WalkCosts(A, x)}})
  BY DEF DistancesFrom
<1>2. f(WalkCosts(A, x)) = [y \in Vertex |-> Distance(A, x, y)]
  BY DEF Distance
<1> HIDE DEF f
<1>3. {f(W) : W \in {WalkCosts(A, x)}} = {f(WalkCosts(A, x))}
  OBVIOUS
<1>4. The({f(WalkCosts(A, x))}) = f(WalkCosts(A, x))
  BY OnlyOne
<1>5. QED
  BY <1>1, <1>2, <1>3, <1>4

\* Distances are the same when the same prices are respected.
LEMMA SamePricesSameDistances ==
  ASSUME NEW A \in SUBSET Arc, NEW B \in SUBSET Arc,
         \A D \in Prices : Respects(A, D) <=> Respects(B, D), NEW x \in Vertex
  PROVE  DistancesFrom(A, x) = DistancesFrom(B, x)
<1>1. ASSUME NEW y \in Vertex PROVE Distance(A, x, y) = Distance(B, x, y)
  <2>1. PICK D \in Prices : D[x] = 0 /\ Respects(A, D) /\ D[y] = Distance(A, x, y)
    BY PricesAndDistances
  <2>2. PICK C \in Prices : C[x] = 0 /\ Respects(B, C) /\ C[y] = Distance(B, x, y)
    BY PricesAndDistances
  <2>3. Distance(A, x, y) <= Distance(B, x, y)
    BY <2>1, PricesAndDistances
  <2>4. Distance(B, x, y) <= Distance(A, x, y)
    BY <2>2, PricesAndDistances
  <2>5. Distance(A, x, y) \in 0..INF /\ Distance(B, x, y) \in 0..INF
    BY DistanceFacts
  <2>6. QED
    BY <2>3, <2>4, <2>5, InfAssumption
<1>2. QED
  BY <1>1, DistancesAreListed

\* pgr_contractionHierarchies invents no way: added to the roads of any graph, the
\* shortcuts bring no two vertices nearer (contractionGraph.hpp:394-432, 461-472).
THEOREM ShortcutsAreNoNearer == ChSpec => []NoPairGetsNearer
<1>1. ASSUME ChTypeOK, CopyInv PROVE NoPairGetsNearer
  <2> DEFINE A == ArcsIn(Roads \cup shortcuts, is_directed)
             B == ArcsIn(Roads, is_directed)
  <2>1. /\ is_directed \in BOOLEAN /\ Roads \in SUBSET Edge /\ shortcuts \in SUBSET Edge
        /\ AreWorthIt(Roads, shortcuts, is_directed)
    BY <1>1, RoadsAreEdges DEF ChTypeOK, CopyInv
  <2>2. A \in SUBSET Arc /\ B \in SUBSET Arc
    BY <2>1, ArcsOfEdges
  <2>3. A = B \cup ArcsIn(shortcuts, is_directed)
    BY <2>1, ArcsOfUnion
  <2>4. \A D \in Prices : Respects(A, D) <=> Respects(B, D)
    BY <2>1, <2>3 DEF AreWorthIt, Respects
  <2> HIDE DEF A, B
  <2>5. \A x \in Vertex : DistancesFrom(A, x) = DistancesFrom(B, x)
    BY <2>2, <2>4, SamePricesSameDistances
  <2>6. VerticesIn(Roads) \subseteq Vertex
    BY <2>1, EndsAreVertices
  <2>7. QED
    BY <2>5, <2>6 DEF NoPairGetsNearer, SameDistances, A, B
<1>2. QED
  BY <1>1, InitCopyInv, NextCopyInv, PTL DEF ChSpec

----------------------------------------------------------------------------
(***************************************************************************)
(* Contraction hierarchies: a vertex that is simulated again, with other   *)
(* numbers for its shortcuts, has the same metric.                         *)
(***************************************************************************)
\* Between any two vertices E and F have the same edges, or one each of the same cost.
AlikeEdges(E, F, directed) ==
  \A x, y : \/ EdgesBetween(E, directed, x, y) = EdgesBetween(F, directed, x, y)
            \/ \E e \in E, f \in F : /\ EdgesBetween(E, directed, x, y) = {e}
                                     /\ EdgesBetween(F, directed, x, y) = {f}
                                     /\ e.cost = f.cost

\* What is read of the edges between two vertices does not tell them apart.
LEMMA AlikeReads ==
  ASSUME NEW E \in SUBSET Edge, NEW F \in SUBSET Edge, NEW directed,
         AlikeEdges(E, F, directed), NEW x, NEW y
  PROVE  /\ HasEdge(E, directed, x, y) <=> HasEdge(F, directed, x, y)
         /\ MinCost(E, directed, x, y) = MinCost(F, directed, x, y)
         /\ FirstEdge(E, directed, x, y).cost = FirstEdge(F, directed, x, y).cost
<1> DEFINE B == EdgesBetween(E, directed, x, y)
           C == EdgesBetween(F, directed, x, y)
           FirstOf(S) == CHOOSE e \in S : \A d \in S : e.id <= d.id
<1>1. /\ HasEdge(E, directed, x, y) <=> B # {}
      /\ HasEdge(F, directed, x, y) <=> C # {}
      /\ MinCost(E, directed, x, y) = Min({e.cost : e \in B})
      /\ MinCost(F, directed, x, y) = Min({e.cost : e \in C})
      /\ FirstEdge(E, directed, x, y) = FirstOf(B)
      /\ FirstEdge(F, directed, x, y) = FirstOf(C)
  BY DEF HasEdge, MinCost, FirstEdge
<1>2. B = C \/ \E e \in E, f \in F : B = {e} /\ C = {f} /\ e.cost = f.cost
  BY DEF AlikeEdges
<1> HIDE DEF B, C
<1>3. CASE B = C
  <2> HIDE DEF FirstOf
  <2>1. QED
    BY <1>1, <1>3 DEF B, C
<1>4. ASSUME NEW e \in E, NEW f \in F, B = {e}, C = {f}, e.cost = f.cost
      PROVE  /\ HasEdge(E, directed, x, y) /\ HasEdge(F, directed, x, y)
             /\ {b.cost : b \in B} = {b.cost : b \in C}
             /\ FirstOf(B).cost = FirstOf(C).cost
  <2>1. HasEdge(E, directed, x, y) /\ HasEdge(F, directed, x, y)
    BY <1>1, <1>4
  <2>2. {b.cost : b \in B} = {e.cost} /\ {b.cost : b \in C} = {f.cost}
    BY <1>4
  <2>3. \A d \in Edge : FirstOf({d}) = d
    <3>1. \A d \in Edge : d.id <= d.id
      BY DEF Edge
    <3>2. QED
      BY <3>1
  <2>4. e \in Edge /\ f \in Edge
    OBVIOUS
  <2> HIDE DEF FirstOf
  <2>5. QED
    BY <2>1, <2>2, <2>3, <2>4, <1>4
<1> HIDE DEF FirstOf
<1>5. QED
  BY <1>1, <1>2, <1>3, <1>4 DEF B, C

\* Nor do the arcs.
LEMMA AlikeArcs ==
  ASSUME NEW E \in SUBSET Edge, NEW F \in SUBSET Edge, NEW directed \in BOOLEAN,
         AlikeEdges(E, F, directed)
  PROVE  \A a \in ArcsIn(E, directed) : \E b \in ArcsIn(F, directed) :
           b.from = a.from /\ b.to = a.to /\ b.cost = a.cost
<1> SUFFICES ASSUME NEW a \in ArcsIn(E, directed)
             PROVE  \E b \in ArcsIn(F, directed) : b.from = a.from /\ b.to = a.to /\ b.cost = a.cost
  OBVIOUS
<1>1. PICK e \in EdgesBetween(E, directed, a.from, a.to) : e.cost = a.cost
  BY ArcsOfEdges
<1>2. PICK f \in EdgesBetween(F, directed, a.from, a.to) : f.cost = e.cost
  <2> DEFINE C == EdgesBetween(E, directed, a.from, a.to)
             G == EdgesBetween(F, directed, a.from, a.to)
  <2>1. C = G \/ \E d, f : C = {d} /\ G = {f} /\ d.cost = f.cost
    BY DEF AlikeEdges
  <2> HIDE DEF C, G
  <2>2. e \in C
    BY DEF C
  <2>3. \E f \in G : f.cost = e.cost
    BY <2>1, <2>2
  <2>4. QED
    BY <2>3 DEF G
<1>3. \E b \in ArcsIn(F, directed) : b.from = a.from /\ b.to = a.to /\ b.cost = f.cost
  BY EdgeIsArc
<1>4. QED
  BY <1>1, <1>2, <1>3

\* It works both ways.
LEMMA AlikeTurned ==
  ASSUME NEW E, NEW F, NEW directed, AlikeEdges(E, F, directed)
  PROVE  AlikeEdges(F, E, directed)
BY DEF AlikeEdges

\* Arcs that have others of the same cost beside them ask for nothing more.
LEMMA ArcsStandingIn ==
  ASSUME NEW A, NEW B, NEW D, Respects(B, D),
         \A a \in A : \E b \in B : b.from = a.from /\ b.to = a.to /\ b.cost = a.cost
  PROVE  Respects(A, D)
BY DEF Respects

\* Labelled, without its local variables.
LEMMA LabelledIs ==
  ASSUME NEW E, NEW directed, NEW order, NEW u, NEW limit
  PROVE  Labelled(E, directed, order, u, limit) =
           LabelsFrom(ArcsIn(E, directed), order, DistancesFrom(ArcsIn(E, directed), u), u, limit)
<1> DEFINE f(arcs, D) == LabelsFrom(arcs, order, D, u, limit)
           g(arcs) == The({f(arcs, D) : D \in {DistancesFrom(arcs, u)}})
           A == ArcsIn(E, directed)
<1>1. Labelled(E, directed, order, u, limit) = The({g(arcs) : arcs \in {A}})
  BY DEF Labelled
<1>2. g(A) = f(A, DistancesFrom(A, u))
  <2> HIDE DEF f, A
  <2>1. {f(A, D) : D \in {DistancesFrom(A, u)}} = {f(A, DistancesFrom(A, u))}
    OBVIOUS
  <2>2. The({f(A, DistancesFrom(A, u))}) = f(A, DistancesFrom(A, u))
    BY OnlyOne
  <2>3. QED
    BY <2>1, <2>2
<1> HIDE DEF g, A
<1>3. {g(arcs) : arcs \in {A}} = {g(A)}
  OBVIOUS
<1>4. The({g(A)}) = g(A)
  BY OnlyOne
<1>5. QED
  BY <1>1, <1>2, <1>3, <1>4 DEF A

\* Labels depend on where arcs lead and what they cost.
LEMMA LabelsOfAlike ==
  ASSUME NEW A, NEW B, NEW order, NEW D, NEW u, NEW limit,
         \A a \in A : \E b \in B : b.from = a.from /\ b.to = a.to /\ b.cost = a.cost,
         \A b \in B : \E a \in A : a.from = b.from /\ a.to = b.to /\ a.cost = b.cost
  PROVE  LabelsFrom(A, order, D, u, limit) = LabelsFrom(B, order, D, u, limit)
<1> DEFINE Reaching(S, x) == {a \in S : a.to = x /\ D[a.from] <= limit}
           Costs(S, x) == {D[a.from] + a.cost : a \in Reaching(S, x)}
           Label(S, x) == IF x = u THEN 0 ELSE Min({INF} \cup Costs(S, x))
           Tight(S, x) == {a.from : a \in {b \in Reaching(S, x) : D[b.from] + b.cost = Label(S, x)}}
           Earlier(x, y) == D[x] < D[y] \/ (D[x] = D[y] /\ order[x] <= order[y])
           Pred(T, x) == IF x = u \/ T = {} THEN x
                         ELSE The({CHOOSE t \in Q : \A s \in Q : Earlier(t, s) : Q \in {T}})
<1>1. \A S : LabelsFrom(S, order, D, u, limit) =
               [x \in Vertex |-> [dist |-> Label(S, x), pred |-> Pred(Tight(S, x), x)]]
  BY DEF LabelsFrom
<1>2. \A x : Costs(A, x) = Costs(B, x)
  OBVIOUS
<1> HIDE DEF Costs
<1>3. \A x : Label(A, x) = Label(B, x)
  BY <1>2
<1> HIDE DEF Label
<1>4. \A x : Tight(A, x) = Tight(B, x)
  BY <1>3
<1> HIDE DEF Tight, Pred
<1>5. QED
  BY <1>1, <1>3, <1>4

\* A search sees arcs only, and gives both graphs the same labels.
LEMMA AlikeLabels ==
  ASSUME NEW E \in SUBSET Edge, NEW F \in SUBSET Edge, NEW directed \in BOOLEAN,
         AlikeEdges(E, F, directed), NEW order, NEW u \in Vertex, NEW limit
  PROVE  Labelled(E, directed, order, u, limit) = Labelled(F, directed, order, u, limit)
<1> DEFINE A == ArcsIn(E, directed)
           B == ArcsIn(F, directed)
<1>1. A \in SUBSET Arc /\ B \in SUBSET Arc
  BY ArcsOfEdges
<1>2. /\ \A a \in A : \E b \in B : b.from = a.from /\ b.to = a.to /\ b.cost = a.cost
      /\ \A b \in B : \E a \in A : a.from = b.from /\ a.to = b.to /\ a.cost = b.cost
  BY AlikeArcs, AlikeTurned
<1>3. Labelled(E, directed, order, u, limit) = LabelsFrom(A, order, DistancesFrom(A, u), u, limit)
      /\ Labelled(F, directed, order, u, limit) = LabelsFrom(B, order, DistancesFrom(B, u), u, limit)
  BY LabelledIs
<1> HIDE DEF A, B
<1>4. \A D \in Prices : Respects(A, D) <=> Respects(B, D)
  BY <1>2, ArcsStandingIn
<1>5. DistancesFrom(A, u) = DistancesFrom(B, u)
  BY <1>1, <1>4, SamePricesSameDistances
<1>6. PICK D : D = DistancesFrom(A, u)
  OBVIOUS
<1>7. LabelsFrom(A, order, D, u, limit) = LabelsFrom(B, order, D, u, limit)
  BY <1>2, LabelsOfAlike
<1>8. QED
  BY <1>3, <1>5, <1>6, <1>7

\* compute_shortcuts decides the same for both.
LEMMA AlikeDecisions ==
  ASSUME NEW E \in SUBSET Edge, NEW F \in SUBSET Edge, NEW directed \in BOOLEAN,
         AlikeEdges(E, F, directed), NEW u, NEW v, NEW w, NEW out, NEW labels
  PROVE  /\ IsShortcutPossible(E, directed, u, v, w) <=> IsShortcutPossible(F, directed, u, v, w)
         /\ IsDetour(E, directed, labels, u, v, w) <=> IsDetour(F, directed, labels, u, v, w)
         /\ compute_pmax(E, directed, u, v, out) = compute_pmax(F, directed, u, v, out)
<1>1. /\ \A x, y : HasEdge(E, directed, x, y) <=> HasEdge(F, directed, x, y)
      /\ \A x, y : FirstEdge(E, directed, x, y).cost = FirstEdge(F, directed, x, y).cost
  BY AlikeReads
<1>2. \A x, y : EdgesBetween(E, directed, x, y) = {} <=> EdgesBetween(F, directed, x, y) = {}
  BY <1>1 DEF HasEdge
<1>3. IsShortcutPossible(E, directed, u, v, w) <=> IsShortcutPossible(F, directed, u, v, w)
  BY <1>2 DEF IsShortcutPossible, HasUVW
<1>4. IsDetour(E, directed, labels, u, v, w) <=> IsDetour(F, directed, labels, u, v, w)
  BY <1>1 DEF IsDetour
<1>5. compute_pmax(E, directed, u, v, out) = compute_pmax(F, directed, u, v, out)
  <2> DEFINE Limits(S) == {FirstEdge(S, directed, u, v).cost}
                          \cup {FirstEdge(S, directed, u, v).cost + FirstEdge(S, directed, v, w1).cost :
                                  w1 \in out \ {u}}
  <2>1. Limits(E) = Limits(F)
    BY <1>1
  <2>2. /\ compute_pmax(E, directed, u, v, out) = Max(Limits(E)) \div Unit
        /\ compute_pmax(F, directed, u, v, out) = Max(Limits(F)) \div Unit
    BY DEF compute_pmax
  <2> HIDE DEF Limits
  <2>3. QED
    BY <2>1, <2>2
<1>6. QED
  BY <1>3, <1>4, <1>5

\* g and h are E with shortcuts past v, numbered from n and from m on, alike.
Alike(E, directed, v, n, m, g, h) ==
  /\ Grown(E, directed, n, v, g) /\ Grown(E, directed, m, v, h)
  /\ Cardinality(g.new) = Cardinality(h.new)
  /\ AlikeEdges(g.edges, h.edges, directed)

\* One edge each, of the same cost, between vertices that had none.
LEMMA AlikeWithOneMore ==
  ASSUME NEW E, NEW F, NEW directed \in BOOLEAN, AlikeEdges(E, F, directed),
         NEW s, NEW t, s.from = t.from, s.to = t.to, s.cost = t.cost,
         ~ HasEdge(E, directed, s.from, s.to), ~ HasEdge(F, directed, s.from, s.to)
  PROVE  AlikeEdges(E \cup {s}, F \cup {t}, directed)
<1> SUFFICES ASSUME NEW x, NEW y
             PROVE  \/ EdgesBetween(E \cup {s}, directed, x, y) = EdgesBetween(F \cup {t}, directed, x, y)
                    \/ \E e \in E \cup {s}, f \in F \cup {t} :
                         /\ EdgesBetween(E \cup {s}, directed, x, y) = {e}
                         /\ EdgesBetween(F \cup {t}, directed, x, y) = {f}
                         /\ e.cost = f.cost
  BY DEF AlikeEdges
<1>1. CASE (s.from = x /\ s.to = y) \/ (~ directed /\ s.from = y /\ s.to = x)
  <2>1. EdgesBetween(E, directed, x, y) = {} /\ EdgesBetween(F, directed, x, y) = {}
    BY <1>1 DEF HasEdge, EdgesBetween
  <2>2. EdgesBetween(E \cup {s}, directed, x, y) = {s} /\ EdgesBetween(F \cup {t}, directed, x, y) = {t}
    BY <1>1, <2>1 DEF EdgesBetween
  <2>3. QED
    BY <2>2
<1>2. CASE ~ ((s.from = x /\ s.to = y) \/ (~ directed /\ s.from = y /\ s.to = x))
  <2>1. /\ EdgesBetween(E \cup {s}, directed, x, y) = EdgesBetween(E, directed, x, y)
        /\ EdgesBetween(F \cup {t}, directed, x, y) = EdgesBetween(F, directed, x, y)
    BY <1>2 DEF EdgesBetween
  <2>2. \/ EdgesBetween(E, directed, x, y) = EdgesBetween(F, directed, x, y)
        \/ \E e \in E, f \in F : /\ EdgesBetween(E, directed, x, y) = {e}
                                 /\ EdgesBetween(F, directed, x, y) = {f}
                                 /\ e.cost = f.cost
    BY DEF AlikeEdges
  <2>3. QED
    BY <2>1, <2>2
<1>3. QED
  BY <1>1, <1>2

\* A shortcut more in both.
LEMMA ShortcutAlike ==
  ASSUME NEW E \in SUBSET Edge, NEW directed \in BOOLEAN, NEW n \in Nat, NEW m \in Nat, NEW v \in Vertex,
         NEW u \in VerticesIn(E), NEW w \in VerticesIn(E), HasUVW(E, directed, u, v, w),
         NEW g, NEW h, Alike(E, directed, v, n, m, g, h)
  PROVE  Alike(E, directed, v, n, m, process_ch_shortcut(g, directed, u, v, w),
                                     process_ch_shortcut(h, directed, u, v, w))
<1> DEFINE p == process_ch_shortcut(g, directed, u, v, w)
           q == process_ch_shortcut(h, directed, u, v, w)
           no(S) == ~ IsShortcutPossible(S, directed, u, v, w) \/ HasEdge(S, directed, u, w)
           none == [x \in Vertex |-> {}]
<1>1. /\ Grown(E, directed, n, v, g) /\ Grown(E, directed, m, v, h)
      /\ Cardinality(g.new) = Cardinality(h.new) /\ AlikeEdges(g.edges, h.edges, directed)
  BY DEF Alike
<1>2. Grown(E, directed, n, v, p) /\ Grown(E, directed, m, v, q)
  BY <1>1, ShortcutGrows
<1>3. g.edges \in SUBSET Edge /\ h.edges \in SUBSET Edge
  BY <1>1 DEF Grown
<1>4. no(g.edges) <=> no(h.edges)
  BY <1>1, <1>3, AlikeDecisions, AlikeReads
<1>5. CASE no(g.edges)
  <2>1. p = g /\ q = h
    BY <1>4, <1>5 DEF process_ch_shortcut
  <2>2. QED
    BY <2>1
<1>6. CASE ~ no(g.edges)
  <2>1. PICK s : s = Shortcut(g.edges, directed, none, -(g.created + 1), u, v, w)
    OBVIOUS
  <2>2. PICK t : t = Shortcut(h.edges, directed, none, -(h.created + 1), u, v, w)
    OBVIOUS
  <2>3. /\ p = [edges |-> g.edges \cup {s}, created |-> g.created + 1, new |-> g.new \cup {s}]
        /\ q = [edges |-> h.edges \cup {t}, created |-> h.created + 1, new |-> h.new \cup {t}]
    BY <1>4, <1>6, <2>1, <2>2 DEF process_ch_shortcut
  <2>4. /\ p.edges = g.edges \cup {s} /\ p.created = g.created + 1
        /\ q.edges = h.edges \cup {t} /\ q.created = h.created + 1
    BY <2>3
  <2> HIDE DEF p, q
  <2>5. /\ s.from = u /\ s.to = w
        /\ s.cost = MinCost(g.edges, directed, u, v) + MinCost(g.edges, directed, v, w)
        /\ t.from = u /\ t.to = w
        /\ t.cost = MinCost(h.edges, directed, u, v) + MinCost(h.edges, directed, v, w)
    BY <2>1, <2>2 DEF Shortcut
  <2>6. s.cost = t.cost
    <3>1. /\ MinCost(g.edges, directed, u, v) = MinCost(h.edges, directed, u, v)
          /\ MinCost(g.edges, directed, v, w) = MinCost(h.edges, directed, v, w)
      BY <1>1, <1>3, AlikeReads
    <3>2. QED
      BY <3>1, <2>5
  <2>7. ~ HasEdge(g.edges, directed, u, w) /\ ~ HasEdge(h.edges, directed, u, w)
    BY <1>4, <1>6
  <2>8. AlikeEdges(p.edges, q.edges, directed)
    <3>1. AlikeEdges(g.edges \cup {s}, h.edges \cup {t}, directed)
      BY <1>1, <2>5, <2>6, <2>7, AlikeWithOneMore
    <3>2. QED
      BY <3>1, <2>4
  <2>9. Cardinality(p.new) = Cardinality(q.new)
    <3>1. \A f \in {g, h, p, q} : IsFiniteSet(f.new) /\ Cardinality(f.new) \in Nat
      BY <1>1, <1>2, FS_CardinalityType DEF Grown
    <3>2. /\ g.created = n + Cardinality(g.new) /\ h.created = m + Cardinality(h.new)
          /\ p.created = n + Cardinality(p.new) /\ q.created = m + Cardinality(q.new)
      BY <1>1, <1>2 DEF Grown
    <3>3. Cardinality(p.new) = Cardinality(g.new) + 1 /\ Cardinality(q.new) = Cardinality(h.new) + 1
      BY <2>4, <3>1, <3>2
    <3>4. QED
      BY <3>3, <1>1
  <2>10. QED
    BY <1>2, <2>8, <2>9 DEF Alike, p, q
<1>7. QED
  BY <1>5, <1>6

\* The same neighbour, once more.
LEMMA DetourStepAlike ==
  ASSUME NEW E \in SUBSET Edge, NEW directed \in BOOLEAN, NEW n \in Nat, NEW m \in Nat, NEW v \in Vertex,
         NEW u \in VerticesIn(E), NEW w \in VerticesIn(E), HasUVW(E, directed, u, v, w),
         NEW labels, NEW g, NEW h, Alike(E, directed, v, n, m, g, h)
  PROVE  Alike(E, directed, v, n, m, DetourStep(directed, labels, u, v, w, g),
                                     DetourStep(directed, labels, u, v, w, h))
<1>1. /\ g.edges \in SUBSET Edge /\ h.edges \in SUBSET Edge
      /\ AlikeEdges(g.edges, h.edges, directed)
  BY DEF Alike, Grown
<1>2. IsDetour(g.edges, directed, labels, u, v, w) <=> IsDetour(h.edges, directed, labels, u, v, w)
  BY <1>1, AlikeDecisions
<1>3. Alike(E, directed, v, n, m, process_ch_shortcut(g, directed, u, v, w),
                                  process_ch_shortcut(h, directed, u, v, w))
  BY ShortcutAlike
<1>4. CASE IsDetour(g.edges, directed, labels, u, v, w)
  <2>1. /\ DetourStep(directed, labels, u, v, w, g) = process_ch_shortcut(g, directed, u, v, w)
        /\ DetourStep(directed, labels, u, v, w, h) = process_ch_shortcut(h, directed, u, v, w)
    BY <1>2, <1>4, DetourStepIs
  <2>2. QED
    BY <1>3, <2>1
<1>5. CASE ~ IsDetour(g.edges, directed, labels, u, v, w)
  <2>1. /\ DetourStep(directed, labels, u, v, w, g) = g
        /\ DetourStep(directed, labels, u, v, w, h) = h
    BY <1>2, <1>5, DetourStepIs
  <2>2. QED
    BY <2>1
<1>6. QED
  BY <1>4, <1>5

\* c.other is the same recursion from another start.
DetouringTwice == INSTANCE Recursion WITH
  Start <- LAMBDA c : c.start, Pick <- LAMBDA c, S : Max(S),
  Step  <- LAMBDA c, w, g : DetourStep(c.directed, c.labels, c.u, c.v, w, g),
  Claim <- LAMBDA c, S, g : Alike(c.E, c.directed, c.v, c.n, c.m, g, c.other[S])

\* The loop over the far side is this recursion, too.
LEMMA DetoursAreFoldedTwice ==
  ASSUME NEW c, NEW out
  PROVE  DetoursOver(c.start, c.directed, c.labels, c.u, c.v, out) = DetouringTwice!Folded(c, out)[out]
BY DEF DetoursOver, ForEach, MapThenFoldSet, DetourStep, DetouringTwice!Folded, DetouringTwice!IsFolded

\* The loop over the far side of v does the same to both.
LEMMA DetoursAlike ==
  ASSUME NEW E \in SUBSET Edge, NEW directed \in BOOLEAN, NEW n \in Nat, NEW m \in Nat, NEW v \in Vertex,
         NEW u \in find_adjacent_in_vertices(E, directed, v), NEW labels,
         NEW g, NEW h, Alike(E, directed, v, n, m, g, h)
  PROVE  Alike(E, directed, v, n, m,
               DetoursOver(g, directed, labels, u, v, find_adjacent_out_vertices(E, directed, v)),
               DetoursOver(h, directed, labels, u, v, find_adjacent_out_vertices(E, directed, v)))
<1> DEFINE out == find_adjacent_out_vertices(E, directed, v)
           same == [E |-> E, directed |-> directed, n |-> n, m |-> m, v |-> v, u |-> u, labels |-> labels]
<1>1. \A w \in out : u \in VerticesIn(E) /\ w \in VerticesIn(E) /\ HasUVW(E, directed, u, v, w)
  BY SidesOfVertex
<1>2. out \in SUBSET Vertex
  BY <1>1, EndsAreVertices
<1> HIDE DEF out
<1>3. /\ IsFiniteSet(out) /\ Detouring!IsFiniteSet(out) /\ DetouringTwice!IsFiniteSet(out)
      /\ \A S \in SUBSET out : S # {} => Max(S) \in S
  <2>1. IsFiniteSet(out) /\ \A S \in SUBSET out : S # {} => Max(S) \in S
    BY <1>2, LastOnes
  <2>2. QED
    BY <2>1 DEF IsFiniteSet, Detouring!IsFiniteSet, DetouringTwice!IsFiniteSet
<1>4. PICK d : d = [E |-> E, directed |-> directed, n |-> m, v |-> v, u |-> u, labels |-> labels,
                    start |-> h]
  OBVIOUS
<1>5. /\ d.directed = directed /\ d.v = v /\ d.u = u /\ d.labels = labels /\ d.start = h
  BY <1>4
<1>6. PICK other : other = Detouring!Folded(d, out)
  OBVIOUS
<1>7. Detouring!IsFolded(other, d, out)
  BY ONLY <1>3, <1>6, Detouring!FoldedExists, Zenon
<1>8. \A S \in SUBSET out :
        other[S] = IF S = {} THEN h ELSE DetourStep(directed, labels, u, v, Max(S), other[S \ {Max(S)}])
  BY <1>5, <1>7 DEF Detouring!IsFolded
<1>9. PICK c : c = [E |-> E, directed |-> directed, n |-> n, m |-> m, v |-> v, u |-> u,
                    labels |-> labels, start |-> g, other |-> other]
  OBVIOUS
<1>10. /\ c.E = E /\ c.directed = directed /\ c.n = n /\ c.m = m /\ c.v = v /\ c.u = u
       /\ c.labels = labels /\ c.start = g /\ c.other = other
  BY <1>9
<1>11. Alike(c.E, c.directed, c.v, c.n, c.m, c.start, c.other[{}])
  <2>1. other[{}] = h
    BY <1>8
  <2>2. QED
    BY <2>1, <1>10
<1>12. ASSUME NEW S \in SUBSET out, S # {}, NEW x,
              Alike(c.E, c.directed, c.v, c.n, c.m, x, c.other[S \ {Max(S)}])
       PROVE  Alike(c.E, c.directed, c.v, c.n, c.m,
                    DetourStep(c.directed, c.labels, c.u, c.v, Max(S), x), c.other[S])
  <2>1. PICK w \in out : w = Max(S)
    BY <1>3, <1>12
  <2>2. PICK y : y = other[S \ {Max(S)}]
    OBVIOUS
  <2>3. Alike(E, directed, v, n, m, x, y)
    BY <1>10, <1>12, <2>2
  <2>4. Alike(E, directed, v, n, m, DetourStep(directed, labels, u, v, w, x),
                                    DetourStep(directed, labels, u, v, w, y))
    BY <1>1, <2>3, DetourStepAlike
  <2>5. other[S] = DetourStep(directed, labels, u, v, w, y)
    BY <1>8, <1>12, <2>1, <2>2
  <2>6. QED
    BY <2>1, <2>4, <2>5, <1>10
<1>13. \A S \in SUBSET out :
         Alike(c.E, c.directed, c.v, c.n, c.m, DetouringTwice!Folded(c, out)[S], c.other[S])
  BY ONLY <1>3, <1>11, <1>12, DetouringTwice!FoldedClaim, Zenon
<1>14. Alike(c.E, c.directed, c.v, c.n, c.m,
             DetoursOver(c.start, c.directed, c.labels, c.u, c.v, out), c.other[out])
  BY <1>13, DetoursAreFoldedTwice
<1>15. other[out] = DetoursOver(h, directed, labels, u, v, out)
  BY <1>5, <1>6, DetoursAreFolded
<1>16. QED
  BY <1>10, <1>14, <1>15 DEF out

\* The same near neighbour, once more.
LEMMA ComputeStepAlike ==
  ASSUME NEW E \in SUBSET Edge, NEW directed \in BOOLEAN, NEW order, NEW n \in Nat, NEW m \in Nat,
         NEW v \in Vertex, NEW u \in find_adjacent_in_vertices(E, directed, v), u \in Vertex,
         NEW g, NEW h, Alike(E, directed, v, n, m, g, h)
  PROVE  Alike(E, directed, v, n, m, ComputeStep(E, directed, order, v, u, g),
                                     ComputeStep(E, directed, order, v, u, h))
<1> DEFINE out == find_adjacent_out_vertices(E, directed, v)
           limit(S) == compute_pmax(S, directed, u, v, out)
           labels(S) == Labelled(S, directed, order, u, limit(S) * Unit)
<1>1. /\ g.edges \in SUBSET Edge /\ h.edges \in SUBSET Edge
      /\ AlikeEdges(g.edges, h.edges, directed)
  BY DEF Alike, Grown
<1>2. limit(g.edges) = limit(h.edges)
  <2> HIDE DEF out
  <2>1. QED
    BY <1>1, AlikeDecisions
<1>3. labels(g.edges) = labels(h.edges)
  <2> HIDE DEF limit
  <2>1. PICK l : l = limit(g.edges) * Unit
    OBVIOUS
  <2>2. Labelled(g.edges, directed, order, u, l) = Labelled(h.edges, directed, order, u, l)
    BY <1>1, AlikeLabels
  <2>3. QED
    BY <1>2, <2>1, <2>2
<1>4. /\ ComputeStep(E, directed, order, v, u, g) =
           IF limit(g.edges) = 0 THEN g ELSE DetoursOver(g, directed, labels(g.edges), u, v, out)
      /\ ComputeStep(E, directed, order, v, u, h) =
           IF limit(h.edges) = 0 THEN h ELSE DetoursOver(h, directed, labels(h.edges), u, v, out)
  BY ComputeStepIs, ComputingIs
<1> HIDE DEF limit, labels
<1>5. PICK l : l = labels(g.edges)
  OBVIOUS
<1>6. Alike(E, directed, v, n, m, DetoursOver(g, directed, l, u, v, out), DetoursOver(h, directed, l, u, v, out))
  BY DetoursAlike
<1> HIDE DEF out
<1>7. CASE limit(g.edges) = 0
  <2>1. ComputeStep(E, directed, order, v, u, g) = g /\ ComputeStep(E, directed, order, v, u, h) = h
    BY <1>2, <1>4, <1>7
  <2>2. QED
    BY <2>1
<1>8. CASE limit(g.edges) # 0
  <2>1. /\ ComputeStep(E, directed, order, v, u, g) = DetoursOver(g, directed, l, u, v, out)
        /\ ComputeStep(E, directed, order, v, u, h) = DetoursOver(h, directed, l, u, v, out)
    BY <1>2, <1>3, <1>4, <1>5, <1>8
  <2>2. QED
    BY <1>6, <2>1
<1>9. QED
  BY <1>7, <1>8

\* The loop over the near side of v, beside c.other, which has other numbers.
ComputingTwice == INSTANCE Recursion WITH
  Start <- LAMBDA c : [edges |-> c.E, created |-> c.n, new |-> {}], Pick <- LAMBDA c, S : Max(S),
  Step  <- LAMBDA c, u, g : ComputeStep(c.E, c.directed, c.order, c.v, u, g),
  Claim <- LAMBDA c, S, g : Alike(c.E, c.directed, c.v, c.n, c.m, g, c.other[S])

\* The loop over the near side is this recursion, too.
LEMMA ShortcutsAreFoldedTwice ==
  ASSUME NEW c
  PROVE  WithShortcuts(c.E, c.directed, c.order, c.n, c.v) =
           ComputingTwice!Folded(c, find_adjacent_in_vertices(c.E, c.directed, c.v))
             [find_adjacent_in_vertices(c.E, c.directed, c.v)]
BY DEF WithShortcuts, ForEach, MapThenFoldSet, ComputeStep, ComputingTwice!Folded, ComputingTwice!IsFolded

\* A vertex gets the same shortcuts whatever numbers they are given.
LEMMA WithShortcutsAlike ==
  ASSUME NEW E \in SUBSET Edge, NEW directed \in BOOLEAN, NEW order, NEW n \in Nat, NEW m \in Nat,
         NEW v \in Vertex
  PROVE  Alike(E, directed, v, n, m, WithShortcuts(E, directed, order, n, v),
                                     WithShortcuts(E, directed, order, m, v))
<1> DEFINE in == find_adjacent_in_vertices(E, directed, v)
           plain(k) == [edges |-> E, created |-> k, new |-> {}]
<1>1. in \in SUBSET Vertex
  BY DEF find_adjacent_in_vertices, Adjacent, Edge
<1> HIDE DEF in
<1>2. /\ IsFiniteSet(in) /\ Computing!IsFiniteSet(in) /\ ComputingTwice!IsFiniteSet(in)
      /\ \A S \in SUBSET in : S # {} => Max(S) \in S
  <2>1. IsFiniteSet(in) /\ \A S \in SUBSET in : S # {} => Max(S) \in S
    BY <1>1, LastOnes
  <2>2. QED
    BY <2>1 DEF IsFiniteSet, Computing!IsFiniteSet, ComputingTwice!IsFiniteSet
<1>3. PICK d : d = [E |-> E, directed |-> directed, order |-> order, n |-> m, v |-> v]
  OBVIOUS
<1>4. d.E = E /\ d.directed = directed /\ d.order = order /\ d.n = m /\ d.v = v
  BY <1>3
<1>5. PICK other : other = Computing!Folded(d, in)
  OBVIOUS
<1>6. Computing!IsFolded(other, d, in)
  BY ONLY <1>2, <1>5, Computing!FoldedExists, Zenon
<1>7. \A S \in SUBSET in :
        other[S] = IF S = {} THEN plain(m)
                   ELSE ComputeStep(E, directed, order, v, Max(S), other[S \ {Max(S)}])
  BY <1>4, <1>6 DEF Computing!IsFolded
<1>8. PICK c : c = [E |-> E, directed |-> directed, order |-> order, n |-> n, m |-> m, v |-> v,
                    other |-> other]
  OBVIOUS
<1>9. /\ c.E = E /\ c.directed = directed /\ c.order = order /\ c.n = n /\ c.m = m /\ c.v = v
      /\ c.other = other
  BY <1>8
<1>10. Alike(c.E, c.directed, c.v, c.n, c.m, [edges |-> c.E, created |-> c.n, new |-> {}], c.other[{}])
  <2>1. other[{}] = plain(m)
    BY <1>7
  <2>2. Grown(E, directed, n, v, plain(n)) /\ Grown(E, directed, m, v, plain(m))
    BY NothingGrown
  <2>3. AlikeEdges(E, E, directed)
    BY DEF AlikeEdges
  <2>4. Alike(E, directed, v, n, m, plain(n), plain(m))
    BY <2>2, <2>3 DEF Alike
  <2>5. QED
    BY <2>1, <2>4, <1>9
<1>11. ASSUME NEW S \in SUBSET in, S # {}, NEW x,
              Alike(c.E, c.directed, c.v, c.n, c.m, x, c.other[S \ {Max(S)}])
       PROVE  Alike(c.E, c.directed, c.v, c.n, c.m,
                    ComputeStep(c.E, c.directed, c.order, c.v, Max(S), x), c.other[S])
  <2>1. PICK u \in in : u = Max(S)
    BY <1>2, <1>11
  <2>2. PICK y : y = other[S \ {Max(S)}]
    OBVIOUS
  <2>3. Alike(E, directed, v, n, m, x, y)
    BY <1>9, <1>11, <2>2
  <2>4. Alike(E, directed, v, n, m, ComputeStep(E, directed, order, v, u, x),
                                    ComputeStep(E, directed, order, v, u, y))
    <3>1. u \in find_adjacent_in_vertices(E, directed, v) /\ u \in Vertex
      BY <1>1 DEF in
    <3>2. QED
      BY <3>1, <2>3, ComputeStepAlike
  <2>5. other[S] = ComputeStep(E, directed, order, v, u, y)
    BY <1>7, <1>11, <2>1, <2>2
  <2>6. QED
    BY <2>1, <2>4, <2>5, <1>9
<1>12. \A S \in SUBSET in :
         Alike(c.E, c.directed, c.v, c.n, c.m, ComputingTwice!Folded(c, in)[S], c.other[S])
  BY ONLY <1>2, <1>10, <1>11, ComputingTwice!FoldedClaim, Zenon
<1>13. /\ WithShortcuts(c.E, c.directed, c.order, c.n, c.v) = ComputingTwice!Folded(c, in)[in]
       /\ WithShortcuts(d.E, d.directed, d.order, d.n, d.v) = other[in]
  <2>1. /\ in = find_adjacent_in_vertices(c.E, c.directed, c.v)
        /\ in = find_adjacent_in_vertices(d.E, d.directed, d.v)
    BY <1>4, <1>9 DEF in
  <2>2. WithShortcuts(c.E, c.directed, c.order, c.n, c.v) = ComputingTwice!Folded(c, in)[in]
    BY <2>1, ShortcutsAreFoldedTwice
  <2>3. WithShortcuts(d.E, d.directed, d.order, d.n, d.v) = Computing!Folded(d, in)[in]
    BY <2>1, ShortcutsAreFolded
  <2>4. QED
    BY <2>2, <2>3, <1>5
<1>14. QED
  BY <1>12, <1>13, <1>4, <1>9

----------------------------------------------------------------------------
(***************************************************************************)
(* Contraction hierarchies: what waits in the queue.                       *)
(***************************************************************************)
\* A vertex waits once.  What was queued again waits with the metric that it
\* would be given now.
QueueInv ==
  /\ \A p, q \in minPQ : p[2] = q[2] => p = q
  /\ RequeuedOnce
  /\ phase = "choosing" =>
       \A v \in Vertex : v \in Range(requeued) => <<Metric(v), v>> \in minPQ

\* As long as the copy is the same, so is the metric.
LEMMA MetricStays ==
  ASSUME ChTypeOK, created' \in Nat, UNCHANGED <<request, rank, copy>>, NEW CONSTANT v \in Vertex
  PROVE  Metric(v)' = Metric(v)
<1>1. copy \in SUBSET Edge /\ is_directed \in BOOLEAN /\ created \in Nat /\ is_directed' = is_directed
  BY RoadsAreEdges DEF ChTypeOK, is_directed
<1>2. Alike(copy, is_directed, v, created, created', Around(v),
            WithShortcuts(copy, is_directed, rank, created', v))
  BY <1>1, WithShortcutsAlike DEF Around
<1>3. Around(v)' = WithShortcuts(copy, is_directed, rank, created', v)
  BY <1>1 DEF Around
<1>4. Cardinality(Around(v)'.new) = Cardinality(Around(v).new)
  BY <1>2, <1>3 DEF Alike
<1>5. Metric(v)' = MetricOf(Around(v)', copy, is_directed, v)
  BY <1>1 DEF Metric
<1>6. QED
  BY <1>4, <1>5 DEF Metric, MetricOf

\* Nothing waits before the call.
LEMMA InitQueueInv == ChInit => QueueInv
BY DEF ChInit, QueueInv, RequeuedOnce, Range

\* The call queues every vertex once.
LEMMA CallQueues ==
  ASSUME ChTypeOK, CopyInv, contractionHierarchies
  PROVE  QueueInv'
<1>1. requeued' = <<>> /\ \A p, q \in minPQ' : p[2] = q[2] => p = q
  BY CallCopies
<1>2. QED
  BY <1>1 DEF QueueInv, RequeuedOnce, Range

\* A vertex that was queued again is not queued again before it is contracted: on
\* top with the metric that it still has, it is not worse than what is beneath it.
LEMMA RequeuedIsContracted ==
  ASSUME ChTypeOK, QueueInv, phase = "choosing", Top \in minPQ,
         \A q \in minPQ : Top[1] <= q[1],
         TopOf(Rest, Top)[1] < Metric(Top[2])
  PROVE  Top[2] \notin Range(requeued)
<1> SUFFICES ASSUME Top[2] \in Range(requeued) PROVE FALSE
  OBVIOUS
<1>1. minPQ \in SUBSET (Int \X Vertex) /\ IsFiniteSet(minPQ)
  BY DEF ChTypeOK
<1>2. <<Metric(Top[2]), Top[2]>> = Top
  BY <1>1 DEF QueueInv
<1>3. Top[1] = Metric(Top[2]) /\ Top[1] \in Int
  BY <1>1, <1>2
<1>4. TopOf(Rest, Top) \in minPQ
  <2>1. Rest \in SUBSET (Int \X Vertex) /\ IsFiniteSet(Rest) /\ Rest \subseteq minPQ
    BY <1>1, FS_Subset DEF Rest
  <2>2. Rest # {} => Least(Rest) \in Rest
    BY <2>1, LeastOfQueue
  <2>3. QED
    BY <2>1, <2>2 DEF TopOf
<1>5. Top[1] <= TopOf(Rest, Top)[1] /\ TopOf(Rest, Top)[1] \in Int
  BY <1>1, <1>4
<1>6. QED
  BY <1>3, <1>5

\* A simulation queues again what was not yet, or takes a vertex out.
LEMMA SimulateQueues ==
  ASSUME ChTypeOK, CopyInv, QueueInv, Simulate
  PROVE  QueueInv'
<1>0. PICK v \in Vertex : v = Top[2]
  BY Simulating
<1>1. /\ phase = "choosing" /\ Top \in minPQ /\ v \in Vertex
      /\ \A q \in minPQ : Top[1] <= q[1]
      /\ copy' = copy /\ created' \in Nat
      /\ \/ /\ TopOf(Rest, Top)[1] < Metric(v)
            /\ minPQ' = Rest \cup {<<Metric(v), v>>}
            /\ requeued' = Append(requeued, v) /\ phase' = phase
         \/ minPQ' = Rest /\ requeued' = requeued /\ phase' = "contracting"
      /\ UNCHANGED <<request, rank>>
  BY <1>0, Simulating
<1>2. requeued \in Seq(Vertex) /\ minPQ \in SUBSET (Int \X Vertex)
  BY DEF ChTypeOK
<1>3. \A p, q \in minPQ : p[2] = q[2] => p = q
  BY DEF QueueInv
<1>4. Rest \subseteq minPQ /\ \A q \in Rest : q[2] # v
  BY <1>0, <1>1, <1>3 DEF Rest
<1>5. CASE minPQ' = Rest /\ requeued' = requeued /\ phase' = "contracting"
  <2>1. \A p, q \in minPQ' : p[2] = q[2] => p = q
    BY <1>3, <1>4, <1>5
  <2>2. RequeuedOnce'
    BY <1>5 DEF QueueInv, RequeuedOnce
  <2>3. QED
    BY <1>5, <2>1, <2>2 DEF QueueInv
<1>6. CASE /\ TopOf(Rest, Top)[1] < Metric(v) /\ minPQ' = Rest \cup {<<Metric(v), v>>}
           /\ requeued' = Append(requeued, v) /\ phase' = phase
  <2>1. \A p, q \in minPQ' : p[2] = q[2] => p = q
    <3>1. <<Metric(v), v>>[2] = v
      OBVIOUS
    <3>2. QED
      BY <1>3, <1>4, <1>6, <3>1
  <2>2. v \notin Range(requeued)
    BY <1>0, <1>1, <1>6, RequeuedIsContracted
  <2>3. Range(requeued') = Range(requeued) \cup {v}
    BY <1>2, <1>6, RangeOfAppend
  <2>4. RequeuedOnce'
    <3>1. /\ DOMAIN requeued' = 1..Len(requeued) + 1 /\ DOMAIN requeued = 1..Len(requeued)
          /\ Len(requeued) \in Nat /\ requeued'[Len(requeued) + 1] = v
          /\ \A i \in DOMAIN requeued : requeued'[i] = requeued[i]
      BY <1>2, <1>6
    <3>2. \A i \in DOMAIN requeued' : i \in DOMAIN requeued \/ i = Len(requeued) + 1
      BY <3>1
    <3>3. \A i \in DOMAIN requeued : requeued[i] # v
      BY <2>2 DEF Range
    <3>4. \A i, j \in DOMAIN requeued : requeued[i] = requeued[j] => i = j
      BY DEF QueueInv, RequeuedOnce
    <3>5. QED
      BY <3>1, <3>2, <3>3, <3>4 DEF RequeuedOnce
  <2>5. \A x \in Vertex : Metric(x)' = Metric(x)
    BY <1>1, MetricStays
  <2>6. ASSUME NEW CONSTANT x \in Vertex, x \in Range(requeued') PROVE <<Metric(x)', x>> \in minPQ'
    <3>1. CASE x = v
      BY <1>6, <2>5, <3>1
    <3>2. CASE x # v
      <4>1. <<Metric(x), x>> \in minPQ
        BY <1>1, <2>3, <2>6, <3>2 DEF QueueInv
      <4>2. <<Metric(x), x>> # Top
        BY <1>0, <3>2
      <4>3. QED
        BY <4>1, <4>2, <1>6, <2>5 DEF Rest
    <3>3. QED
      BY <3>1, <3>2
  <2>7. \A x \in Vertex : x \in Range(requeued') => <<Metric(x)', x>> \in minPQ'
    BY <2>6
  <2>8. QED
    BY <2>1, <2>4, <2>7 DEF QueueInv
<1>7. QED
  BY <1>1, <1>5, <1>6

\* A contraction empties the list of those that were queued again.
LEMMA ContractQueues ==
  ASSUME ChTypeOK, CopyInv, QueueInv, Contract
  PROVE  QueueInv'
<1>1. requeued' = <<>> /\ minPQ' = minPQ
  BY Contracting
<1>2. QED
  BY <1>1 DEF QueueInv, RequeuedOnce, Range

\* Nothing else touches the queue, or what the metric is computed from.
LEMMA QuietQueues ==
  ASSUME ChTypeOK, QueueInv, Quiet
  PROVE  QueueInv'
<1>1. /\ UNCHANGED <<request, rank, copy, minPQ, requeued>> /\ created' \in Nat
      /\ phase' = "choosing" => phase = "choosing"
  BY DEF Quiet, ChTypeOK
<1>2. \A x \in Vertex : Metric(x)' = Metric(x)
  BY <1>1, MetricStays
<1>3. RequeuedOnce'
  BY <1>1 DEF QueueInv, RequeuedOnce
<1>4. phase' = "choosing" =>
        \A x \in Vertex : x \in Range(requeued') => <<Metric(x)', x>> \in minPQ'
  BY <1>1, <1>2 DEF QueueInv
<1>5. QED
  BY <1>1, <1>3, <1>4 DEF QueueInv

\* Every step keeps the queue.
LEMMA NextQueueInv == ChTypeOK /\ CopyInv /\ QueueInv /\ [ChNext]_chVars => QueueInv'
BY ChSteps, CallQueues, SimulateQueues, ContractQueues, QuietQueues

\* pgr_contractionHierarchies on any graph, with any heap: the copy is at all times
\* the roads and shortcuts between the vertices that are left, whatever simulations
\* did in it, and a vertex is queued again once at most before the next contraction
\* (contractionHierarchies.hpp:203-218, 259-298).
THEOREM SimulatingIsHarmless == ChSpec => []SimulationsLeaveNothing
<1>1. CopyInv /\ QueueInv => SimulationsLeaveNothing
  BY DEF CopyInv, QueueInv, SimulationsLeaveNothing
<1>2. QED
  BY <1>1, InitCopyInv, NextCopyInv, InitQueueInv, NextQueueInv, PTL DEF ChSpec
=============================================================================
