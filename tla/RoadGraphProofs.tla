-------------------------- MODULE RoadGraphProofs --------------------------
(***************************************************************************)
(* Lemmas the proofs of this project share: about sets of natural numbers, *)
(* which the vertex descriptors are, and about arcs.                       *)
(***************************************************************************)
EXTENDS RoadGraph, FiniteSetTheorems, WellFoundedInduction, NaturalsInduction, TLAPS

\* A set of natural numbers that is not empty has a least element, and Min
\* returns it.
LEMMA MinOfNaturals ==
  ASSUME NEW S \in SUBSET Nat, S # {}
  PROVE  Min(S) \in S /\ \A x \in S : Min(S) <= x
<1> DEFINE R == {p \in Nat \X Nat : p[1] < p[2]}
<1>1. OpToRel(<, Nat) = R
  BY DEF OpToRel
<1>2. PICK x \in S : \A y \in S : ~ (<<y, x>> \in R)
  <2>1. IsWellFoundedOn(R, Nat)
    BY <1>1, NatLessThanWellFounded
  <2>2. QED
    BY <2>1, WFMin
<1>3. ASSUME NEW y \in S, y < x PROVE FALSE
  <2>1. <<y, x>> \in Nat \X Nat /\ <<y, x>>[1] < <<y, x>>[2]
    BY <1>3
  <2>2. <<y, x>> \in R
    BY <2>1
  <2>3. QED
    BY <2>2, <1>2
<1>4. \A y \in S : x <= y
  <2>1. S \subseteq Nat
    OBVIOUS
  <2>2. QED
    BY <1>3, <2>1
<1>5. QED
  BY <1>4 DEF Min

\* Turning the arcs around keeps them arcs.
LEMMA ReversedArcs ==
  ASSUME NEW g \in SUBSET Arc
  PROVE  Reversed(g) \in SUBSET Arc
BY DEF Reversed, Arc

\* A set of two natural numbers consists of its least and its greatest element.
LEMMA PairOfNaturals ==
  ASSUME NEW S \in SUBSET Nat, IsFiniteSet(S), Cardinality(S) = 2
  PROVE  S = {Min(S), Max(S)} /\ Min(S) # Max(S)
<1>1. S # {}
  BY FS_EmptySet
<1>2. PICK a \in S : TRUE
  BY <1>1
<1>3. IsFiniteSet(S \ {a}) /\ Cardinality(S \ {a}) = 1
  BY <1>2, FS_RemoveElement
<1>4. PICK b : S \ {a} = {b}
  BY <1>3, FS_Singleton
<1>5. S = {a, b} /\ a # b /\ a \in Nat /\ b \in Nat
  BY <1>2, <1>4
<1>6. Min(S) \in S /\ \A x \in S : Min(S) <= x
  BY <1>1, MinOfNaturals
<1>7. Max(S) \in S /\ \A x \in S : Max(S) >= x
  <2>1. \E x \in S : \A y \in S : x >= y
    BY <1>5
  <2>2. QED
    BY <2>1 DEF Max
<1>8. QED
  BY <1>5, <1>6, <1>7

----------------------------------------------------------------------------
(***************************************************************************)
(* Distances.  Distance looks at walks of at most n - 1 arcs; what it      *)
(* returns is the greatest potential, which is what IsDistance says.       *)
(***************************************************************************)
\* Walks with one more arc.
OneMoreArc(arcs, W) ==
  W \cup {<<p[2].to, p[1][2] + p[2].cost>> : p \in {q \in W \X arcs : q[1][1] = q[2].from}}

\* No potential is above a walk.
AbovePotentials(c, W) ==
  /\ W \subseteq Vertex \X Nat
  /\ \A D : Potential(c.arcs, c.root, D) => \A w \in W : D[w[1]] <= w[2]

\* The vertices to which a walk is known that is as cheap as the potential D allows.
TightIn(D, W) == {v \in Vertex : D[v] < INF /\ <<v, D[v]>> \in W}

\* Either all such vertices are known, or each round found one more.
Advances(c, n, W) ==
  /\ <<c.root, 0>> \in W
  /\ \/ \A v \in Vertex : c.greatest[v] < INF => v \in TightIn(c.greatest, W)
     \/ Cardinality(TightIn(c.greatest, W)) > n

Walking == INSTANCE Recursion WITH
  Start <- LAMBDA c : {<<c.root, 0>>}, Pick <- LAMBDA c, S : S,
  Step  <- LAMBDA c, n, W : OneMoreArc(c.arcs, W),
  Claim <- LAMBDA c, n, W : AbovePotentials(c, W) /\ Advances(c, n, W)

\* The walks are those of the recursion.
LEMMA WalksAreCounted ==
  ASSUME NEW arcs, NEW root, NEW D
  PROVE  WalkCosts(arcs, root) =
           Walking!Counted([arcs |-> arcs, root |-> root, greatest |-> D],
                           0, Cardinality(Vertex) - 1)[Cardinality(Vertex) - 1]
BY DEF WalkCosts, OneMoreArc, Walking!Counted, Walking!IsCounted

\* D is the greatest potential.
IsGreatest(arcs, root, D) ==
  /\ Potential(arcs, root, D)
  /\ \A E : Potential(arcs, root, E) => \A w \in Vertex : E[w] <= D[w]

\* A set of labels that is not empty has a greatest element.
LEMMA GreatestLabel ==
  ASSUME NEW S \in SUBSET (0..INF), S # {}
  PROVE  \E m \in S : \A x \in S : x <= m
<1> DEFINE G == {k \in Nat : INF - k \in S}
<1>0. INF \in Nat
  BY InfAssumption
<1>1. ASSUME NEW x \in S PROVE x \in 0..INF /\ INF - x \in Nat /\ INF - (INF - x) = x
  BY <1>0
<1>2. \A x \in S : INF - x \in G
  BY <1>1
<1>3. G # {} /\ G \in SUBSET Nat
  BY <1>2
<1>4. PICK k \in G : \A j \in G : k <= j
  BY <1>3, MinOfNaturals
<1>5. INF - k \in S
  BY <1>4
<1>6. ASSUME NEW x \in S PROVE x <= INF - k
  <2>1. k <= INF - x /\ k \in Nat
    BY <1>2, <1>4
  <2>2. QED
    BY <2>1, <1>1, <1>0
<1>7. QED
  BY <1>5, <1>6

\* Potentials have a pointwise maximum, and it is one of them.
LEMMA GreatestExists ==
  ASSUME NEW arcs \in SUBSET Arc, NEW root \in Vertex
  PROVE  \E D : IsGreatest(arcs, root, D)
<1> DEFINE P(E) == Potential(arcs, root, E)
           Values(w) == {x \in 0..INF : \E E : P(E) /\ E[w] = x}
           IsMax(w, m) == m \in Values(w) /\ \A x \in Values(w) : x <= m
           D == [w \in Vertex |-> CHOOSE m : IsMax(w, m)]
<1>0. INF \in Nat
  BY InfAssumption
<1>1. \A E : P(E) => \A w \in Vertex : E[w] \in 0..INF /\ E[w] \in Values(w)
  BY DEF Potential
<1>2. P([w \in Vertex |-> 0])
  BY <1>0 DEF Potential, Arc
<1>3. ASSUME NEW w \in Vertex PROVE IsMax(w, D[w])
  <2>1. Values(w) # {} /\ Values(w) \in SUBSET (0..INF)
    BY <1>1, <1>2
  <2> HIDE DEF Values
  <2>2. \E m : IsMax(w, m)
    BY <2>1, GreatestLabel
  <2>3. IsMax(w, CHOOSE m : IsMax(w, m))
    BY <2>2
  <2>4. QED
    BY <2>3
<1> HIDE DEF D
<1>4. \A w \in Vertex : D[w] \in 0..INF
  BY <1>3
<1>5. D[root] = 0
  BY <1>3 DEF Potential
<1>6. ASSUME NEW a \in arcs PROVE D[a.to] <= D[a.from] + a.cost
  <2>1. a.from \in Vertex /\ a.to \in Vertex /\ a.cost \in Nat
    BY DEF Arc
  <2>2. PICK E : P(E) /\ E[a.to] = D[a.to]
    BY <2>1, <1>3
  <2>3. E[a.to] <= E[a.from] + a.cost
    BY <2>2 DEF Potential
  <2>4. E[a.from] <= D[a.from] /\ E[a.from] \in 0..INF
    BY <2>1, <2>2, <1>1, <1>3
  <2>5. D[a.from] \in 0..INF /\ D[a.to] \in 0..INF
    BY <2>1, <1>4
  <2>6. QED
    BY <2>1, <2>2, <2>3, <2>4, <2>5, <1>0
<1>7. D = [w \in Vertex |-> D[w]]
  BY DEF D
<1>8. P(D)
  BY <1>4, <1>5, <1>6, <1>7 DEF Potential
<1>9. \A E : P(E) => \A w \in Vertex : E[w] <= D[w]
  BY <1>1, <1>3
<1>10. QED
  BY <1>8, <1>9 DEF IsGreatest

\* The distance is the value of the greatest potential.
LEMMA GreatestIsDistance ==
  ASSUME NEW arcs, NEW root \in Vertex, NEW D, IsGreatest(arcs, root, D),
         NEW v \in Vertex, NEW d
  PROVE  IsDistance(arcs, root, v, d) <=> d = D[v]
<1> DEFINE Grounded(E) == [w \in Vertex |-> IF w = root THEN 0 ELSE E[w]]
           Rest == [w \in Vertex \ {root} |-> D[w]]
           Holds == /\ \E E \in [Vertex \ {root} -> 0..INF] :
                         Grounded(E)[v] = d /\ Potential(arcs, root, Grounded(E))
                    /\ \A E \in [Vertex \ {root} -> 0..INF] :
                         Potential(arcs, root, Grounded(E)) => Grounded(E)[v] <= d
<1>1. IsDistance(arcs, root, v, d) <=> Holds
  BY DEF IsDistance
<1>2. /\ Potential(arcs, root, D) /\ D \in [Vertex -> 0..INF] /\ D[root] = 0
      /\ \A E : Potential(arcs, root, E) => E[v] <= D[v]
  BY DEF IsGreatest, Potential
<1>3. Rest \in [Vertex \ {root} -> 0..INF] /\ Grounded(Rest) = D
  BY <1>2
<1>4. \A E \in [Vertex \ {root} -> 0..INF] : Grounded(E)[v] \in 0..INF
  BY InfAssumption
<1>5. D[v] \in 0..INF
  BY <1>2
<1> HIDE DEF Grounded, Rest
<1>6. Holds => d <= D[v] /\ D[v] <= d /\ d \in 0..INF
  BY <1>2, <1>3, <1>4
<1>7. d = D[v] => Holds
  BY <1>2, <1>3
<1>8. QED
  BY <1>1, <1>5, <1>6, <1>7, InfAssumption

\* A walk with one more arc is no better than a potential allows either.
LEMMA MoreWalksAbove ==
  ASSUME NEW c, c.arcs \in SUBSET Arc, NEW W, AbovePotentials(c, W)
  PROVE  AbovePotentials(c, OneMoreArc(c.arcs, W))
<1> DEFINE X == OneMoreArc(c.arcs, W)
<1>1. ASSUME NEW x \in X
      PROVE  \/ x \in W
             \/ \E w \in W, a \in c.arcs : w[1] = a.from /\ x = <<a.to, w[2] + a.cost>>
  BY DEF OneMoreArc
<1>2. \A w \in W : w[1] \in Vertex /\ w[2] \in Nat /\ w = <<w[1], w[2]>>
  BY DEF AbovePotentials
<1>3. \A a \in c.arcs : a.to \in Vertex /\ a.from \in Vertex /\ a.cost \in Nat
  BY DEF Arc
<1> HIDE DEF X
<1>4. X \subseteq Vertex \X Nat
  BY <1>1, <1>2, <1>3
<1>5. ASSUME NEW D, Potential(c.arcs, c.root, D), NEW x \in X PROVE D[x[1]] <= x[2]
  <2>1. CASE x \in W
    BY <2>1, <1>5 DEF AbovePotentials
  <2>2. ASSUME NEW w \in W, NEW a \in c.arcs, w[1] = a.from, x = <<a.to, w[2] + a.cost>>
        PROVE  D[x[1]] <= x[2]
    <3>1. D[a.from] <= w[2] /\ D[a.to] <= D[a.from] + a.cost
      BY <2>2, <1>5 DEF AbovePotentials, Potential
    <3>2. D[a.from] \in 0..INF /\ D[a.to] \in 0..INF /\ w[2] \in Nat /\ a.cost \in Nat
      BY <1>2, <1>3, <1>5 DEF Potential
    <3>3. x[1] = a.to /\ x[2] = w[2] + a.cost
      BY <2>2
    <3>4. QED
      BY <3>1, <3>2, <3>3, InfAssumption
  <2>3. QED
    BY <2>1, <2>2, <1>1
<1>6. QED
  BY <1>4, <1>5 DEF AbovePotentials, X

\* When a round finds no vertex, a vertex that is still missing, and all the others
\* that are, could be given more: the potential was not the greatest.
LEMMA NothingMissing ==
  ASSUME NEW arcs \in SUBSET Arc, NEW root \in Vertex, NEW D, IsGreatest(arcs, root, D),
         NEW W, <<root, 0>> \in W, TightIn(D, OneMoreArc(arcs, W)) = TightIn(D, W)
  PROVE  \A v \in Vertex : D[v] < INF => v \in TightIn(D, W)
<1> DEFINE T == TightIn(D, W)
           U == {v \in Vertex : D[v] < INF /\ v \notin T}
           E == [v \in Vertex |-> IF v \in U THEN D[v] + 1 ELSE D[v]]
<1>0. INF \in Nat \ {0}
  BY InfAssumption
<1>1. /\ \A v \in Vertex : D[v] \in 0..INF
      /\ D[root] = 0 /\ \A a \in arcs : D[a.to] <= D[a.from] + a.cost
  BY DEF IsGreatest, Potential
<1>2. root \in T
  BY <1>0, <1>1 DEF TightIn
<1>3. \A v \in Vertex : v \in T => D[v] < INF /\ <<v, D[v]>> \in W
  BY DEF TightIn
<1>4. ASSUME NEW a \in arcs, a.from \in T, D[a.to] < INF, D[a.to] = D[a.from] + a.cost
      PROVE  a.to \in T
  <2>1. a.from \in Vertex /\ a.to \in Vertex
    BY DEF Arc
  <2>2. <<a.from, D[a.from]>> \in W
    BY <2>1, <1>3, <1>4
  <2> DEFINE w == <<a.from, D[a.from]>>
             q == <<w, a>>
  <2>3. q \in W \X arcs /\ q[1][1] = q[2].from /\ <<q[2].to, q[1][2] + q[2].cost>> = <<a.to, D[a.to]>>
    BY <2>2, <1>4
  <2>4. <<a.to, D[a.to]>> \in OneMoreArc(arcs, W)
    BY <2>3 DEF OneMoreArc
  <2>5. QED
    BY <2>1, <2>4, <1>4 DEF TightIn
<1> HIDE DEF T
<1>5. SUFFICES ASSUME U # {} PROVE FALSE
  BY DEF T
<1>6. \A v \in Vertex : E[v] = IF v \in U THEN D[v] + 1 ELSE D[v]
  OBVIOUS
<1>7. E \in [Vertex -> 0..INF]
  BY <1>0, <1>1
<1> HIDE DEF E
<1>8. E[root] = 0
  BY <1>1, <1>2, <1>6
<1>9. ASSUME NEW a \in arcs PROVE E[a.to] <= E[a.from] + a.cost
  <2>1. a.from \in Vertex /\ a.to \in Vertex /\ a.cost \in Nat
    BY DEF Arc
  <2>2. /\ D[a.from] \in 0..INF /\ D[a.to] \in 0..INF /\ D[a.to] <= D[a.from] + a.cost
        /\ D[a.from] <= E[a.from] /\ E[a.from] \in 0..INF /\ E[a.to] \in 0..INF
    BY <2>1, <1>0, <1>1, <1>6, <1>7
  <2>3. CASE a.to \notin U
    BY <2>1, <2>2, <2>3, <1>0, <1>6
  <2>4. CASE a.to \in U /\ a.from \in U
    BY <2>1, <2>2, <2>4, <1>0, <1>6
  <2>5. CASE a.to \in U /\ a.from \in T
    <3>1. D[a.to] # D[a.from] + a.cost
      BY <2>5, <1>4
    <3>2. E[a.to] = D[a.to] + 1
      BY <2>1, <2>5, <1>6
    <3>3. QED
      BY <3>1, <3>2, <2>1, <2>2, <1>0
  <2>6. CASE a.to \in U /\ ~ (D[a.from] < INF)
    BY <2>1, <2>2, <2>6, <1>0
  <2>7. QED
    BY <2>1, <2>3, <2>4, <2>5, <2>6
<1>10. Potential(arcs, root, E)
  BY <1>7, <1>8, <1>9 DEF Potential
<1>11. PICK u \in U : TRUE
  BY <1>5
<1>12. E[u] <= D[u]
  BY <1>10, <1>11 DEF IsGreatest
<1>13. QED
  BY <1>12, <1>11, <1>1, <1>6

\* Each round finds one more vertex until none is missing.
LEMMA MoreWalksAdvance ==
  ASSUME NEW c, c.arcs \in SUBSET Arc, c.root \in Vertex,
         IsGreatest(c.arcs, c.root, c.greatest),
         NEW n \in Int, NEW W, Advances(c, n - 1, W)
  PROVE  Advances(c, n, OneMoreArc(c.arcs, W))
<1> DEFINE X == OneMoreArc(c.arcs, W)
           T == TightIn(c.greatest, W)
           S == TightIn(c.greatest, X)
<1>1. W \subseteq X
  BY DEF OneMoreArc
<1>2. T \subseteq S /\ S \subseteq Vertex
  BY <1>1 DEF TightIn
<1>3. /\ IsFiniteSet(S) /\ Cardinality(T) \in Nat /\ Cardinality(S) \in Nat
      /\ Cardinality(T) <= Cardinality(S) /\ (Cardinality(S) = Cardinality(T) => S = T)
  <2>1. IsFiniteSet(S)
    BY <1>2, VertexAssumption, FS_Subset
  <2>2. T \in SUBSET S
    BY <1>2
  <2> HIDE DEF S, T
  <2>3. IsFiniteSet(T)
    BY <2>1, <2>2, FS_Subset
  <2>4. QED
    BY <2>1, <2>2, <2>3, FS_Subset, FS_CardinalityType
<1>4. <<c.root, 0>> \in W
  BY DEF Advances
<1>5. CASE S = T
  <2>1. \A v \in Vertex : c.greatest[v] < INF => v \in T
    BY <1>4, <1>5, NothingMissing
  <2>2. QED
    BY <2>1, <1>1, <1>4, <1>5 DEF Advances
<1>6. CASE S # T
  <2>1. CASE \A v \in Vertex : c.greatest[v] < INF => v \in T
    BY <2>1, <1>1, <1>2, <1>4 DEF Advances
  <2>2. CASE Cardinality(T) > n - 1
    <3> HIDE DEF S, T, X
    <3>1. Cardinality(S) > n
      BY <2>2, <1>3, <1>6
    <3>2. QED
      BY <3>1, <1>1, <1>4 DEF Advances, S, X
  <2>3. QED
    BY <2>1, <2>2 DEF Advances
<1>7. QED
  BY <1>5, <1>6

\* What Distance computes is the value of the greatest potential.
LEMMA DistanceIsGreatest ==
  ASSUME NEW arcs \in SUBSET Arc, NEW root \in Vertex, NEW D, IsGreatest(arcs, root, D),
         NEW v \in Vertex
  PROVE  Distance(arcs, root, v) = D[v]
<1> DEFINE N == Cardinality(Vertex)
           c == [arcs |-> arcs, root |-> root, greatest |-> D]
           W == WalkCosts(arcs, root)
<1>0. N \in Nat \ {0} /\ INF \in Nat \ {0}
  BY VertexAssumption, InfAssumption, FS_CardinalityType, FS_EmptySet
<1>1. c.arcs = arcs /\ c.root = root /\ c.greatest = D
  OBVIOUS
<1>2. /\ \A u \in Vertex : D[u] \in 0..INF
      /\ Potential(arcs, root, D) /\ D[root] = 0
  BY DEF IsGreatest, Potential
<1>3. W = Walking!Counted(c, 0, N - 1)[N - 1]
  BY WalksAreCounted
<1> HIDE DEF c, W, N
<1>4. AbovePotentials(c, {<<c.root, 0>>}) /\ Advances(c, 0, {<<c.root, 0>>})
  <2>1. {<<root, 0>>} \subseteq Vertex \X Nat
    OBVIOUS
  <2>2. \A E : Potential(arcs, root, E) => \A w \in {<<root, 0>>} : E[w[1]] <= w[2]
    BY DEF Potential
  <2>3. root \in TightIn(D, {<<root, 0>>}) /\ TightIn(D, {<<root, 0>>}) \subseteq Vertex
    BY <1>0, <1>2 DEF TightIn
  <2>4. Cardinality(TightIn(D, {<<root, 0>>})) > 0
    <3> DEFINE T == TightIn(D, {<<root, 0>>})
    <3>1. IsFiniteSet(T) /\ T # {}
      BY <2>3, VertexAssumption, FS_Subset
    <3> HIDE DEF T
    <3>2. Cardinality(T) \in Nat /\ Cardinality(T) # 0
      BY <3>1, FS_CardinalityType, FS_EmptySet
    <3>3. QED
      BY <3>2 DEF T
  <2>5. QED
    BY <2>1, <2>2, <2>4, <1>1 DEF AbovePotentials, Advances
<1>5. \A i \in 0 + 1..N - 1 : \A x :
         AbovePotentials(c, x) /\ Advances(c, i - 1, x) =>
           AbovePotentials(c, OneMoreArc(c.arcs, x)) /\ Advances(c, i, OneMoreArc(c.arcs, x))
  <2> SUFFICES ASSUME NEW i \in 0 + 1..N - 1, NEW x, AbovePotentials(c, x), Advances(c, i - 1, x)
               PROVE  /\ AbovePotentials(c, OneMoreArc(c.arcs, x))
                      /\ Advances(c, i, OneMoreArc(c.arcs, x))
    OBVIOUS
  <2>1. i \in Int /\ c.arcs \in SUBSET Arc /\ c.root \in Vertex /\ IsGreatest(c.arcs, c.root, c.greatest)
    BY <1>1
  <2>2. QED
    BY <2>1, MoreWalksAbove, MoreWalksAdvance
<1>6. 0 \in Int /\ N - 1 \in Int /\ N - 1 \in 0..N - 1
  BY <1>0
<1>7. \A i \in 0..N - 1 : /\ AbovePotentials(c, Walking!Counted(c, 0, N - 1)[i])
                          /\ Advances(c, i, Walking!Counted(c, 0, N - 1)[i])
  BY ONLY <1>4, <1>5, <1>6, Walking!CountedClaim, Zenon
<1>8. AbovePotentials(c, W) /\ Advances(c, N - 1, W)
  BY <1>3, <1>6, <1>7
<1>9. /\ W \subseteq Vertex \X Nat
      /\ \A w \in W : D[w[1]] <= w[2]
  BY <1>1, <1>2, <1>8 DEF AbovePotentials
<1>10. \A u \in Vertex : D[u] < INF => <<u, D[u]>> \in W
  <2> DEFINE T == TightIn(D, W)
  <2>1. CASE \A u \in Vertex : D[u] < INF => u \in T
    BY <2>1 DEF TightIn
  <2>2. CASE Cardinality(T) > N - 1
    <3>1. T \in SUBSET Vertex /\ IsFiniteSet(Vertex)
      BY VertexAssumption DEF TightIn
    <3> HIDE DEF T
    <3>2. /\ IsFiniteSet(T) /\ Cardinality(T) <= Cardinality(Vertex)
          /\ (Cardinality(Vertex) = Cardinality(T) => Vertex = T)
      BY <3>1, FS_Subset
    <3>3. Cardinality(T) \in Nat
      BY <3>2, FS_CardinalityType
    <3>4. Cardinality(Vertex) = Cardinality(T)
      BY <3>2, <3>3, <2>2, <1>0 DEF N
    <3>5. T = Vertex
      BY <3>2, <3>4
    <3>6. QED
      BY <3>5 DEF T, TightIn
  <2>3. QED
    BY <2>1, <2>2, <1>1, <1>8 DEF Advances
<1> DEFINE S == {INF} \cup {w[2] : w \in {x \in W : x[1] = v}}
<1>11. Distance(arcs, root, v) = Min(S)
  BY DEF Distance, W
<1>12. S \in SUBSET Nat /\ S # {}
  BY <1>0, <1>9
<1>13. \A x \in S : D[v] <= x
  BY <1>0, <1>2, <1>9
<1>14. D[v] \in S
  <2>1. CASE D[v] < INF
    <3>1. <<v, D[v]>> \in {x \in W : x[1] = v}
      BY <2>1, <1>10
    <3>2. QED
      BY <3>1
  <2>2. CASE ~ (D[v] < INF)
    BY <2>2, <1>0, <1>2
  <2>3. QED
    BY <2>1, <2>2
<1> HIDE DEF S
<1>15. Min(S) \in S /\ \A x \in S : Min(S) <= x
  BY <1>12, MinOfNaturals
<1>16. Min(S) = D[v]
  <2>1. Min(S) \in Nat /\ Min(S) <= D[v] /\ D[v] <= Min(S)
    BY <1>12, <1>13, <1>14, <1>15
  <2>2. D[v] \in Nat
    BY <1>12, <1>14
  <2>3. QED
    BY <2>1, <2>2
<1>17. QED
  BY <1>11, <1>16

\* Every vertex has exactly one distance, and Distance computes it.
THEOREM DistanceTheorem ==
  ASSUME NEW arcs \in SUBSET Arc, NEW root \in Vertex, NEW v \in Vertex, NEW d
  PROVE  IsDistance(arcs, root, v, d) <=> d = Distance(arcs, root, v)
<1>1. PICK D : IsGreatest(arcs, root, D)
  BY GreatestExists
<1>2. QED
  BY <1>1, GreatestIsDistance, DistanceIsGreatest

\* What distances are like: a label, zero at the root, and never more at the end of
\* an arc than at its beginning and the cost.
LEMMA DistanceFacts ==
  ASSUME NEW arcs \in SUBSET Arc, NEW root \in Vertex
  PROVE  /\ \A v \in Vertex : Distance(arcs, root, v) \in 0..INF
         /\ Distance(arcs, root, root) = 0
         /\ \A a \in arcs : Distance(arcs, root, a.to) <= Distance(arcs, root, a.from) + a.cost
<1>1. PICK D : IsGreatest(arcs, root, D)
  BY GreatestExists
<1>2. \A v \in Vertex : Distance(arcs, root, v) = D[v]
  BY <1>1, DistanceIsGreatest
<1>3. \A a \in arcs : a.from \in Vertex /\ a.to \in Vertex
  BY DEF Arc
<1>4. QED
  BY <1>1, <1>2, <1>3 DEF IsGreatest, Potential

\* Nothing is reached from a vertex without arcs.
LEMMA DistanceFromNowhere ==
  ASSUME NEW arcs \in SUBSET Arc, NEW root \in Vertex, NEW v \in Vertex, v # root,
         \A a \in arcs : a.from # root
  PROVE  Distance(arcs, root, v) = INF
<1> DEFINE E == [w \in Vertex |-> IF w = root THEN 0 ELSE INF]
<1>1. PICK D : IsGreatest(arcs, root, D)
  BY GreatestExists
<1>2. Potential(arcs, root, E)
  <2>1. E \in [Vertex -> 0..INF] /\ E[root] = 0
    BY InfAssumption
  <2>2. ASSUME NEW a \in arcs PROVE E[a.to] <= E[a.from] + a.cost
    BY InfAssumption DEF Arc
  <2>3. QED
    BY <2>1, <2>2 DEF Potential
<1>3. E[v] <= D[v] /\ D[v] \in 0..INF /\ E[v] = INF
  BY <1>1, <1>2 DEF IsGreatest, Potential
<1>4. D[v] = INF
  BY <1>3, InfAssumption
<1>5. QED
  BY <1>1, <1>4, DistanceIsGreatest
=============================================================================
