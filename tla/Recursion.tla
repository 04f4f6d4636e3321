----------------------------- MODULE Recursion -----------------------------
(***************************************************************************)
(* What recursive functions compute, for every input.  A module that needs *)
(* it is an instance of this one: Start and Step are the recursion, about  *)
(* a parameter c, and Claim is what is to be shown of the values.          *)
(***************************************************************************)
EXTENDS Integers, FiniteSets, FiniteSetTheorems, NaturalsInduction, WellFoundedInduction, TLAPS

CONSTANTS Start(_),        \* the value at the first index, or for no element
          Step(_, _, _),   \* of c, an index or element, and the value before
          Pick(_, _),      \* the element of a set that is taken out last
          Claim(_, _, _)   \* of c, an index or a set, and the value there

\* Along the indices from m to n.
IsCounted(g, c, m, n) ==
  g = [i \in m..n |-> IF i = m THEN Start(c) ELSE Step(c, i, g[i - 1])]

Counted(c, m, n) == CHOOSE g : IsCounted(g, c, m, n)

\* Over the subsets of S.
IsFolded(g, c, S) ==
  g = [s \in SUBSET S |-> IF s = {} THEN Start(c)
                          ELSE Step(c, Pick(c, s), g[s \ {Pick(c, s)}])]

Folded(c, S) == CHOOSE g : IsFolded(g, c, S)

----------------------------------------------------------------------------
\* A set of natural numbers that is not empty has a least element.
LEMMA LeastElement ==
  ASSUME NEW S \in SUBSET Nat, S # {}
  PROVE  \E x \in S : \A y \in S : x <= y
<1> DEFINE R == {p \in Nat \X Nat : p[1] < p[2]}
<1>1. OpToRel(<, Nat) = R
  BY DEF OpToRel
<1>2. PICK x \in S : \A y \in S : ~ (<<y, x>> \in R)
  BY <1>1, NatLessThanWellFounded, WFMin
<1>3. ASSUME NEW y \in S PROVE x <= y
  <2>1. <<y, x>> \in Nat \X Nat /\ <<y, x>>[1] = y /\ <<y, x>>[2] = x
    OBVIOUS
  <2>2. ~ (y < x)
    BY <2>1, <1>2
  <2>3. QED
    BY <2>2
<1>4. QED
  BY <1>3

\* There is a function on m..n that the recursion defines.
THEOREM CountedExists ==
  ASSUME NEW c, NEW m \in Int, NEW n \in Int
  PROVE  IsCounted(Counted(c, m, n), c, m, n)
<1> DEFINE Ok(k) == \E g : IsCounted(g, c, m, k)
           Bad == {k \in Nat : ~ Ok(m + k)}
<1>1. ASSUME NEW k \in Int, k <= m PROVE Ok(k)
  <2> DEFINE g == [i \in m..k |-> Start(c)]
  <2>1. \A i \in m..k : i = m
    BY <1>1
  <2>2. g = [i \in m..k |-> IF i = m THEN Start(c) ELSE Step(c, i, g[i - 1])]
    BY <2>1
  <2>3. QED
    BY <2>2 DEF IsCounted
<1>2. ASSUME NEW k \in Int, k >= m, Ok(k) PROVE Ok(k + 1)
  <2>1. PICK h : IsCounted(h, c, m, k)
    BY <1>2
  <2> DEFINE g == [i \in m..k + 1 |-> IF i = k + 1 THEN Step(c, i, h[k]) ELSE h[i]]
             Value(i) == IF i = m THEN Start(c) ELSE Step(c, i, g[i - 1])
  <2>2. ASSUME NEW i \in m..k + 1 PROVE g[i] = Value(i)
    <3>1. CASE i = k + 1
      <4>1. i # m /\ g[i - 1] = h[k]
        BY <3>1, <1>2
      <4>2. QED
        BY <4>1, <3>1
    <3>2. CASE i # k + 1
      <4>1. i \in m..k /\ g[i] = h[i]
        BY <3>2
      <4>2. h[i] = IF i = m THEN Start(c) ELSE Step(c, i, h[i - 1])
        BY <4>1, <2>1 DEF IsCounted
      <4>3. i # m => g[i - 1] = h[i - 1]
        BY <4>1
      <4>4. QED
        BY <4>1, <4>2, <4>3
    <3>3. QED
      BY <3>1, <3>2
  <2>3. g = [i \in m..k + 1 |-> Value(i)]
    BY <2>2
  <2>4. IsCounted(g, c, m, k + 1)
    BY <2>3 DEF IsCounted
  <2>5. QED
    BY <2>4
<1> HIDE DEF Ok
<1>3. Bad = {}
  <2>1. SUFFICES ASSUME Bad # {} PROVE FALSE
    OBVIOUS
  <2>2. PICK k \in Bad : \A j \in Bad : k <= j
    BY <2>1, LeastElement
  <2>3. k # 0
    BY <1>1, <2>2
  <2>4. k - 1 \in Nat /\ k - 1 \notin Bad
    BY <2>2, <2>3
  <2>5. Ok(m + (k - 1)) /\ m + (k - 1) \in Int /\ m + (k - 1) >= m
    BY <2>4
  <2>6. Ok((m + (k - 1)) + 1)
    BY <2>5, <1>2
  <2>7. (m + (k - 1)) + 1 = m + k
    OBVIOUS
  <2>8. QED
    BY <2>6, <2>7, <2>2
<1>4. Ok(n)
  <2>1. CASE n <= m
    BY <2>1, <1>1
  <2>2. CASE n > m
    <3>1. n - m \in Nat /\ m + (n - m) = n
      BY <2>2
    <3>2. QED
      BY <3>1, <1>3
  <2>3. QED
    BY <2>1, <2>2
<1>5. QED
  BY <1>4 DEF Ok, Counted

\* What Start satisfies, and Step hands on, all the values satisfy.
THEOREM CountedClaim ==
  ASSUME NEW c, NEW m \in Int, NEW n \in Int,
         Claim(c, m, Start(c)),
         ASSUME NEW i \in m + 1..n, NEW x, Claim(c, i - 1, x) PROVE Claim(c, i, Step(c, i, x))
  PROVE  \A i \in m..n : Claim(c, i, Counted(c, m, n)[i])
<1> DEFINE g == Counted(c, m, n)
           Bad == {k \in Nat : m + k <= n /\ ~ Claim(c, m + k, g[m + k])}
<1>1. \A i \in m..n : g[i] = IF i = m THEN Start(c) ELSE Step(c, i, g[i - 1])
  BY CountedExists DEF IsCounted
<1> HIDE DEF g
<1>2. Bad = {}
  <2>1. SUFFICES ASSUME Bad # {} PROVE FALSE
    OBVIOUS
  <2>2. PICK k \in Bad : \A j \in Bad : k <= j
    BY <2>1, LeastElement
  <2>3. m + k \in m..n
    BY <2>2
  <2>4. k # 0
    BY <2>2, <2>3, <1>1
  <2>5. k - 1 \in Nat /\ k - 1 \notin Bad /\ m + (k - 1) <= n
    BY <2>2, <2>4
  <2>6. Claim(c, m + (k - 1), g[m + (k - 1)])
    BY <2>5
  <2>7. m + (k - 1) = (m + k) - 1 /\ m + k \in m + 1..n /\ m + k # m
    BY <2>3, <2>4, <2>5
  <2>8. Claim(c, m + k, Step(c, m + k, g[(m + k) - 1]))
    BY <2>6, <2>7
  <2>9. QED
    BY <2>8, <2>7, <2>3, <1>1, <2>2
<1>3. ASSUME NEW i \in m..n PROVE Claim(c, i, g[i])
  <2>1. i - m \in Nat /\ m + (i - m) = i /\ i <= n
    OBVIOUS
  <2>2. QED
    BY <2>1, <1>2
<1>4. QED
  BY <1>3 DEF g

----------------------------------------------------------------------------
\* The subsets with at most k elements, and the function on them.
UpTo(S, k) == {s \in SUBSET S : Cardinality(s) <= k}

IsFoldedUpTo(g, c, S, k) ==
  g = [s \in UpTo(S, k) |-> IF s = {} THEN Start(c)
                            ELSE Step(c, Pick(c, s), g[s \ {Pick(c, s)}])]

\* The set without the element picked is smaller.
LEMMA SmallerSubset ==
  ASSUME NEW c, NEW S, IsFiniteSet(S), NEW s \in SUBSET S, s # {}, Pick(c, s) \in s
  PROVE  /\ s \ {Pick(c, s)} \in SUBSET S
         /\ IsFiniteSet(s) /\ Cardinality(s) \in Nat
         /\ Cardinality(s \ {Pick(c, s)}) = Cardinality(s) - 1
<1>1. IsFiniteSet(s)
  BY FS_Subset
<1>2. QED
  BY <1>1, FS_RemoveElement, FS_CardinalityType

\* There is a function on the subsets of S that the recursion defines.
THEOREM FoldedExists ==
  ASSUME NEW c, NEW S, IsFiniteSet(S),
         \A s \in SUBSET S : s # {} => Pick(c, s) \in s
  PROVE  IsFolded(Folded(c, S), c, S)
<1> DEFINE Ok(k) == \E g : IsFoldedUpTo(g, c, S, k)
           Bad == {k \in Nat : ~ Ok(k)}
<1>0. \A s \in SUBSET S : IsFiniteSet(s) /\ Cardinality(s) \in Nat
  BY FS_Subset, FS_CardinalityType
<1>1. Ok(0)
  <2> DEFINE g == [s \in UpTo(S, 0) |-> Start(c)]
  <2>1. \A s \in UpTo(S, 0) : s = {}
    BY <1>0, FS_EmptySet DEF UpTo
  <2>2. g = [s \in UpTo(S, 0) |-> IF s = {} THEN Start(c)
                                  ELSE Step(c, Pick(c, s), g[s \ {Pick(c, s)}])]
    BY <2>1
  <2>3. QED
    BY <2>2 DEF IsFoldedUpTo
<1>2. ASSUME NEW k \in Nat, Ok(k) PROVE Ok(k + 1)
  <2>1. PICK h : IsFoldedUpTo(h, c, S, k)
    BY <1>2
  <2> DEFINE Again(f, s) == IF s = {} THEN Start(c)
                            ELSE Step(c, Pick(c, s), f[s \ {Pick(c, s)}])
             g == [s \in UpTo(S, k + 1) |-> Again(h, s)]
  <2>2. ASSUME NEW s \in UpTo(S, k) PROVE g[s] = h[s]
    <3>1. s \in UpTo(S, k + 1)
      BY <1>0 DEF UpTo
    <3>2. h[s] = Again(h, s)
      BY <2>1 DEF IsFoldedUpTo
    <3>3. QED
      BY <3>1, <3>2
  <2>3. ASSUME NEW s \in UpTo(S, k + 1) PROVE g[s] = Again(g, s)
    <3>1. CASE s = {}
      BY <3>1
    <3>2. CASE s # {}
      <4>1. s \in SUBSET S /\ Cardinality(s) <= k + 1
        BY DEF UpTo
      <4>2. s \ {Pick(c, s)} \in UpTo(S, k)
        BY <4>1, <3>2, SmallerSubset DEF UpTo
      <4>3. g[s \ {Pick(c, s)}] = h[s \ {Pick(c, s)}]
        BY <4>2, <2>2
      <4>4. QED
        BY <4>3, <3>2
    <3>3. QED
      BY <3>1, <3>2
  <2>4. g = [s \in UpTo(S, k + 1) |-> Again(g, s)]
    BY <2>3
  <2>5. IsFoldedUpTo(g, c, S, k + 1)
    BY <2>4 DEF IsFoldedUpTo
  <2>6. QED
    BY <2>5
<1> HIDE DEF Ok
<1>3. Bad = {}
  <2>1. SUFFICES ASSUME Bad # {} PROVE FALSE
    OBVIOUS
  <2>2. PICK k \in Bad : \A j \in Bad : k <= j
    BY <2>1, LeastElement
  <2>3. k # 0
    BY <1>1, <2>2
  <2>4. k - 1 \in Nat /\ k - 1 \notin Bad
    BY <2>2, <2>3
  <2>5. Ok((k - 1) + 1)
    BY <2>4, <1>2
  <2>6. QED
    BY <2>5, <2>2
<1>4. Cardinality(S) \in Nat /\ UpTo(S, Cardinality(S)) = SUBSET S
  BY FS_Subset, FS_CardinalityType DEF UpTo
<1>5. Ok(Cardinality(S))
  BY <1>4, <1>3
<1>6. PICK g : IsFoldedUpTo(g, c, S, Cardinality(S))
  BY <1>5 DEF Ok
<1>7. IsFolded(g, c, S)
  BY <1>6, <1>4 DEF IsFoldedUpTo, IsFolded
<1>8. QED
  BY <1>7 DEF Folded

\* What Start satisfies, and Step hands on, all the values satisfy.
THEOREM FoldedClaim ==
  ASSUME NEW c, NEW S, IsFiniteSet(S),
         \A s \in SUBSET S : s # {} => Pick(c, s) \in s,
         Claim(c, {}, Start(c)),
         ASSUME NEW s \in SUBSET S, s # {}, NEW x, Claim(c, s \ {Pick(c, s)}, x)
         PROVE  Claim(c, s, Step(c, Pick(c, s), x))
  PROVE  \A s \in SUBSET S : Claim(c, s, Folded(c, S)[s])
<1> DEFINE g == Folded(c, S)
           Bad == {k \in Nat : \E s \in SUBSET S : Cardinality(s) = k /\ ~ Claim(c, s, g[s])}
<1>1. \A s \in SUBSET S :
        g[s] = IF s = {} THEN Start(c) ELSE Step(c, Pick(c, s), g[s \ {Pick(c, s)}])
  <2>1. IsFolded(g, c, S)
    BY FoldedExists
  <2> HIDE DEF g
  <2>2. QED
    BY <2>1 DEF IsFolded
<1> HIDE DEF g
<1>2. Bad = {}
  <2>1. SUFFICES ASSUME Bad # {} PROVE FALSE
    OBVIOUS
  <2>2. PICK k \in Bad : \A j \in Bad : k <= j
    BY <2>1, LeastElement
  <2>3. PICK s \in SUBSET S : Cardinality(s) = k /\ ~ Claim(c, s, g[s])
    BY <2>2
  <2>4. s # {}
    BY <2>3, <1>1
  <2> DEFINE r == s \ {Pick(c, s)}
  <2>5. r \in SUBSET S /\ Cardinality(r) = k - 1 /\ k - 1 \in Nat
    <3>1. r \in SUBSET S /\ Cardinality(s) \in Nat /\ Cardinality(r) = Cardinality(s) - 1
      BY <2>4, SmallerSubset
    <3>2. IsFiniteSet(r)
      BY <3>1, FS_Subset
    <3>3. Cardinality(r) \in Nat
      BY <3>2, FS_CardinalityType
    <3>4. QED
      BY <3>1, <3>3, <2>3
  <2>6. k - 1 \notin Bad
    BY <2>2, <2>5
  <2>7. Claim(c, r, g[r])
    BY <2>5, <2>6
  <2>8. Claim(c, s, Step(c, Pick(c, s), g[r]))
    BY <2>7, <2>4
  <2>9. QED
    BY <2>8, <2>4, <1>1, <2>3
<1>3. ASSUME NEW s \in SUBSET S PROVE Claim(c, s, g[s])
  <2>1. Cardinality(s) \in Nat
    BY FS_Subset, FS_CardinalityType
  <2>2. QED
    BY <2>1, <1>2
<1>4. QED
  BY <1>3 DEF g
=============================================================================
