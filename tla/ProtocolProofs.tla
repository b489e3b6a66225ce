--------------------------- MODULE ProtocolProofs ---------------------------
(***************************************************************************)
(* What the proofs of every other module rest on: sums, which neither the  *)
(* provers nor the library know anything of; what add() and reduce()       *)
(* preserve, for every band width; and what apply() preserves, for any     *)
(* orders, any book and any well-formed message.                           *)
(***************************************************************************)
EXTENDS Protocol, Functions, FiniteSetTheorems, WellFoundedInduction, TLAPS

\* Every nonempty set of naturals has a least member.
LEMMA LeastNatural ==
  ASSUME NEW S, S \subseteq Nat, S # {}
  PROVE  \E m \in S : \A k \in S : m <= k
<1>1. PICK m \in S : \A k \in S : ~ (<<k, m>> \in OpToRel(<, Nat))
  BY NatLessThanWellFounded, WFMin, Zenon
<1>2. \A k \in S : ~(k < m)
  BY <1>1, Zenon DEF OpToRel
<1> QED BY <1>2

-----------------------------------------------------------------------------
(***************************************************************************)
(* SumFunction and SumFunctionOnSet of the community modules fold + over a *)
(* set, taking one element after the other.  The induction that shows that *)
(* the order does not matter is by least counterexample.                   *)
(***************************************************************************)
\* The element the fold takes first.
Picked(s) == CHOOSE x \in s : TRUE

\* One stage of a sum: what it is of a set, given what it is of smaller ones.
Summed(f, g, s) == IF s = {} THEN 0 ELSE f[Picked(s)] + g[s \ {Picked(s)}]

\* g is a table of the sums of f over all subsets of S.
IsSumTable(g, f, S) == g = [s \in SUBSET S |-> Summed(f, g, s)]

LEMMA SumIsChosen ==
  ASSUME NEW f, NEW S
  PROVE  SumFunctionOnSet(f, S) = (CHOOSE g : IsSumTable(g, f, S))[S]
BY DEF SumFunctionOnSet, FoldFunctionOnSet, MapThenFoldSet, IsSumTable, Summed, Picked

\* Of any subsets of a finite set one has no other below it.
LEMMA LeastSubset ==
  ASSUME NEW S, IsFiniteSet(S), NEW F, F \subseteq SUBSET S, F # {}
  PROVE  \E m \in F : \A k \in F : k \subseteq m => k = m
<1>1. IsWellFoundedOn(StrictSubsetOrdering(S), SUBSET S)
  BY FS_StrictSubsetOrderingWellFounded, FS_FiniteSubsetsOfFinite
<1>2. PICK m \in F : \A k \in F : ~ (<<k, m>> \in StrictSubsetOrdering(S))
  BY <1>1, WFMin, Zenon
<1>3. \A k \in F : k \subseteq m => k = m
  BY <1>2 DEF StrictSubsetOrdering
<1> QED BY <1>3

LEMMA PickedIsMember ==
  ASSUME NEW s, s # {}
  PROVE  Picked(s) \in s
BY DEF Picked

\* Two tables agree wherever both have a value.
LEMMA SumTablesAgree ==
  ASSUME NEW S, IsFiniteSet(S), NEW f, NEW e, NEW g, NEW h, NEW T, S \subseteq T,
         \A x \in S : f[x] = e[x],
         IsSumTable(g, f, S), IsSumTable(h, e, T)
  PROVE  \A s \in SUBSET S : g[s] = h[s]
<1> DEFINE F == {s \in SUBSET S : g[s] # h[s]}
<1> SUFFICES ASSUME F # {} PROVE FALSE
  OBVIOUS
<1>1. PICK s \in F : \A k \in F : k \subseteq s => k = s
  <2> HIDE DEF F
  <2>1. F \subseteq SUBSET S BY DEF F
  <2> QED BY <2>1, LeastSubset
<1>2. s \in SUBSET S /\ s \in SUBSET T /\ g[s] # h[s]
  OBVIOUS
<1>3. g[s] = Summed(f, g, s) /\ h[s] = Summed(e, h, s)
  BY <1>2 DEF IsSumTable
<1>4. CASE s = {}
  BY <1>2, <1>3, <1>4 DEF Summed
<1>5. CASE s # {}
  <2>1. Picked(s) \in s
    BY <1>5, PickedIsMember
  <2>2. g[s \ {Picked(s)}] = h[s \ {Picked(s)}]
    BY <1>1, <2>1
  <2> QED BY <1>2, <1>3, <2>1, <2>2, <1>5 DEF Summed
<1> QED BY <1>4, <1>5

\* There is a table: of the sets of at most n elements, for one n after another.
LEMMA SumTableExists ==
  ASSUME NEW S, IsFiniteSet(S), NEW f \in [S -> Int]
  PROVE  \E g \in [SUBSET S -> Int] : IsSumTable(g, f, S)
<1> DEFINE Small(n) == {s \in SUBSET S : Cardinality(s) <= n}
           Table(g, n) == \A s \in Small(n) : g[s] = Summed(f, g, s)
           Bad == {n \in Nat : ~ \E g \in [SUBSET S -> Int] : Table(g, n)}
<1>1. \A s \in SUBSET S : /\ IsFiniteSet(s) /\ Cardinality(s) \in Nat
                          /\ Cardinality(s) = 0 <=> s = {}
  BY FS_Subset, FS_CardinalityType, FS_EmptySet
<1>2. \A s \in SUBSET S : s # {} => /\ Picked(s) \in s
                                    /\ Cardinality(s \ {Picked(s)}) = Cardinality(s) - 1
  BY <1>1, PickedIsMember, FS_RemoveElement
<1>3. 0 \notin Bad
  <2> DEFINE g == [s \in SUBSET S |-> 0]
  <2>1. g \in [SUBSET S -> Int]
    OBVIOUS
  <2>2. Table(g, 0)
    <3> SUFFICES ASSUME NEW s \in Small(0) PROVE g[s] = Summed(f, g, s)
      OBVIOUS
    <3>1. s = {}
      BY <1>1
    <3> QED BY <3>1 DEF Summed
  <2> HIDE DEF g
  <2> QED BY <2>1, <2>2
<1>4. ASSUME NEW n \in Nat, n \notin Bad PROVE n + 1 \notin Bad
  <2>1. PICK g \in [SUBSET S -> Int] : Table(g, n)
    BY <1>4
  <2> DEFINE h == [s \in SUBSET S |-> IF Cardinality(s) <= n THEN g[s] ELSE Summed(f, g, s)]
  <2>2. h \in [SUBSET S -> Int]
    <3> SUFFICES ASSUME NEW s \in SUBSET S PROVE Summed(f, g, s) \in Int
      OBVIOUS
    <3>1. CASE s = {}
      BY <3>1 DEF Summed
    <3>2. CASE s # {}
      BY <3>2, <1>2 DEF Summed
    <3> QED BY <3>1, <3>2
  <2>3. ASSUME NEW s \in Small(n + 1) PROVE h[s] = Summed(f, h, s)
    <3>0. s \in SUBSET S /\ Cardinality(s) \in Nat /\ Cardinality(s) <= n + 1
      BY <1>1
    <3>1. CASE s = {}
      <4>1. h[s] = g[s] /\ g[s] = Summed(f, g, s)
        BY <3>0, <3>1, <1>1, <2>1
      <4> QED BY <3>1, <4>1 DEF Summed
    <3>2. CASE s # {}
      <4> DEFINE r == s \ {Picked(s)}
      <4>1. Cardinality(r) = Cardinality(s) - 1 /\ r \in SUBSET S
        BY <3>2, <3>0, <1>2
      <4>2. h[r] = g[r]
        BY <4>1, <3>0
      <4>3. h[s] = Summed(f, g, s)
        BY <3>0, <2>1
      <4> QED BY <3>2, <4>2, <4>3 DEF Summed
    <3> QED BY <3>1, <3>2
  <2> HIDE DEF h
  <2>4. Table(h, n + 1)
    BY <2>3
  <2> QED BY <2>2, <2>4
<1>5. Bad = {}
  <2> SUFFICES ASSUME Bad # {} PROVE FALSE
    OBVIOUS
  <2>1. PICK m \in Bad : \A k \in Bad : m <= k
    <3>1. Bad \subseteq Nat OBVIOUS
    <3> HIDE DEF Bad
    <3> QED BY <3>1, LeastNatural
  <2>2. m \in Nat
    OBVIOUS
  <2> HIDE DEF Bad
  <2>3. m # 0 /\ m - 1 \in Nat /\ m - 1 \notin Bad
    BY <1>3, <2>1, <2>2
  <2> QED BY <2>3, <2>2, <1>4, <2>1
<1>6. PICK g \in [SUBSET S -> Int] : Table(g, Cardinality(S))
  BY <1>1, <1>5
<1>7. \A s \in SUBSET S : Cardinality(s) <= Cardinality(S)
  BY FS_Subset
<1>8. IsSumTable(g, f, S)
  BY <1>6, <1>7 DEF IsSumTable
<1> QED BY <1>8

\* The sum a set has in any table over a larger set.
LEMMA SumInTable ==
  ASSUME NEW S, IsFiniteSet(S), NEW T, S \subseteq T, NEW f, NEW e, NEW g,
         \A x \in S : f[x] \in Int /\ f[x] = e[x], IsSumTable(g, e, T)
  PROVE  SumFunctionOnSet(f, S) = g[S]
<1> DEFINE r == [x \in S |-> f[x]]
           chosen == CHOOSE h : IsSumTable(h, f, S)
<1>1. r \in [S -> Int] /\ \A x \in S : r[x] = f[x]
  OBVIOUS
<1>2. PICK h \in [SUBSET S -> Int] : IsSumTable(h, r, S)
  BY <1>1, SumTableExists
<1>3. IsSumTable(h, f, S)
  <2>1. \A s \in SUBSET S : Summed(r, h, s) = Summed(f, h, s)
    BY <1>1, PickedIsMember DEF Summed
  <2> QED BY <1>2, <2>1 DEF IsSumTable
<1>4. IsSumTable(chosen, f, S)
  BY <1>3
<1>5. chosen[S] = g[S]
  <2> HIDE DEF chosen
  <2> QED BY <1>4, SumTablesAgree
<1> QED BY <1>5, SumIsChosen

\* The sum of nothing.
LEMMA SumOfNone == ASSUME NEW f PROVE SumFunctionOnSet(f, {}) = 0
<1>1. IsFiniteSet({}) /\ [x \in {} |-> 0] \in [{} -> Int]
  BY FS_EmptySet
<1>2. PICK g \in [SUBSET {} -> Int] : IsSumTable(g, [x \in {} |-> 0], {})
  BY <1>1, SumTableExists
<1>3. g[{}] = 0
  BY <1>2 DEF IsSumTable, Summed
<1>4. SumFunctionOnSet(f, {}) = g[{}]
  BY <1>1, <1>2, SumInTable
<1> QED BY <1>3, <1>4

\* Functions that agree on a set have the same sum over it.
LEMMA SumsAgree ==
  ASSUME NEW S, IsFiniteSet(S), NEW f, NEW e, \A x \in S : f[x] \in Int /\ f[x] = e[x]
  PROVE  SumFunctionOnSet(f, S) = SumFunctionOnSet(e, S)
<1> DEFINE r == [x \in S |-> f[x]]
<1>1. r \in [S -> Int] /\ \A x \in S : r[x] = f[x] /\ e[x] \in Int /\ e[x] = r[x]
  OBVIOUS
<1>2. PICK g \in [SUBSET S -> Int] : IsSumTable(g, r, S)
  BY <1>1, SumTableExists
<1> HIDE DEF r
<1>3. SumFunctionOnSet(f, S) = g[S]
  BY <1>1, <1>2, SumInTable
<1>4. SumFunctionOnSet(e, S) = g[S]
  BY <1>1, <1>2, SumInTable
<1> QED BY <1>3, <1>4

\* A sum of integers is an integer, and any one of them can be taken out of it.
LEMMA SumSplits ==
  ASSUME NEW S, IsFiniteSet(S), NEW f, \A x \in S : f[x] \in Int
  PROVE  /\ SumFunctionOnSet(f, S) \in Int
         /\ \A x \in S : SumFunctionOnSet(f, S) = f[x] + SumFunctionOnSet(f, S \ {x})
<1> DEFINE r == [x \in S |-> f[x]]
<1>1. r \in [S -> Int] /\ \A x \in S : r[x] = f[x]
  OBVIOUS
<1>2. PICK g \in [SUBSET S -> Int] : IsSumTable(g, r, S)
  BY <1>1, SumTableExists
<1> HIDE DEF r
<1>3. \A s \in SUBSET S : SumFunctionOnSet(f, s) = g[s]
  <2> SUFFICES ASSUME NEW s \in SUBSET S PROVE SumFunctionOnSet(f, s) = g[s]
    OBVIOUS
  <2>1. IsFiniteSet(s) /\ s \subseteq S /\ \A x \in s : f[x] \in Int /\ f[x] = r[x]
    BY <1>1, FS_Subset
  <2> QED BY <1>2, <2>1, SumInTable
<1> DEFINE Fails == {s \in SUBSET S : \E x \in s : g[s] # f[x] + g[s \ {x}]}
<1>4. Fails = {}
  <2> SUFFICES ASSUME Fails # {} PROVE FALSE
    OBVIOUS
  <2>1. PICK s \in Fails : \A k \in Fails : k \subseteq s => k = s
    <3>1. Fails \subseteq SUBSET S
      OBVIOUS
    <3> HIDE DEF Fails
    <3> QED BY <3>1, LeastSubset
  <2>2. PICK x \in s : g[s] # f[x] + g[s \ {x}]
    OBVIOUS
  <2> DEFINE p == Picked(s)
  <2>3. p \in s /\ s \in SUBSET S
    BY <2>2, PickedIsMember
  <2>4. g[s] = f[p] + g[s \ {p}]
    BY <1>1, <1>2, <2>3 DEF IsSumTable, Summed
  <2>5. p # x
    BY <2>2, <2>4
  <2>6. s \ {p} \notin Fails /\ s \ {x} \notin Fails
    BY <2>1, <2>2, <2>3
  <2>7. g[s \ {p}] = f[x] + g[(s \ {p}) \ {x}]
    BY <2>3, <2>5, <2>6
  <2>8. g[s \ {x}] = f[p] + g[(s \ {x}) \ {p}]
    BY <2>3, <2>5, <2>6
  <2>9. (s \ {p}) \ {x} = (s \ {x}) \ {p} /\ (s \ {x}) \ {p} \in SUBSET S
    BY <2>3
  <2>10. f[x] \in Int /\ f[p] \in Int /\ g[(s \ {x}) \ {p}] \in Int
    BY <2>3, <2>9
  <2>11. g[s] = f[p] + (f[x] + g[(s \ {x}) \ {p}])
    BY <2>4, <2>7, <2>9, Zenon
  <2> DEFINE rest == g[(s \ {x}) \ {p}]
  <2>12. g[s] = f[p] + (f[x] + rest) /\ g[s \ {x}] = f[p] + rest /\ rest \in Int
    BY <2>8, <2>10, <2>11, Zenon
  <2> HIDE DEF rest, p
  <2>13. g[s] = f[x] + (f[p] + rest)
    BY <2>12, <2>10
  <2> QED BY <2>13, <2>12, <2>2, Zenon
<1>5. g[S] \in Int /\ \A x \in S : g[S] = f[x] + g[S \ {x}]
  BY <1>4
<1> QED BY <1>3, <1>5

\* A sum of naturals is one, and no less than any of them.
LEMMA SumOfNaturals ==
  ASSUME NEW S, IsFiniteSet(S), NEW f, \A x \in S : f[x] \in Nat
  PROVE  /\ SumFunctionOnSet(f, S) \in Nat
         /\ \A x \in S : f[x] <= SumFunctionOnSet(f, S)
<1>1. \A s \in SUBSET S : /\ SumFunctionOnSet(f, s) \in Int
                          /\ \A x \in s : SumFunctionOnSet(f, s)
                                            = f[x] + SumFunctionOnSet(f, s \ {x})
  <2> SUFFICES ASSUME NEW s \in SUBSET S
               PROVE  /\ SumFunctionOnSet(f, s) \in Int
                      /\ \A x \in s : SumFunctionOnSet(f, s)
                                        = f[x] + SumFunctionOnSet(f, s \ {x})
    OBVIOUS
  <2>1. IsFiniteSet(s) /\ \A x \in s : f[x] \in Int
    BY FS_Subset
  <2> QED BY <2>1, SumSplits
<1> DEFINE Fails == {s \in SUBSET S : SumFunctionOnSet(f, s) \notin Nat}
<1>2. Fails = {}
  <2> SUFFICES ASSUME Fails # {} PROVE FALSE
    OBVIOUS
  <2>1. PICK s \in Fails : \A k \in Fails : k \subseteq s => k = s
    <3>1. Fails \subseteq SUBSET S
      OBVIOUS
    <3> HIDE DEF Fails
    <3> QED BY <3>1, LeastSubset
  <2>2. s # {}
    BY SumOfNone
  <2>3. PICK x \in s : TRUE
    BY <2>2
  <2>4. SumFunctionOnSet(f, s \ {x}) \in Nat
    BY <2>1, <2>3
  <2>5. SumFunctionOnSet(f, s) = f[x] + SumFunctionOnSet(f, s \ {x})
    BY <1>1, <2>3
  <2> QED BY <2>3, <2>4, <2>5
<1>3. ASSUME NEW x \in S PROVE f[x] <= SumFunctionOnSet(f, S)
  <2>1. SumFunctionOnSet(f, S \ {x}) \in Nat
    BY <1>2
  <2>2. SumFunctionOnSet(f, S) = f[x] + SumFunctionOnSet(f, S \ {x})
    BY <1>1, <1>3
  <2> QED BY <1>3, <2>1, <2>2
<1> QED BY <1>2, <1>3

\* A sum is at most the bound of its terms for each of them.
LEMMA SumIsBounded ==
  ASSUME NEW S, IsFiniteSet(S), NEW bound \in Nat,
         NEW f, \A x \in S : f[x] \in Int /\ f[x] <= bound
  PROVE  SumFunctionOnSet(f, S) <= bound * Cardinality(S)
<1> DEFINE Fails == {s \in SUBSET S : ~(SumFunctionOnSet(f, s) <= bound * Cardinality(s))}
<1>1. Fails = {}
  <2> SUFFICES ASSUME Fails # {} PROVE FALSE
    OBVIOUS
  <2>1. PICK s \in Fails : \A k \in Fails : k \subseteq s => k = s
    <3>1. Fails \subseteq SUBSET S
      OBVIOUS
    <3> HIDE DEF Fails
    <3> QED BY <3>1, LeastSubset
  <2>2. SumFunctionOnSet(f, {}) <= bound * Cardinality({})
    BY SumOfNone, FS_EmptySet
  <2>3. PICK x \in s : TRUE
    BY <2>1, <2>2
  <2>4. IsFiniteSet(s) /\ s \in SUBSET S
    BY <2>1, FS_Subset
  <2>5. /\ SumFunctionOnSet(f, s) = f[x] + SumFunctionOnSet(f, s \ {x})
        /\ SumFunctionOnSet(f, s \ {x}) \in Int
    <3>1. \A y \in s : f[y] \in Int
      BY <2>4
    <3>2. IsFiniteSet(s \ {x})
      BY <2>4, FS_RemoveElement
    <3> QED BY <2>3, <2>4, <3>1, <3>2, SumSplits
  <2>6. /\ Cardinality(s \ {x}) \in Nat
        /\ Cardinality(s) = Cardinality(s \ {x}) + 1
    <3>1. IsFiniteSet(s \ {x}) /\ Cardinality(s \ {x}) = Cardinality(s) - 1
      BY <2>3, <2>4, FS_RemoveElement
    <3> QED BY <2>4, <3>1, FS_CardinalityType
  <2>7. SumFunctionOnSet(f, s \ {x}) <= bound * Cardinality(s \ {x})
    BY <2>1, <2>3, <2>4
  <2>8. \A n \in Nat : bound * (n + 1) = bound * n + bound /\ bound * n \in Nat
    OBVIOUS
  <2>9. f[x] \in Int /\ f[x] <= bound
    BY <2>3, <2>4
  <2>10. SumFunctionOnSet(f, s) <= bound * Cardinality(s)
    <3> DEFINE c == Cardinality(s \ {x})
               sum == SumFunctionOnSet(f, s \ {x})
    <3>1. c \in Nat /\ sum \in Int /\ sum <= bound * c
      BY <2>5, <2>6, <2>7
    <3> HIDE DEF c, sum
    <3>2. f[x] + sum <= bound * (c + 1)
      BY <2>8, <2>9, <3>1
    <3> QED BY <2>5, <2>6, <3>2 DEF c, sum
  <2> QED BY <2>1, <2>10
<1> QED BY <1>1

\* Adding a member, and changing one value of a function.
LEMMA SumWith ==
  ASSUME NEW S, IsFiniteSet(S), NEW x, x \notin S, NEW f, \A y \in S \cup {x} : f[y] \in Int
  PROVE  SumFunctionOnSet(f, S \cup {x}) = f[x] + SumFunctionOnSet(f, S)
<1>1. IsFiniteSet(S \cup {x}) /\ (S \cup {x}) \ {x} = S
  BY FS_AddElement
<1> QED BY <1>1, SumSplits

LEMMA SumChanged ==
  ASSUME NEW S, IsFiniteSet(S), NEW f, NEW e, NEW x \in S, f[x] \in Int, e[x] \in Int,
         \A y \in S \ {x} : f[y] \in Int /\ f[y] = e[y]
  PROVE  SumFunctionOnSet(e, S) = SumFunctionOnSet(f, S) - f[x] + e[x]
<1>1. IsFiniteSet(S \ {x})
  BY FS_RemoveElement
<1>2. SumFunctionOnSet(f, S \ {x}) = SumFunctionOnSet(e, S \ {x})
      /\ SumFunctionOnSet(f, S \ {x}) \in Int
  BY <1>1, SumsAgree, SumSplits
<1>3. SumFunctionOnSet(f, S) = f[x] + SumFunctionOnSet(f, S \ {x})
  BY SumSplits
<1>4. SumFunctionOnSet(e, S) = e[x] + SumFunctionOnSet(e, S \ {x})
  <2>1. \A y \in S : e[y] \in Int
    OBVIOUS
  <2> QED BY <2>1, SumSplits
<1> QED BY <1>2, <1>3, <1>4

\* What adds nothing can be left out.
LEMMA SumOfSupport ==
  ASSUME NEW S, IsFiniteSet(S), NEW R, R \subseteq S, NEW f, \A x \in S : f[x] \in Int,
         \A x \in S \ R : f[x] = 0
  PROVE  SumFunctionOnSet(f, S) = SumFunctionOnSet(f, R)
<1> DEFINE Fails == {s \in SUBSET (S \ R) :
                      SumFunctionOnSet(f, R \cup s) # SumFunctionOnSet(f, R)}
<1>1. ASSUME Fails # {} PROVE FALSE
  <2>1. PICK s \in Fails : \A k \in Fails : k \subseteq s => k = s
    <3>1. Fails \subseteq SUBSET (S \ R)
      OBVIOUS
    <3>2. IsFiniteSet(S \ R)
      BY FS_Difference
    <3> HIDE DEF Fails
    <3> QED BY <1>1, <3>1, <3>2, LeastSubset
  <2>2. s # {}
    BY <2>1
  <2>3. PICK x \in s : TRUE
    BY <2>2
  <2>4. s \ {x} \notin Fails /\ s \ {x} \in SUBSET (S \ R) /\ s \in SUBSET (S \ R)
    BY <2>1, <2>3
  <2>5. SumFunctionOnSet(f, R \cup (s \ {x})) = SumFunctionOnSet(f, R)
    BY <2>4
  <2>6. /\ IsFiniteSet(R \cup s) /\ x \in R \cup s /\ R \cup s \subseteq S
        /\ (R \cup s) \ {x} = R \cup (s \ {x})
    <3>1. R \cup s \subseteq S /\ x \in S \ R
      BY <2>3, <2>4
    <3> QED BY <3>1, <2>3, FS_Subset
  <2>7. \A y \in R \cup s : f[y] \in Int
    BY <2>6
  <2>8. /\ SumFunctionOnSet(f, R \cup s) = f[x] + SumFunctionOnSet(f, (R \cup s) \ {x})
        /\ SumFunctionOnSet(f, R \cup s) \in Int
    BY <2>6, <2>7, SumSplits
  <2>9. SumFunctionOnSet(f, R) \in Int
    <3>1. IsFiniteSet(R) /\ \A y \in R : f[y] \in Int
      BY FS_Subset
    <3> QED BY <3>1, SumSplits
  <2>10. f[x] = 0
    BY <2>3, <2>4
  <2>11. SumFunctionOnSet(f, R \cup s) = SumFunctionOnSet(f, R)
    <3>1. SumFunctionOnSet(f, (R \cup s) \ {x}) = SumFunctionOnSet(f, R)
      BY <2>5, <2>6, Zenon
    <3> QED BY <3>1, <2>8, <2>9, <2>10
  <2> QED BY <2>1, <2>11
<1>2. R \cup (S \ R) = S /\ S \ R \in SUBSET (S \ R) /\ S \ R \notin Fails
  BY <1>1
<1>3. SumFunctionOnSet(f, R \cup (S \ R)) = SumFunctionOnSet(f, R)
  BY <1>2
<1> QED BY <1>2, <1>3

\* The same values under other names have the same sum.
LEMMA SumOfImages ==
  ASSUME NEW S, IsFiniteSet(S), NEW f, \A x \in S : f[x] \in Int, NEW e, NEW h,
         \A x \in S : e[h[x]] = f[x],
         \A x, y \in S : h[x] = h[y] => x = y
  PROVE  SumFunctionOnSet(f, S) = SumFunctionOnSet(e, {h[x] : x \in S})
<1> DEFINE Fails == {s \in SUBSET S : SumFunctionOnSet(f, s)
                                        # SumFunctionOnSet(e, {h[x] : x \in s})}
<1>1. ASSUME Fails # {} PROVE FALSE
  <2>1. PICK s \in Fails : \A k \in Fails : k \subseteq s => k = s
    <3>1. Fails \subseteq SUBSET S
      OBVIOUS
    <3> HIDE DEF Fails
    <3> QED BY <1>1, <3>1, LeastSubset
  <2>2. s # {}
    <3>1. {h[x] : x \in {}} = {}
      OBVIOUS
    <3> QED BY <2>1, <3>1, SumOfNone
  <2>3. PICK x \in s : TRUE
    BY <2>2
  <2> DEFINE r == s \ {x}
             images == {h[y] : y \in r}
  <2>4. r \notin Fails /\ s \in SUBSET S /\ r \in SUBSET S
    BY <2>1, <2>3
  <2>5. SumFunctionOnSet(f, r) = SumFunctionOnSet(e, images)
    BY <2>4
  <2>6. IsFiniteSet(s) /\ IsFiniteSet(r) /\ \A y \in s : f[y] \in Int
    BY <2>4, FS_Subset
  <2>7. IsFiniteSet(images)
    <3>1. [y \in r |-> h[y]] \in Surjection(r, images)
      BY DEF Surjection
    <3> QED BY <2>6, <3>1, FS_Surjection
  <2>8. h[x] \notin images /\ {h[y] : y \in s} = images \cup {h[x]}
    BY <2>3, <2>4
  <2>9. \A z \in images \cup {h[x]} : e[z] \in Int
    BY <2>3, <2>4
  <2>10. SumFunctionOnSet(e, images \cup {h[x]}) = e[h[x]] + SumFunctionOnSet(e, images)
    <3> HIDE DEF images
    <3> QED BY <2>7, <2>8, <2>9, SumWith
  <2>11. SumFunctionOnSet(f, s) = f[x] + SumFunctionOnSet(f, r)
    BY <2>3, <2>6, SumSplits
  <2>12. e[h[x]] = f[x]
    BY <2>3, <2>4
  <2> QED BY <2>1, <2>5, <2>8, <2>10, <2>11, <2>12
<1> QED BY <1>1

\* Sums over sequences: of one with another element at its end, and of one with
\* another element at its front.
LEMMA SumLonger ==
  ASSUME NEW n \in Nat, NEW f, NEW e, \A k \in 1 .. n + 1 : e[k] \in Int,
         \A k \in 1 .. n : f[k] = e[k]
  PROVE  SumFunctionOnSet(e, 1 .. n + 1) = SumFunctionOnSet(f, 1 .. n) + e[n + 1]
<1>1. IsFiniteSet(1 .. n + 1) /\ IsFiniteSet(1 .. n)
  BY FS_Interval
<1>2. n + 1 \in 1 .. n + 1 /\ (1 .. n + 1) \ {n + 1} = 1 .. n
  OBVIOUS
<1>3. SumFunctionOnSet(e, 1 .. n + 1) = e[n + 1] + SumFunctionOnSet(e, 1 .. n)
  BY <1>1, <1>2, SumSplits
<1>4. \A k \in 1 .. n : f[k] \in Int
  OBVIOUS
<1>5. SumFunctionOnSet(f, 1 .. n) = SumFunctionOnSet(e, 1 .. n)
      /\ SumFunctionOnSet(f, 1 .. n) \in Int
  BY <1>1, <1>4, SumsAgree, SumSplits
<1> QED BY <1>3, <1>5

LEMMA SumShifted ==
  ASSUME NEW n \in Nat, NEW f, NEW e, \A k \in 1 .. n + 1 : e[k] \in Int,
         \A k \in 1 .. n : f[k] = e[k + 1]
  PROVE  SumFunctionOnSet(e, 1 .. n + 1) = e[1] + SumFunctionOnSet(f, 1 .. n)
<1> DEFINE Fails == {k \in 0 .. n : SumFunctionOnSet(e, 1 .. k + 1)
                                      # e[1] + SumFunctionOnSet(f, 1 .. k)}
<1>1. ASSUME Fails # {} PROVE FALSE
  <2>1. PICK m \in Fails : \A k \in Fails : m <= k
    <3>1. Fails \subseteq Nat
      OBVIOUS
    <3> HIDE DEF Fails
    <3> QED BY <1>1, <3>1, LeastNatural
  <2>2. CASE m = 0
    <3>1. 1 .. 0 = {} /\ 1 .. 0 + 1 = {} \cup {1}
      OBVIOUS
    <3>2. SumFunctionOnSet(e, {} \cup {1}) = e[1] + SumFunctionOnSet(e, {})
      <4>1. IsFiniteSet({}) /\ 1 \notin {} /\ \A y \in {} \cup {1} : e[y] \in Int
        BY FS_EmptySet
      <4> QED BY <4>1, SumWith
    <3> QED BY <2>1, <2>2, <3>1, <3>2, SumOfNone
  <2>3. CASE m # 0
    <3> DEFINE p == m - 1
    <3>1. p \in Nat /\ p + 1 = m /\ m \in Nat /\ m <= n /\ p \notin Fails
      BY <2>1, <2>3
    <3>2. SumFunctionOnSet(e, 1 .. m) = e[1] + SumFunctionOnSet(f, 1 .. p)
      BY <3>1
    <3>3. SumFunctionOnSet(e, 1 .. m + 1) = SumFunctionOnSet(e, 1 .. m) + e[m + 1]
      <4>1. \A k \in 1 .. m + 1 : e[k] \in Int
        BY <3>1
      <4> QED BY <3>1, <4>1, SumLonger
    <3>4. SumFunctionOnSet(f, 1 .. m) = SumFunctionOnSet(f, 1 .. p) + f[m]
      <4>1. \A k \in 1 .. p + 1 : f[k] \in Int
        BY <3>1
      <4>2. SumFunctionOnSet(f, 1 .. p + 1) = SumFunctionOnSet(f, 1 .. p) + f[p + 1]
        BY <3>1, <4>1, SumLonger
      <4> QED BY <3>1, <4>2
    <3>5. f[m] = e[m + 1] /\ f[m] \in Int /\ e[1] \in Int
      BY <3>1
    <3>6. SumFunctionOnSet(f, 1 .. p) \in Int
      <4>1. IsFiniteSet(1 .. p)
        BY <3>1, FS_Interval
      <4>2. \A k \in 1 .. p : f[k] \in Int
        BY <3>1
      <4> QED BY <4>1, <4>2, SumSplits
    <3>7. SumFunctionOnSet(e, 1 .. m + 1) = e[1] + SumFunctionOnSet(f, 1 .. m)
      BY <3>2, <3>3, <3>4, <3>5, <3>6
    <3> QED BY <2>1, <3>7
  <2> QED BY <2>2, <2>3
<1> QED BY <1>1

\* Smaller values have a smaller sum, and so has a part of a set of naturals.
LEMMA SumGrows ==
  ASSUME NEW S, IsFiniteSet(S), NEW f, NEW e,
         \A x \in S : f[x] \in Int /\ e[x] \in Int /\ f[x] <= e[x]
  PROVE  SumFunctionOnSet(f, S) <= SumFunctionOnSet(e, S)
<1> DEFINE Fails == {s \in SUBSET S : ~(SumFunctionOnSet(f, s) <= SumFunctionOnSet(e, s))}
<1>1. ASSUME Fails # {} PROVE FALSE
  <2>1. PICK s \in Fails : \A k \in Fails : k \subseteq s => k = s
    <3>1. Fails \subseteq SUBSET S
      OBVIOUS
    <3> HIDE DEF Fails
    <3> QED BY <1>1, <3>1, LeastSubset
  <2>2. s # {}
    BY <2>1, SumOfNone
  <2>3. PICK x \in s : TRUE
    BY <2>2
  <2>4. s \ {x} \notin Fails /\ s \ {x} \in SUBSET S /\ s \in SUBSET S
    BY <2>1, <2>3
  <2>5. SumFunctionOnSet(f, s \ {x}) <= SumFunctionOnSet(e, s \ {x})
    BY <2>4
  <2>6. /\ IsFiniteSet(s) /\ IsFiniteSet(s \ {x})
        /\ \A y \in s : f[y] \in Int /\ e[y] \in Int
    BY <2>4, FS_Subset
  <2>7. /\ SumFunctionOnSet(f, s) = f[x] + SumFunctionOnSet(f, s \ {x})
        /\ SumFunctionOnSet(e, s) = e[x] + SumFunctionOnSet(e, s \ {x})
        /\ SumFunctionOnSet(f, s \ {x}) \in Int /\ SumFunctionOnSet(e, s \ {x}) \in Int
    BY <2>3, <2>6, SumSplits
  <2>8. f[x] \in Int /\ e[x] \in Int /\ f[x] <= e[x]
    BY <2>3, <2>4
  <2> QED BY <2>1, <2>5, <2>7, <2>8
<1> QED BY <1>1

LEMMA SumOfPart ==
  ASSUME NEW S, IsFiniteSet(S), NEW R, R \subseteq S, NEW f, \A x \in S : f[x] \in Nat
  PROVE  SumFunctionOnSet(f, R) <= SumFunctionOnSet(f, S)
<1> DEFINE e == [x \in S |-> IF x \in R THEN f[x] ELSE 0]
<1>1. /\ \A x \in S : e[x] \in Int /\ f[x] \in Int /\ e[x] <= f[x]
      /\ \A x \in S \ R : e[x] = 0
      /\ \A x \in R : e[x] \in Int /\ e[x] = f[x]
  OBVIOUS
<1> HIDE DEF e
<1>2. SumFunctionOnSet(e, S) <= SumFunctionOnSet(f, S)
  BY <1>1, SumGrows
<1>3. SumFunctionOnSet(e, S) = SumFunctionOnSet(e, R)
  BY <1>1, SumOfSupport
<1>4. SumFunctionOnSet(e, R) = SumFunctionOnSet(f, R)
  BY <1>1, FS_Subset, SumsAgree
<1> QED BY <1>2, <1>3, <1>4

-----------------------------------------------------------------------------
(***************************************************************************)
(* The order book                                                          *)
(***************************************************************************)
\* The downward loop stops at the first occupied level at or below its start,
\* or at -1.
LEMMA WalkDownStops ==
  ASSUME NEW levels \in [Index -> Quantity], NEW from \in -1 .. Levels - 1
  PROVE  /\ WalkDown(levels, from) \in -1 .. from
         /\ WalkDown(levels, from) # -1 => levels[WalkDown(levels, from)] # 0
         /\ \A k \in WalkDown(levels, from) + 1 .. from : levels[k] = 0
<1> DEFINE Clear == {n \in 0 .. from + 1 : \A k \in n .. from : levels[k] = 0}
<1>0. Levels \in Nat
  BY LevelsAssumption
<1>1. Clear \subseteq Nat /\ from + 1 \in Clear
  BY <1>0
<1>2. PICK m \in Clear : \A k \in Clear : m <= k
  BY <1>1, LeastNatural
<1>3. m \in 0 .. from + 1 /\ \A k \in m .. from : levels[k] = 0
  OBVIOUS
<1>4. m # 0 => levels[m - 1] # 0
  <2> SUFFICES ASSUME m # 0, levels[m - 1] = 0 PROVE FALSE
    OBVIOUS
  <2>1. m - 1 \in 0 .. from + 1
    BY <1>0, <1>3
  <2>2. \A k \in m - 1 .. from : k = m - 1 \/ k \in m .. from
    BY <1>0, <1>3
  <2>3. m - 1 \in Clear
    BY <2>1, <2>2, <1>3
  <2> QED BY <2>3, <1>2, <1>3, <1>0
<1>5. \E j \in -1 .. from : /\ j = -1 \/ levels[j] # 0
                            /\ \A k \in j + 1 .. from : levels[k] = 0
  <2>1. m - 1 \in -1 .. from /\ (m - 1) + 1 = m
    BY <1>0, <1>3
  <2> WITNESS m - 1 \in -1 .. from
  <2> QED BY <1>3, <1>4, <2>1
<1> QED BY <1>5 DEF WalkDown

\* The upward loop stops at the first occupied level at or above its start, or
\* at kLevels.
LEMMA WalkUpStops ==
  ASSUME NEW levels \in [Index -> Quantity], NEW from \in 0 .. Levels
  PROVE  /\ WalkUp(levels, from) \in from .. Levels
         /\ WalkUp(levels, from) # Levels => levels[WalkUp(levels, from)] # 0
         /\ \A k \in from .. WalkUp(levels, from) - 1 : levels[k] = 0
<1> DEFINE Stop == {j \in from .. Levels : j = Levels \/ levels[j] # 0}
<1>0. Levels \in Nat
  BY LevelsAssumption
<1>1. Stop \subseteq Nat /\ Levels \in Stop
  BY <1>0
<1>2. PICK m \in Stop : \A k \in Stop : m <= k
  BY <1>1, LeastNatural
<1>3. \A k \in from .. m - 1 : levels[k] = 0
  <2> SUFFICES ASSUME NEW k \in from .. m - 1, levels[k] # 0 PROVE FALSE
    OBVIOUS
  <2>1. k \in Stop /\ k < m
    BY <1>0, <1>1
  <2> QED BY <2>1, <1>2, <1>0
<1>4. \E j \in from .. Levels : /\ j = Levels \/ levels[j] # 0
                               /\ \A k \in from .. j - 1 : levels[k] = 0
  BY <1>3
<1> QED BY <1>4 DEF WalkUp

\* index_of() yields an int.
LEMMA IndexIsInt ==
  ASSUME NEW book \in Book, NEW price \in Int
  PROVE  IndexOf(book, price) \in Int
<1>1. price - book.base \in Int
  BY DEF Book
<1>2. (price - book.base) % IntRange \in Int
  BY <1>1, IntAssumption, LevelsAssumption
<1> QED BY <1>2, IntAssumption DEF IndexOf

\* init() makes a book that quotes nothing.
LEMMA BookInitType ==
  ASSUME NEW referencePrice \in Int
  PROVE  /\ BookInit(referencePrice) \in Book
         /\ NothingBetter(BookInit(referencePrice))
         /\ BestIsOccupied(BookInit(referencePrice))
<1>1. referencePrice - Levels \div 2 \in Int
  BY LevelsAssumption
<1> QED
  BY <1>1, LevelsAssumption
     DEF BookInit, Book, Index, Quantity, NothingBetter, BestIsOccupied, HasBid,
         HasAsk

\* add() keeps the types and keeps the best indices right, whatever the price.
LEMMA BookAddKeeps ==
  ASSUME NEW book \in Book, NEW side \in Side, NEW price \in Int,
         NEW qty \in Quantity, NothingBetter(book)
  PROVE  /\ BookAdd(book, side, price, qty) \in Book
         /\ NothingBetter(BookAdd(book, side, price, qty))
         /\ qty > 0 /\ BestIsOccupied(book)
              => BestIsOccupied(BookAdd(book, side, price, qty))
<1> DEFINE i == IndexOf(book, price)
           new == BookAdd(book, side, price, qty)
<1>0. i \in Int /\ Levels \in Nat
  BY IndexIsInt, LevelsAssumption
<1>1. CASE ~InBand(book, price)
  BY <1>1 DEF BookAdd, DropUpdate, Book, NothingBetter, BestIsOccupied, HasBid,
     HasAsk
<1>2. CASE InBand(book, price) /\ side = "Buy"
  <2>1. new = [book EXCEPT !.bid[i] = @ + qty,
                           !.bestBid = IF i > @ THEN i ELSE @]
    BY <1>2 DEF BookAdd
  <2>2. i \in Index
    BY <1>2 DEF InBand
  <2>3. /\ new.bid = [book.bid EXCEPT ![i] = @ + qty]
        /\ new.bestBid = IF i > book.bestBid THEN i ELSE book.bestBid
        /\ new.ask = book.ask /\ new.bestAsk = book.bestAsk
        /\ new.base = book.base /\ new.dropped = book.dropped
    BY <2>1 DEF Book
  <2>4. /\ book.bid \in [Index -> Nat]
        /\ book.bestBid \in Int
        /\ qty \in Nat
    BY <1>0 DEF Book, Quantity
  <2>5. new \in Book
    <3>1. new.bid \in [Index -> Quantity]
      BY <2>2, <2>3, <2>4 DEF Quantity
    <3>2. new.bestBid \in -1 .. Levels - 1
      BY <1>0, <2>2, <2>3 DEF Book, Index
    <3> QED BY <2>1, <3>1, <3>2, <2>3 DEF Book
  <2>6. NothingBetter(new)
    <3>1. ASSUME NEW j \in Index, j > new.bestBid PROVE new.bid[j] = 0
      <4>1. j > book.bestBid /\ j # i
        BY <1>0, <2>2, <2>3, <2>4, <3>1 DEF Index
      <4>2. book.bid[j] = 0
        BY <4>1 DEF NothingBetter
      <4> QED BY <4>1, <4>2, <2>3, <2>4
    <3>2. \A j \in Index : j < new.bestAsk => new.ask[j] = 0
      BY <2>3 DEF NothingBetter
    <3> QED BY <3>1, <3>2 DEF NothingBetter
  <2>7. ASSUME qty > 0, BestIsOccupied(book) PROVE BestIsOccupied(new)
    <3>1. new.bid[i] > 0
      BY <2>2, <2>3, <2>4, <2>7
    <3>2. ASSUME HasBid(new), new.bestBid # i PROVE new.bid[new.bestBid] > 0
      <4>1. new.bestBid = book.bestBid /\ book.bestBid \in Index
        BY <1>0, <2>2, <2>3, <2>4, <3>2 DEF HasBid, Index, Book
      <4>2. book.bid[book.bestBid] > 0
        BY <4>1, <2>7, <3>2 DEF BestIsOccupied, HasBid
      <4> QED BY <4>1, <4>2, <3>2, <2>3, <2>4
    <3>3. HasAsk(new) => new.ask[new.bestAsk] > 0
      BY <2>3, <2>7 DEF BestIsOccupied, HasAsk
    <3> QED BY <3>1, <3>2, <3>3 DEF BestIsOccupied
  <2> QED BY <2>5, <2>6, <2>7
<1>3. CASE InBand(book, price) /\ side = "Sell"
  <2>1. new = [book EXCEPT !.ask[i] = @ + qty,
                           !.bestAsk = IF i < @ THEN i ELSE @]
    BY <1>3 DEF BookAdd
  <2>2. i \in Index
    BY <1>3 DEF InBand
  <2>3. /\ new.ask = [book.ask EXCEPT ![i] = @ + qty]
        /\ new.bestAsk = IF i < book.bestAsk THEN i ELSE book.bestAsk
        /\ new.bid = book.bid /\ new.bestBid = book.bestBid
        /\ new.base = book.base /\ new.dropped = book.dropped
    BY <2>1 DEF Book
  <2>4. /\ book.ask \in [Index -> Nat]
        /\ book.bestAsk \in Int
        /\ qty \in Nat
    BY <1>0 DEF Book, Quantity
  <2>5. new \in Book
    <3>1. new.ask \in [Index -> Quantity]
      BY <2>2, <2>3, <2>4 DEF Quantity
    <3>2. new.bestAsk \in 0 .. Levels
      BY <1>0, <2>2, <2>3 DEF Book, Index
    <3> QED BY <2>1, <3>1, <3>2, <2>3 DEF Book
  <2>6. NothingBetter(new)
    <3>1. ASSUME NEW j \in Index, j < new.bestAsk PROVE new.ask[j] = 0
      <4>1. j < book.bestAsk /\ j # i
        BY <1>0, <2>2, <2>3, <2>4, <3>1 DEF Index
      <4>2. book.ask[j] = 0
        BY <4>1 DEF NothingBetter
      <4> QED BY <4>1, <4>2, <2>3, <2>4
    <3>2. \A j \in Index : j > new.bestBid => new.bid[j] = 0
      BY <2>3 DEF NothingBetter
    <3> QED BY <3>1, <3>2 DEF NothingBetter
  <2>7. ASSUME qty > 0, BestIsOccupied(book) PROVE BestIsOccupied(new)
    <3>1. new.ask[i] > 0
      BY <2>2, <2>3, <2>4, <2>7
    <3>2. ASSUME HasAsk(new), new.bestAsk # i PROVE new.ask[new.bestAsk] > 0
      <4>1. new.bestAsk = book.bestAsk /\ book.bestAsk \in Index
        BY <1>0, <2>2, <2>3, <2>4, <3>2 DEF HasAsk, Index, Book
      <4>2. book.ask[book.bestAsk] > 0
        BY <4>1, <2>7, <3>2 DEF BestIsOccupied, HasAsk
      <4> QED BY <4>1, <4>2, <3>2, <2>3, <2>4
    <3>3. HasBid(new) => new.bid[new.bestBid] > 0
      BY <2>3, <2>7 DEF BestIsOccupied, HasBid
    <3> QED BY <3>1, <3>2, <3>3 DEF BestIsOccupied
  <2> QED BY <2>5, <2>6, <2>7
<1> QED BY <1>1, <1>2, <1>3 DEF Side
\* reduce() keeps the types and keeps the best indices right: when the best
\* level becomes empty, the loop finds the next occupied one.
LEMMA BookReduceKeeps ==
  ASSUME NEW book \in Book, NEW side \in Side, NEW price \in Int,
         NEW qty \in Quantity, NothingBetter(book)
  PROVE  /\ BookReduce(book, side, price, qty) \in Book
         /\ NothingBetter(BookReduce(book, side, price, qty))
         /\ BestIsOccupied(book)
              => BestIsOccupied(BookReduce(book, side, price, qty))
<1> DEFINE i == IndexOf(book, price)
           new == BookReduce(book, side, price, qty)
<1>0. i \in Int /\ Levels \in Nat
  BY IndexIsInt, LevelsAssumption
<1>1. CASE ~InBand(book, price)
  BY <1>1 DEF BookReduce, DropUpdate, Book, NothingBetter, BestIsOccupied,
     HasBid, HasAsk
<1>2. CASE InBand(book, price) /\ side = "Buy"
  <2> DEFINE left == [book.bid EXCEPT ![i] = Minus(@, qty)]
             best == IF i = book.bestBid /\ left[i] = 0
                     THEN WalkDown(left, book.bestBid) ELSE book.bestBid
  <2>1. new = [book EXCEPT
                !.bid = left,
                !.bestBid = IF i = @ /\ left[i] = 0 THEN WalkDown(left, @) ELSE @]
    BY <1>2 DEF BookReduce
  <2>2. i \in Index
    BY <1>2 DEF InBand
  <2>3. /\ new.bid = left /\ new.bestBid = best
        /\ new.ask = book.ask /\ new.bestAsk = book.bestAsk
        /\ new.base = book.base /\ new.dropped = book.dropped
    BY <2>1 DEF Book
  <2>4. /\ book.bid \in [Index -> Nat] /\ book.bestBid \in -1 .. Levels - 1 /\ qty \in Nat
    BY DEF Book, Quantity
  <2>5. /\ left \in [Index -> Nat]
        /\ \A j \in Index : j # i => left[j] = book.bid[j]
        /\ \A j \in Index : book.bid[j] = 0 => left[j] = 0
    BY <2>2, <2>4 DEF Minus
  <2> HIDE DEF left
  <2>6. i = book.bestBid =>
          /\ WalkDown(left, book.bestBid) \in -1 .. book.bestBid
          /\ WalkDown(left, book.bestBid) # -1 => left[WalkDown(left, book.bestBid)] # 0
          /\ \A k \in WalkDown(left, book.bestBid) + 1 .. book.bestBid : left[k] = 0
    BY <2>4, <2>5, WalkDownStops DEF Quantity
  <2>7. new \in Book
    <3>1. best \in -1 .. Levels - 1
      BY <1>0, <2>4, <2>6
    <3> QED BY <2>1, <2>3, <2>5, <3>1 DEF Book, Quantity
  <2>8. NothingBetter(new)
    <3>1. ASSUME NEW j \in Index, j > best PROVE left[j] = 0
      <4>1. CASE j > book.bestBid
        BY <4>1, <2>5 DEF NothingBetter
      <4>2. CASE ~(j > book.bestBid)
        <5>1. i = book.bestBid /\ best = WalkDown(left, book.bestBid)
          BY <4>2, <3>1
        <5>2. j \in best + 1 .. book.bestBid
          BY <1>0, <2>4, <2>6, <3>1, <4>2, <5>1 DEF Index
        <5> QED BY <2>6, <5>1, <5>2
      <4> QED BY <4>1, <4>2
    <3>2. \A j \in Index : j < new.bestAsk => new.ask[j] = 0
      BY <2>3 DEF NothingBetter
    <3> QED BY <3>1, <3>2, <2>3 DEF NothingBetter
  <2>9. ASSUME BestIsOccupied(book) PROVE BestIsOccupied(new)
    <3>1. ASSUME HasBid(new) PROVE left[best] > 0
      <4>1. best \in Index /\ best # -1
        BY <1>0, <2>3, <2>4, <2>6, <3>1 DEF HasBid, Index
      <4>2. left[best] \in Nat
        BY <4>1, <2>5
      <4>3. left[best] # 0
        <5>1. CASE i = book.bestBid /\ left[i] = 0
          BY <5>1, <2>6, <4>1
        <5>2. CASE i = book.bestBid /\ left[i] # 0
          BY <5>2
        <5>3. CASE i # book.bestBid
          <6>1. best = book.bestBid /\ left[best] = book.bid[best]
            BY <5>3, <2>5, <4>1
          <6>2. book.bid[book.bestBid] > 0
            BY <6>1, <2>3, <2>9, <3>1 DEF BestIsOccupied, HasBid
          <6> QED BY <6>1, <6>2
        <5> QED BY <5>1, <5>2, <5>3
      <4> QED BY <4>2, <4>3
    <3>2. HasAsk(new) => new.ask[new.bestAsk] > 0
      BY <2>3, <2>9 DEF BestIsOccupied, HasAsk
    <3> QED BY <3>1, <3>2, <2>3 DEF BestIsOccupied
  <2> QED BY <2>7, <2>8, <2>9
<1>3. CASE InBand(book, price) /\ side = "Sell"
  <2> DEFINE left == [book.ask EXCEPT ![i] = Minus(@, qty)]
             best == IF i = book.bestAsk /\ left[i] = 0
                     THEN WalkUp(left, book.bestAsk) ELSE book.bestAsk
  <2>1. new = [book EXCEPT
                !.ask = left,
                !.bestAsk = IF i = @ /\ left[i] = 0 THEN WalkUp(left, @) ELSE @]
    BY <1>3 DEF BookReduce
  <2>2. i \in Index
    BY <1>3 DEF InBand
  <2>3. /\ new.ask = left /\ new.bestAsk = best
        /\ new.bid = book.bid /\ new.bestBid = book.bestBid
        /\ new.base = book.base /\ new.dropped = book.dropped
    BY <2>1 DEF Book
  <2>4. /\ book.ask \in [Index -> Nat] /\ book.bestAsk \in 0 .. Levels /\ qty \in Nat
    BY DEF Book, Quantity
  <2>5. /\ left \in [Index -> Nat]
        /\ \A j \in Index : j # i => left[j] = book.ask[j]
        /\ \A j \in Index : book.ask[j] = 0 => left[j] = 0
    BY <2>2, <2>4 DEF Minus
  <2> HIDE DEF left
  <2>6. i = book.bestAsk =>
          /\ WalkUp(left, book.bestAsk) \in book.bestAsk .. Levels
          /\ WalkUp(left, book.bestAsk) # Levels => left[WalkUp(left, book.bestAsk)] # 0
          /\ \A k \in book.bestAsk .. WalkUp(left, book.bestAsk) - 1 : left[k] = 0
    BY <2>4, <2>5, WalkUpStops DEF Quantity
  <2>7. new \in Book
    <3>1. best \in 0 .. Levels
      BY <1>0, <2>4, <2>6
    <3> QED BY <2>1, <2>3, <2>5, <3>1 DEF Book, Quantity
  <2>8. NothingBetter(new)
    <3>1. ASSUME NEW j \in Index, j < best PROVE left[j] = 0
      <4>1. CASE j < book.bestAsk
        BY <4>1, <2>5 DEF NothingBetter
      <4>2. CASE ~(j < book.bestAsk)
        <5>1. i = book.bestAsk /\ best = WalkUp(left, book.bestAsk)
          BY <4>2, <3>1
        <5>2. j \in book.bestAsk .. best - 1
          BY <1>0, <2>4, <2>6, <3>1, <4>2, <5>1 DEF Index
        <5> QED BY <2>6, <5>1, <5>2
      <4> QED BY <4>1, <4>2
    <3>2. \A j \in Index : j > new.bestBid => new.bid[j] = 0
      BY <2>3 DEF NothingBetter
    <3> QED BY <3>1, <3>2, <2>3 DEF NothingBetter
  <2>9. ASSUME BestIsOccupied(book) PROVE BestIsOccupied(new)
    <3>1. ASSUME HasAsk(new) PROVE left[best] > 0
      <4>1. best \in Index /\ best # Levels
        BY <1>0, <2>3, <2>4, <2>6, <3>1 DEF HasAsk, Index
      <4>2. left[best] \in Nat
        BY <4>1, <2>5
      <4>3. left[best] # 0
        <5>1. CASE i = book.bestAsk /\ left[i] = 0
          BY <5>1, <2>6, <4>1
        <5>2. CASE i = book.bestAsk /\ left[i] # 0
          BY <5>2
        <5>3. CASE i # book.bestAsk
          <6>1. best = book.bestAsk /\ left[best] = book.ask[best]
            BY <5>3, <2>5, <4>1
          <6>2. book.ask[book.bestAsk] > 0
            BY <6>1, <2>3, <2>9, <3>1 DEF BestIsOccupied, HasAsk
          <6> QED BY <6>1, <6>2
        <5> QED BY <5>1, <5>2, <5>3
      <4> QED BY <4>2, <4>3
    <3>2. HasBid(new) => new.bid[new.bestBid] > 0
      BY <2>3, <2>9 DEF BestIsOccupied, HasBid
    <3> QED BY <3>1, <3>2, <2>3 DEF BestIsOccupied
  <2> QED BY <2>7, <2>8, <2>9
<1> QED BY <1>1, <1>2, <1>3 DEF Side

-----------------------------------------------------------------------------
(***************************************************************************)
(* The messages                                                            *)
(***************************************************************************)
\* A book that keeps what add() and reduce() rely on.
GoodBook(book) == book \in Book /\ NothingBetter(book) /\ BestIsOccupied(book)
GoodView(view) == view.orders \in OrderMap /\ GoodBook(view.book)

\* A message is of one of the five kinds, and so has the fields of its kind.
LEMMA MessageKinds ==
  ASSUME NEW m \in Message
  PROVE  /\ m.type \in {"Add", "Execute", "Cancel", "Delete", "Replace"}
         /\ m.type = "Add" => m \in AddOrderMsg
         /\ m.type \in {"Execute", "Cancel"} => m \in TakeMsg
         /\ m.type = "Delete" => m \in DeleteMsg
         /\ m.type = "Replace" => m \in ReplaceMsg
         /\ m.instrument \in Instrument /\ m.id \in OrderId
BY DEF Message, AddOrderMsg, TakeMsg, DeleteMsg, ReplaceMsg

\* The message held is distinguishable from none, and an order from none.
LEMMA NothingIsNotSomething ==
  NoMessage \notin Message /\ NoOrder \notin Location
<1>1. NoMessage \notin Message
  BY MessageKinds DEF NoMessage
<1>2. NoOrder \notin Location
  BY DEF NoOrder, Location, Side
<1> QED BY <1>1, <1>2

\* add() keeps a book good.
LEMMA AddKeepsGood ==
  ASSUME NEW book, GoodBook(book), NEW side \in Side, NEW price \in Int,
         NEW qty \in WireQuantity
  PROVE  GoodBook(BookAdd(book, side, price, qty))
<1>1. qty \in Quantity /\ qty > 0
  BY DEF WireQuantity, Quantity
<1> QED BY <1>1, BookAddKeeps DEF GoodBook

\* reduce() keeps a book good.
LEMMA ReduceKeepsGood ==
  ASSUME NEW book, GoodBook(book), NEW side \in Side, NEW price \in Int,
         NEW qty \in WireQuantity
  PROVE  GoodBook(BookReduce(book, side, price, qty))
<1>1. qty \in Quantity
  BY DEF WireQuantity, Quantity
<1> QED BY <1>1, BookReduceKeeps DEF GoodBook

\* Writing an order, or none, into the map keeps its type.
LEMMA OrderMapUpdate ==
  ASSUME NEW map \in OrderMap, NEW id \in OrderId,
         NEW order \in Location \cup {NoOrder}
  PROVE  [map EXCEPT ![id] = order] \in OrderMap
BY DEF OrderMap

\* An Add keeps the orders and the book good, whatever id it reuses.
LEMMA ApplyAddKeeps ==
  ASSUME NEW view, GoodView(view), NEW m \in AddOrderMsg
  PROVE  GoodView(ApplyAdd(view, m))
<1> DEFINE order == [instrument |-> m.instrument, side |-> m.side,
                     price |-> m.price, qty |-> m.qty]
<1>1. m.id \in OrderId /\ m.side \in Side /\ m.price \in Int
      /\ m.qty \in WireQuantity /\ order \in Location
  BY DEF AddOrderMsg, Location
<1>2. [view.orders EXCEPT ![m.id] = order] \in OrderMap
  BY <1>1, OrderMapUpdate DEF GoodView
<1>3. GoodBook(BookAdd(view.book, m.side, m.price, m.qty))
  BY <1>1, AddKeepsGood DEF GoodView
<1> QED BY <1>2, <1>3 DEF ApplyAdd, GoodView

\* An Execute or a Cancel takes at most what the order has, so that no order
\* and no level goes below zero and no order with nothing left is kept.
LEMMA ApplyTakeKeeps ==
  ASSUME NEW view, GoodView(view), NEW m \in TakeMsg
  PROVE  GoodView(ApplyTake(view, m))
<1> DEFINE order == view.orders[m.id]
           taken == SmallerOf(m.qty, order.qty)
           left  == IF taken = order.qty THEN NoOrder
                    ELSE [order EXCEPT !.qty = @ - taken]
<1>1. m.id \in OrderId /\ m.qty \in WireQuantity
  BY DEF TakeMsg
<1>2. CASE order = NoOrder
  BY <1>2 DEF ApplyTake
<1>3. CASE order # NoOrder
  <2>1. order \in Location
    BY <1>1, <1>3 DEF GoodView, OrderMap
  <2>2. order.side \in Side /\ order.price \in Int /\ order.qty \in WireQuantity
    BY <2>1 DEF Location
  <2>3. taken \in WireQuantity /\ taken <= order.qty
    BY <1>1, <2>2 DEF SmallerOf, WireQuantity
  <2>4. left \in Location \cup {NoOrder}
    <3>1. CASE taken = order.qty
      BY <3>1
    <3>2. CASE taken # order.qty
      <4>1. order.qty - taken \in WireQuantity
        BY <3>2, <2>2, <2>3 DEF WireQuantity
      <4> QED BY <4>1, <3>2, <2>1 DEF Location
    <3> QED BY <3>1, <3>2
  <2>5. [view.orders EXCEPT ![m.id] = left] \in OrderMap
    BY <1>1, <2>4, OrderMapUpdate DEF GoodView
  <2>6. GoodBook(BookReduce(view.book, order.side, order.price, taken))
    BY <2>2, <2>3, ReduceKeepsGood DEF GoodView
  <2> QED BY <1>3, <2>5, <2>6 DEF ApplyTake, GoodView
<1> QED BY <1>2, <1>3

\* A Delete keeps the orders and the book good.
LEMMA ApplyDeleteKeeps ==
  ASSUME NEW view, GoodView(view), NEW m \in DeleteMsg
  PROVE  GoodView(ApplyDelete(view, m))
<1> DEFINE order == view.orders[m.id]
<1>1. m.id \in OrderId
  BY DEF DeleteMsg
<1>2. CASE order = NoOrder
  BY <1>2 DEF ApplyDelete
<1>3. CASE order # NoOrder
  <2>1. order \in Location
    BY <1>1, <1>3 DEF GoodView, OrderMap
  <2>2. GoodBook(BookReduce(view.book, order.side, order.price, order.qty))
    BY <2>1, ReduceKeepsGood DEF GoodView, Location
  <2>3. [view.orders EXCEPT ![m.id] = NoOrder] \in OrderMap
    BY <1>1, OrderMapUpdate DEF GoodView
  <2> QED BY <1>3, <2>2, <2>3 DEF ApplyDelete, GoodView
<1> QED BY <1>2, <1>3

\* A Replace keeps the orders and the book good, onto its own id too.
LEMMA ApplyReplaceKeeps ==
  ASSUME NEW view, GoodView(view), NEW m \in ReplaceMsg
  PROVE  GoodView(ApplyReplace(view, m))
<1> DEFINE old     == view.orders[m.id]
           reduced == BookReduce(view.book, old.side, old.price, old.qty)
           erased  == [view.orders EXCEPT ![m.id] = NoOrder]
           new     == [instrument |-> m.instrument, side |-> old.side,
                       price |-> m.price, qty |-> m.qty]
<1>1. m.id \in OrderId /\ m.newId \in OrderId /\ m.instrument \in Instrument
      /\ m.price \in Int /\ m.qty \in WireQuantity
  BY DEF ReplaceMsg
<1>2. CASE old = NoOrder
  BY <1>2 DEF ApplyReplace
<1>3. CASE old # NoOrder
  <2>1. old \in Location
    BY <1>1, <1>3 DEF GoodView, OrderMap
  <2>2. GoodBook(reduced)
    BY <2>1, ReduceKeepsGood DEF GoodView, Location
  <2>3. GoodBook(BookAdd(reduced, old.side, m.price, m.qty))
    BY <1>1, <2>1, <2>2, AddKeepsGood DEF Location
  <2>4. erased \in OrderMap
    BY <1>1, OrderMapUpdate DEF GoodView
  <2>5. new \in Location
    BY <1>1, <2>1 DEF Location
  <2>6. [erased EXCEPT ![m.newId] = new] \in OrderMap
    BY <1>1, <2>4, <2>5, OrderMapUpdate
  <2> QED BY <1>3, <2>3, <2>6 DEF ApplyReplace, GoodView
<1> QED BY <1>2, <1>3

\* apply(), for any well-formed message.
LEMMA ApplyKeeps ==
  ASSUME NEW view, GoodView(view), NEW m \in Message
  PROVE  GoodView(Apply(view, m))
<1>1. CASE m.type = "Add"
  BY <1>1, MessageKinds, ApplyAddKeeps DEF Apply
<1>2. CASE m.type \in {"Execute", "Cancel"}
  BY <1>2, MessageKinds, ApplyTakeKeeps DEF Apply
<1>3. CASE m.type = "Delete"
  BY <1>3, MessageKinds, ApplyDeleteKeeps DEF Apply
<1>4. CASE m.type = "Replace"
  BY <1>4, MessageKinds, ApplyReplaceKeeps DEF Apply
<1> QED BY <1>1, <1>2, <1>3, <1>4, MessageKinds

-----------------------------------------------------------------------------
(***************************************************************************)
(* The depth of a book is the depth of its orders: every level holds the   *)
(* sum of the orders that rest there.  add() and reduce() change one level *)
(* by the quantity by which apply() changes the orders.                    *)
(***************************************************************************)
LevelOf(book, side, index) == IF side = "Buy" THEN book.bid[index] ELSE book.ask[index]

\* What an order of the map adds to a level of the book of instrument i.
Share(order, book, i, side, index) ==
  IF /\ order # NoOrder /\ order.instrument = i /\ order.side = side
     /\ IndexOf(book, order.price) = index
  THEN order.qty ELSE 0

Shares(map, book, i, side, index) ==
  [id \in OrderId |-> Share(map[id], book, i, side, index)]

DepthOf(map, book, i, side, index) ==
  SumFunctionOnSet(Shares(map, book, i, side, index), OrderId)

DepthMatches(map, book, i) ==
  \A side \in Side, index \in Index :
    LevelOf(book, side, index) = DepthOf(map, book, i, side, index)

\* The shares are naturals, and no share is more than the depth.
LEMMA DepthIsNat ==
  ASSUME NEW map \in OrderMap, NEW book, NEW i, NEW side, NEW index
  PROVE  /\ DepthOf(map, book, i, side, index) \in Nat
         /\ \A id \in OrderId : /\ Share(map[id], book, i, side, index) \in Nat
                                /\ Share(map[id], book, i, side, index)
                                     <= DepthOf(map, book, i, side, index)
<1> DEFINE f == Shares(map, book, i, side, index)
<1>1. IsFiniteSet(OrderId)
  BY OrderIdAssumption, FS_Interval DEF OrderId
<1>2. \A id \in OrderId : f[id] = Share(map[id], book, i, side, index)
  BY DEF Shares
<1>3. \A id \in OrderId : Share(map[id], book, i, side, index) \in Nat
  BY DEF Share, OrderMap, Location, WireQuantity
<1> HIDE DEF f
<1>4. /\ SumFunctionOnSet(f, OrderId) \in Nat
      /\ \A id \in OrderId : f[id] <= SumFunctionOnSet(f, OrderId)
  BY <1>1, <1>2, <1>3, SumOfNaturals
<1> QED BY <1>2, <1>3, <1>4 DEF DepthOf, f

\* Writing one order changes the depth by its share.
LEMMA DepthUpdated ==
  ASSUME NEW map \in OrderMap, NEW book, NEW i, NEW side, NEW index,
         NEW id \in OrderId, NEW order \in Location \cup {NoOrder}
  PROVE  DepthOf([map EXCEPT ![id] = order], book, i, side, index)
           = DepthOf(map, book, i, side, index)
               - Share(map[id], book, i, side, index)
               + Share(order, book, i, side, index)
<1> DEFINE after == [map EXCEPT ![id] = order]
           f == Shares(map, book, i, side, index)
           e == Shares(after, book, i, side, index)
<1>1. IsFiniteSet(OrderId)
  BY OrderIdAssumption, FS_Interval DEF OrderId
<1>2. after \in OrderMap
  BY DEF OrderMap
<1>3. \A k \in OrderId : f[k] \in Int /\ e[k] \in Int
  <2>1. \A k \in OrderId : /\ Share(map[k], book, i, side, index) \in Int
                            /\ Share(after[k], book, i, side, index) \in Int
    <3> HIDE DEF after
    <3> QED BY <1>2, DepthIsNat, SMTT(30)
  <2> QED BY <2>1 DEF Shares
<1>4. \A k \in OrderId \ {id} : f[k] = e[k]
  BY DEF Shares, OrderMap
<1>5. f[id] = Share(map[id], book, i, side, index)
      /\ e[id] = Share(order, book, i, side, index)
  BY DEF Shares, OrderMap
<1> HIDE DEF f, e
<1>6. SumFunctionOnSet(e, OrderId) = SumFunctionOnSet(f, OrderId) - f[id] + e[id]
  BY <1>1, <1>3, <1>4, SumChanged
<1> QED BY <1>5, <1>6 DEF DepthOf, f, e

\* Only the band of the book matters to the shares.
LEMMA DepthInBand ==
  ASSUME NEW map, NEW book, NEW other, other.base = book.base, NEW i, NEW side, NEW index
  PROVE  DepthOf(map, other, i, side, index) = DepthOf(map, book, i, side, index)
BY DEF DepthOf, Shares, Share, IndexOf

\* add() adds the quantity to one level, if the band has it.
LEMMA AddChangesOneLevel ==
  ASSUME NEW book \in Book, NEW side \in Side, NEW price \in Int, NEW qty \in Nat
  PROVE  LET new == BookAdd(book, side, price, qty)
         IN  /\ new.base = book.base
             /\ \A s \in Side, index \in Index :
                  LevelOf(new, s, index)
                    = LevelOf(book, s, index)
                        + IF s = side /\ IndexOf(book, price) = index THEN qty ELSE 0
<1>1. \A s \in Side, index \in Index : LevelOf(book, s, index) \in Nat
  BY DEF LevelOf, Book, Quantity
<1>2. IndexOf(book, price) \in Int
  BY IndexIsInt
<1>3. CASE ~InBand(book, price)
  BY <1>1, <1>3 DEF BookAdd, InBand, DropUpdate, Book, LevelOf
<1>4. CASE InBand(book, price) /\ side = "Buy"
  BY <1>1, <1>2, <1>4 DEF BookAdd, InBand, Book, LevelOf, Side
<1>5. CASE InBand(book, price) /\ side = "Sell"
  BY <1>1, <1>2, <1>5 DEF BookAdd, InBand, Book, LevelOf, Side
<1> QED BY <1>3, <1>4, <1>5 DEF Side

\* reduce() takes the quantity out of one level, if the level has that much.
LEMMA ReduceChangesOneLevel ==
  ASSUME NEW book \in Book, NEW side \in Side, NEW price \in Int, NEW qty \in Nat,
         InBand(book, price) => qty <= LevelOf(book, side, IndexOf(book, price))
  PROVE  LET new == BookReduce(book, side, price, qty)
         IN  /\ new.base = book.base
             /\ \A s \in Side, index \in Index :
                  LevelOf(new, s, index)
                    = LevelOf(book, s, index)
                        - IF s = side /\ IndexOf(book, price) = index THEN qty ELSE 0
<1>1. \A s \in Side, index \in Index : LevelOf(book, s, index) \in Nat
  BY DEF LevelOf, Book, Quantity
<1>2. IndexOf(book, price) \in Int
  BY IndexIsInt
<1>3. CASE ~InBand(book, price)
  BY <1>1, <1>3 DEF BookReduce, InBand, DropUpdate, Book, LevelOf
<1>4. CASE InBand(book, price)
  <2> DEFINE at == IndexOf(book, price)
             q == LevelOf(book, side, at)
  <2>1. at \in Index /\ q \in Nat /\ Minus(q, qty) = q - qty
    BY <1>1, <1>4 DEF InBand, Minus
  <2>2. CASE side = "Buy"
    BY <1>1, <1>4, <2>1, <2>2 DEF BookReduce, Book, LevelOf, Side
  <2>3. CASE side = "Sell"
    BY <1>1, <1>4, <2>1, <2>3 DEF BookReduce, Book, LevelOf, Side
  <2> QED BY <2>2, <2>3 DEF Side
<1> QED BY <1>3, <1>4

\* A new order and its add().
LEMMA PlaceKeepsDepth ==
  ASSUME NEW map \in OrderMap, NEW book \in Book, NEW i \in Instrument,
         DepthMatches(map, book, i),
         NEW id \in OrderId, map[id] = NoOrder,
         NEW order \in Location, order.instrument = i
  PROVE  DepthMatches([map EXCEPT ![id] = order],
                      BookAdd(book, order.side, order.price, order.qty), i)
<1> DEFINE new == BookAdd(book, order.side, order.price, order.qty)
           after == [map EXCEPT ![id] = order]
<1>1. order.side \in Side /\ order.price \in Int /\ order.qty \in Nat /\ order # NoOrder
  BY NothingIsNotSomething DEF Location, WireQuantity
<1>2. /\ new.base = book.base
      /\ \A s \in Side, index \in Index :
           LevelOf(new, s, index)
             = LevelOf(book, s, index)
                 + IF s = order.side /\ IndexOf(book, order.price) = index
                   THEN order.qty ELSE 0
  BY <1>1, AddChangesOneLevel
<1> HIDE DEF new
<1> SUFFICES ASSUME NEW s \in Side, NEW index \in Index
             PROVE  LevelOf(new, s, index) = DepthOf(after, new, i, s, index)
  BY DEF DepthMatches, new
<1>3. LevelOf(book, s, index) = DepthOf(map, book, i, s, index)
  BY DEF DepthMatches
<1>4. DepthOf(after, new, i, s, index) = DepthOf(after, book, i, s, index)
  BY <1>2, DepthInBand
<1>5. DepthOf(after, book, i, s, index)
        = DepthOf(map, book, i, s, index) - Share(map[id], book, i, s, index)
            + Share(order, book, i, s, index)
  BY DepthUpdated
<1>6. Share(map[id], book, i, s, index) = 0
  BY DEF Share
<1>7. Share(order, book, i, s, index)
        = IF s = order.side /\ IndexOf(book, order.price) = index THEN order.qty ELSE 0
  BY <1>1 DEF Share
<1>8. DepthOf(map, book, i, s, index) \in Nat
  BY DepthIsNat
<1> QED BY <1>1, <1>2, <1>3, <1>4, <1>5, <1>6, <1>7, <1>8

\* Some or all of an order is taken, and its reduce().
LEMMA TakeKeepsDepth ==
  ASSUME NEW map \in OrderMap, NEW book \in Book, NEW i \in Instrument,
         DepthMatches(map, book, i),
         NEW id \in OrderId, map[id] # NoOrder, map[id].instrument = i,
         NEW taken \in WireQuantity, taken <= map[id].qty
  PROVE  LET order == map[id]
             left == IF taken = order.qty THEN NoOrder
                     ELSE [order EXCEPT !.qty = @ - taken]
         IN  /\ [map EXCEPT ![id] = left] \in OrderMap
             /\ DepthMatches([map EXCEPT ![id] = left],
                             BookReduce(book, order.side, order.price, taken), i)
<1> DEFINE order == map[id]
           left == IF taken = order.qty THEN NoOrder
                   ELSE [order EXCEPT !.qty = @ - taken]
           new == BookReduce(book, order.side, order.price, taken)
           after == [map EXCEPT ![id] = left]
<1>1. order \in Location
  BY DEF OrderMap
<1>2. /\ order.side \in Side /\ order.price \in Int /\ order.qty \in WireQuantity
      /\ taken \in Nat /\ order.qty \in Nat
  BY <1>1 DEF Location, WireQuantity
<1>3. left \in Location \cup {NoOrder}
  <2>1. taken # order.qty => order.qty - taken \in WireQuantity
    BY <1>2 DEF WireQuantity
  <2> QED BY <1>1, <2>1 DEF Location
<1>4. after \in OrderMap
  BY <1>3, OrderMapUpdate
<1>5. \A s \in Side, index \in Index :
        /\ Share(order, book, i, s, index)
             = IF s = order.side /\ IndexOf(book, order.price) = index
               THEN order.qty ELSE 0
        /\ Share(left, book, i, s, index)
             = IF s = order.side /\ IndexOf(book, order.price) = index
               THEN order.qty - taken ELSE 0
  <2>1. CASE taken = order.qty
    BY <1>2, <2>1 DEF Share
  <2>2. CASE taken # order.qty
    <3>1. /\ left.instrument = order.instrument /\ left.side = order.side
          /\ left.price = order.price /\ left.qty = order.qty - taken
      BY <1>1, <2>2 DEF Location
    <3>2. left # NoOrder
      BY <1>2, <3>1 DEF NoOrder, Side
    <3> QED BY <3>1, <3>2 DEF Share
  <2> QED BY <2>1, <2>2
<1>6. InBand(book, order.price) =>
        taken <= LevelOf(book, order.side, IndexOf(book, order.price))
  <2> SUFFICES ASSUME InBand(book, order.price)
               PROVE  taken <= LevelOf(book, order.side, IndexOf(book, order.price))
    OBVIOUS
  <2> DEFINE at == IndexOf(book, order.price)
             depth == DepthOf(map, book, i, order.side, at)
  <2>1. at \in Index
    BY DEF InBand
  <2>2. LevelOf(book, order.side, at) = depth
    BY <1>2, <2>1 DEF DepthMatches
  <2>3. Share(order, book, i, order.side, at) = order.qty
    BY <1>2, <1>5, <2>1
  <2>4. depth \in Nat /\ order.qty <= depth
    BY <2>3, DepthIsNat
  <2> QED BY <1>2, <2>2, <2>4
<1>7. /\ new.base = book.base
      /\ \A s \in Side, index \in Index :
           LevelOf(new, s, index)
             = LevelOf(book, s, index)
                 - IF s = order.side /\ IndexOf(book, order.price) = index
                   THEN taken ELSE 0
  BY <1>2, <1>6, ReduceChangesOneLevel
<1>8. DepthMatches(after, new, i)
  <2> HIDE DEF new, left
  <2> SUFFICES ASSUME NEW s \in Side, NEW index \in Index
               PROVE  LevelOf(new, s, index) = DepthOf(after, new, i, s, index)
    BY DEF DepthMatches
  <2>1. LevelOf(book, s, index) = DepthOf(map, book, i, s, index)
    BY DEF DepthMatches
  <2>2. DepthOf(after, new, i, s, index) = DepthOf(after, book, i, s, index)
    BY <1>7, DepthInBand
  <2>3. DepthOf(after, book, i, s, index)
          = DepthOf(map, book, i, s, index) - Share(order, book, i, s, index)
              + Share(left, book, i, s, index)
    BY <1>3, DepthUpdated
  <2>4. DepthOf(map, book, i, s, index) \in Nat
    BY DepthIsNat
  <2> QED BY <1>2, <1>5, <1>7, <2>1, <2>2, <2>3, <2>4
<1> QED BY <1>4, <1>8

\* What a message must find for its effect on the book to be its effect on the
\* orders: a new id is not in use, and an old one is an order of its instrument.
FitsMap(map, m) ==
  /\ m.type = "Add" => map[m.id] = NoOrder
  /\ m.type = "Replace" => map[m.newId] = NoOrder
  /\ m.type # "Add" /\ map[m.id] # NoOrder => map[m.id].instrument = m.instrument

\* apply() of such a message.
LEMMA ApplyKeepsDepth ==
  ASSUME NEW map \in OrderMap, NEW book \in Book, NEW m \in Message, FitsMap(map, m),
         GoodBook(book), DepthMatches(map, book, m.instrument)
  PROVE  LET after == Apply([orders |-> map, book |-> book], m)
         IN  DepthMatches(after.orders, after.book, m.instrument)
<1> DEFINE i == m.instrument
           view == [orders |-> map, book |-> book]
           after == Apply(view, m)
           old == map[m.id]
<1>0. view.orders = map /\ view.book = book /\ m.id \in OrderId /\ i \in Instrument
  BY MessageKinds
<1>1. CASE m.type = "Add"
  <2> DEFINE order == [instrument |-> i, side |-> m.side, price |-> m.price,
                       qty |-> m.qty]
  <2>1. m \in AddOrderMsg
    BY <1>1, MessageKinds
  <2>2. order \in Location
    BY <2>1 DEF AddOrderMsg, Location
  <2>3. /\ after.orders = [map EXCEPT ![m.id] = order]
        /\ after.book = BookAdd(book, order.side, order.price, order.qty)
    BY <1>1 DEF Apply, ApplyAdd
  <2>4. order.instrument = i /\ map[m.id] = NoOrder
    BY <1>1 DEF FitsMap
  <2>5. DepthMatches([map EXCEPT ![m.id] = order],
                     BookAdd(book, order.side, order.price, order.qty), i)
    <3> HIDE DEF order
    <3> QED BY <1>0, <2>2, <2>4, PlaceKeepsDepth
  <2> QED BY <2>3, <2>5
<1>2. CASE m.type # "Add" /\ old = NoOrder
  <2>1. after = view
    BY <1>0, <1>2, MessageKinds DEF Apply, ApplyTake, ApplyDelete, ApplyReplace
  <2> QED BY <1>0, <2>1
<1>3. CASE m.type # "Add" /\ old # NoOrder
  <2>1. old.instrument = i /\ old \in Location
    BY <1>0, <1>3 DEF FitsMap, OrderMap
  <2>2. old.qty \in WireQuantity /\ old.qty <= old.qty
    BY <2>1 DEF Location, WireQuantity
  <2>3. /\ [map EXCEPT ![m.id] = NoOrder] \in OrderMap
        /\ DepthMatches([map EXCEPT ![m.id] = NoOrder],
                        BookReduce(book, old.side, old.price, old.qty), i)
    BY <1>0, <1>3, <2>1, <2>2, TakeKeepsDepth
  <2>4. CASE m.type \in {"Execute", "Cancel"}
    <3> DEFINE taken == SmallerOf(m.qty, old.qty)
               left == IF taken = old.qty THEN NoOrder
                       ELSE [old EXCEPT !.qty = @ - taken]
    <3>1. m.qty \in WireQuantity
      BY <2>4, MessageKinds DEF TakeMsg
    <3>2. taken \in WireQuantity /\ taken <= old.qty
      BY <2>2, <3>1 DEF SmallerOf, WireQuantity
    <3>3. /\ after.orders = [map EXCEPT ![m.id] = left]
          /\ after.book = BookReduce(book, old.side, old.price, taken)
      BY <1>3, <2>4 DEF Apply, ApplyTake
    <3>4. DepthMatches([map EXCEPT ![m.id] = left],
                       BookReduce(book, old.side, old.price, taken), i)
      <4> HIDE DEF taken
      <4> QED BY <1>0, <1>3, <2>1, <3>2, TakeKeepsDepth
    <3> QED BY <3>3, <3>4
  <2>5. CASE m.type = "Delete"
    <3>1. /\ after.orders = [map EXCEPT ![m.id] = NoOrder]
          /\ after.book = BookReduce(book, old.side, old.price, old.qty)
      BY <1>3, <2>5 DEF Apply, ApplyDelete
    <3> QED BY <2>3, <3>1
  <2>6. CASE m.type = "Replace"
    <3> DEFINE erased == [map EXCEPT ![m.id] = NoOrder]
               reduced == BookReduce(book, old.side, old.price, old.qty)
               new == [instrument |-> i, side |-> old.side, price |-> m.price,
                       qty |-> m.qty]
    <3>1. m.newId \in OrderId /\ m.price \in Int /\ m.qty \in WireQuantity
      BY <2>6, MessageKinds DEF ReplaceMsg
    <3>2. new \in Location /\ new.instrument = i
      BY <1>0, <2>1, <3>1 DEF Location
    <3>3. reduced \in Book
      BY <2>1, ReduceKeepsGood DEF GoodBook, Location
    <3>4. erased[m.newId] = NoOrder
      BY <1>0, <2>6, <3>1 DEF FitsMap, OrderMap
    <3>5. /\ after.orders = [erased EXCEPT ![m.newId] = new]
          /\ after.book = BookAdd(reduced, new.side, new.price, new.qty)
      BY <1>3, <2>6 DEF Apply, ApplyReplace
    <3>6. DepthMatches([erased EXCEPT ![m.newId] = new],
                       BookAdd(reduced, new.side, new.price, new.qty), i)
      <4> HIDE DEF erased, reduced, new
      <4>1. erased \in OrderMap /\ DepthMatches(erased, reduced, i)
        BY <2>3 DEF erased, reduced
      <4> QED BY <1>0, <3>1, <3>2, <3>3, <3>4, <4>1, PlaceKeepsDepth
    <3> QED BY <3>5, <3>6
  <2> QED BY <1>3, <2>4, <2>5, <2>6, MessageKinds
<1> QED BY <1>1, <1>2, <1>3

\* The depth of another instrument, whose orders are in the same map.
LEMMA ApplyKeepsOtherDepth ==
  ASSUME NEW map \in OrderMap, NEW book, GoodBook(book), NEW m \in Message, FitsMap(map, m),
         NEW i \in Instrument, i # m.instrument, NEW other, DepthMatches(map, other, i)
  PROVE  DepthMatches(Apply([orders |-> map, book |-> book], m).orders, other, i)
<1> DEFINE view == [orders |-> map, book |-> book]
           after == Apply(view, m).orders
           old == map[m.id]
<1> SUFFICES ASSUME NEW s \in Side, NEW index \in Index
             PROVE  DepthOf(after, other, i, s, index) = DepthOf(map, other, i, s, index)
  BY DEF DepthMatches
<1>0. view.orders = map /\ view.book = book /\ m.id \in OrderId
      /\ m.instrument \in Instrument
  BY MessageKinds
<1>1. \A order : order = NoOrder \/ order.instrument = m.instrument =>
        Share(order, other, i, s, index) = 0
  BY DEF Share
<1>2. ASSUME NEW from \in OrderMap, NEW id \in OrderId, NEW order \in Location \cup {NoOrder},
             from[id] = NoOrder \/ from[id].instrument = m.instrument,
             order = NoOrder \/ order.instrument = m.instrument
      PROVE  DepthOf([from EXCEPT ![id] = order], other, i, s, index)
               = DepthOf(from, other, i, s, index)
  <2>1. DepthOf([from EXCEPT ![id] = order], other, i, s, index)
          = DepthOf(from, other, i, s, index) - Share(from[id], other, i, s, index)
              + Share(order, other, i, s, index)
    BY DepthUpdated
  <2>2. DepthOf(from, other, i, s, index) \in Nat
    BY DepthIsNat
  <2> QED BY <1>1, <1>2, <2>1, <2>2
<1>3. CASE m.type # "Add" /\ old = NoOrder
  <2>1. after = map
    BY <1>0, <1>3, MessageKinds DEF Apply, ApplyTake, ApplyDelete, ApplyReplace
  <2> QED BY <2>1
<1>4. CASE m.type = "Add"
  <2> DEFINE order == [instrument |-> m.instrument, side |-> m.side, price |-> m.price,
                       qty |-> m.qty]
  <2>1. order \in Location
    BY <1>4, MessageKinds DEF AddOrderMsg, Location
  <2>2. after = [map EXCEPT ![m.id] = order] /\ map[m.id] = NoOrder
    BY <1>4 DEF Apply, ApplyAdd, FitsMap
  <2> QED BY <1>0, <1>2, <2>1, <2>2
<1>5. CASE m.type # "Add" /\ old # NoOrder
  <2>1. old.instrument = m.instrument /\ old \in Location
    BY <1>0, <1>5 DEF FitsMap, OrderMap
  <2>2. old.qty \in WireQuantity
    BY <2>1 DEF Location
  <2>3. CASE m.type \in {"Execute", "Cancel"}
    <3> DEFINE taken == SmallerOf(m.qty, old.qty)
               left == IF taken = old.qty THEN NoOrder
                       ELSE [old EXCEPT !.qty = @ - taken]
    <3>1. m.qty \in WireQuantity
      BY <2>3, MessageKinds DEF TakeMsg
    <3>2. taken # old.qty => old.qty - taken \in WireQuantity
      BY <2>2, <3>1 DEF SmallerOf, WireQuantity
    <3>3. left \in Location \cup {NoOrder}
      BY <2>1, <3>2 DEF Location
    <3>4. left = NoOrder \/ left.instrument = m.instrument
      BY <2>1 DEF Location
    <3>5. after = [map EXCEPT ![m.id] = left]
      BY <1>5, <2>3 DEF Apply, ApplyTake
    <3> HIDE DEF left
    <3> QED BY <1>0, <1>2, <2>1, <3>3, <3>4, <3>5
  <2>4. CASE m.type = "Delete"
    <3>1. after = [map EXCEPT ![m.id] = NoOrder]
      BY <1>5, <2>4 DEF Apply, ApplyDelete
    <3> QED BY <1>0, <1>2, <2>1, <3>1
  <2>5. CASE m.type = "Replace"
    <3> DEFINE erased == [map EXCEPT ![m.id] = NoOrder]
               new == [instrument |-> m.instrument, side |-> old.side,
                       price |-> m.price, qty |-> m.qty]
    <3>1. m.newId \in OrderId /\ m.price \in Int /\ m.qty \in WireQuantity
      BY <2>5, MessageKinds DEF ReplaceMsg
    <3>2. new \in Location /\ new.instrument = m.instrument
      BY <1>0, <2>1, <3>1 DEF Location
    <3>3. erased \in OrderMap
      BY <1>0, OrderMapUpdate
    <3>4. erased[m.newId] = NoOrder
      BY <1>0, <2>5, <3>1 DEF FitsMap, OrderMap
    <3>5. after = [erased EXCEPT ![m.newId] = new]
      BY <1>5, <2>5 DEF Apply, ApplyReplace
    <3>6. DepthOf(erased, other, i, s, index) = DepthOf(map, other, i, s, index)
      BY <1>0, <1>2, <2>1
    <3> HIDE DEF erased, new
    <3> QED BY <1>2, <3>1, <3>2, <3>3, <3>4, <3>5, <3>6
  <2> QED BY <1>5, <2>3, <2>4, <2>5, MessageKinds
<1> QED BY <1>3, <1>4, <1>5

\* A book just initialised has its top right and, with no orders, no depth.
LEMMA EmptyBookIsGood ==
  ASSUME NEW price \in Int
  PROVE  GoodBook(BookInit(price)) /\ NoOrders \in OrderMap
BY BookInitType DEF GoodBook, NoOrders, OrderMap

LEMMA EmptyBookDepth ==
  ASSUME NEW price \in Int, NEW i
  PROVE  DepthMatches(NoOrders, BookInit(price), i)
<1> SUFFICES ASSUME NEW side \in Side, NEW index \in Index
             PROVE  LevelOf(BookInit(price), side, index)
                      = DepthOf(NoOrders, BookInit(price), i, side, index)
  BY DEF DepthMatches
<1> DEFINE f == Shares(NoOrders, BookInit(price), i, side, index)
<1>1. LevelOf(BookInit(price), side, index) = 0
  BY DEF LevelOf, BookInit
<1>2. \A id \in OrderId : f[id] = 0
  BY DEF Shares, Share, NoOrders
<1>3. IsFiniteSet(OrderId)
  BY OrderIdAssumption, FS_Interval DEF OrderId
<1> HIDE DEF f
<1>4. SumFunctionOnSet(f, OrderId) = SumFunctionOnSet(f, {})
  BY <1>2, <1>3, SumOfSupport
<1> QED BY <1>1, <1>4, SumOfNone DEF DepthOf, f

\* A level holds something exactly when an order rests there.
LEMMA OccupiedByOrder ==
  ASSUME NEW map \in OrderMap, NEW book, NEW i, NEW side \in Side, NEW index \in Index,
         DepthMatches(map, book, i)
  PROVE  LevelOf(book, side, index) > 0 <=>
           \E id \in OrderId :
             /\ map[id] # NoOrder /\ map[id].instrument = i /\ map[id].side = side
             /\ IndexOf(book, map[id].price) = index
<1> DEFINE f == Shares(map, book, i, side, index)
<1>1. LevelOf(book, side, index) = DepthOf(map, book, i, side, index)
  BY DEF DepthMatches
<1>2. \A id \in OrderId : f[id] = Share(map[id], book, i, side, index)
  BY DEF Shares
<1>3. \A id \in OrderId :
        f[id] > 0 <=> /\ map[id] # NoOrder /\ map[id].instrument = i /\ map[id].side = side
                      /\ IndexOf(book, map[id].price) = index
  <2> HIDE DEF f
  <2> QED BY <1>2 DEF Share, OrderMap, Location, WireQuantity
<1>4. /\ DepthOf(map, book, i, side, index) \in Nat
      /\ \A id \in OrderId : f[id] \in Nat /\ f[id] <= DepthOf(map, book, i, side, index)
  <2> HIDE DEF f
  <2> QED BY <1>2, DepthIsNat
<1>5. ASSUME \A id \in OrderId : f[id] = 0
      PROVE  DepthOf(map, book, i, side, index) = 0
  <2>1. IsFiniteSet(OrderId)
    BY OrderIdAssumption, FS_Interval DEF OrderId
  <2>2. SumFunctionOnSet(f, OrderId) = SumFunctionOnSet(f, {})
    <3> HIDE DEF f
    <3> QED BY <1>5, <2>1, SumOfSupport
  <2> QED BY <2>2, SumOfNone DEF DepthOf
<1> HIDE DEF f
<1>6. LevelOf(book, side, index) > 0 <=> \E id \in OrderId : f[id] > 0
  BY <1>1, <1>4, <1>5
<1> QED BY <1>3, <1>6

\* apply() never moves the band of a book.
LEMMA ApplyKeepsBase ==
  ASSUME NEW view, GoodView(view), NEW m \in Message
  PROVE  Apply(view, m).book.base = view.book.base
<1> DEFINE order == view.orders[m.id]
<1>1. view.book \in Book
  BY DEF GoodView, GoodBook
<1>2. \A side, price, qty :
        /\ BookAdd(view.book, side, price, qty) \in Book =>
             BookAdd(view.book, side, price, qty).base = view.book.base
        /\ BookReduce(view.book, side, price, qty).base = view.book.base
  BY <1>1 DEF BookAdd, BookReduce, DropUpdate, Book
<1>3. \A book \in Book : \A side, price, qty : BookAdd(book, side, price, qty).base = book.base
  BY DEF BookAdd, DropUpdate, Book
<1>4. CASE m.type = "Add"
  BY <1>1, <1>3, <1>4 DEF Apply, ApplyAdd
<1>5. CASE m.type \in {"Execute", "Cancel"}
  BY <1>2, <1>5 DEF Apply, ApplyTake
<1>6. CASE m.type = "Delete"
  BY <1>2, <1>6 DEF Apply, ApplyDelete
<1>7. CASE m.type = "Replace"
  <2>1. CASE order = NoOrder
    BY <1>7, <2>1 DEF Apply, ApplyReplace
  <2>2. CASE order # NoOrder
    <3> DEFINE reduced == BookReduce(view.book, order.side, order.price, order.qty)
    <3>1. order \in Location /\ order.qty \in Quantity
      BY <2>2, MessageKinds DEF GoodView, OrderMap, Location, WireQuantity, Quantity
    <3>2. reduced \in Book /\ reduced.base = view.book.base
      BY <1>2, <3>1, BookReduceKeeps DEF GoodView, GoodBook, Location
    <3>3. Apply(view, m).book = BookAdd(reduced, order.side, m.price, m.qty)
      BY <1>7, <2>2 DEF Apply, ApplyReplace
    <3> HIDE DEF reduced
    <3> QED BY <1>3, <3>2, <3>3
  <2> QED BY <2>1, <2>2
<1> QED BY <1>4, <1>5, <1>6, <1>7, MessageKinds

\* A price whose distance from the base an int can hold is the price of its
\* level: index_of() narrows nothing away.
LEMMA IndexIsDistance ==
  ASSUME NEW book \in Book, NEW price \in Int,
         price - book.base >= -(IntRange \div 2), price - book.base < IntRange \div 2
  PROVE  IndexOf(book, price) = price - book.base
<1> DEFINE d == price - book.base
<1>1. /\ d \in Int /\ IntRange \in Nat /\ IntRange > 0
      /\ IntRange \div 2 \in Nat /\ 2 * (IntRange \div 2) <= IntRange
  BY IntAssumption, LevelsAssumption DEF Book
<1>2. IndexOf(book, price)
        = IF d % IntRange < IntRange \div 2 THEN d % IntRange ELSE (d % IntRange) - IntRange
  BY DEF IndexOf
<1>3. /\ d >= -(IntRange \div 2) /\ d < IntRange \div 2
  OBVIOUS
<1> HIDE DEF d
<1>4. CASE d >= 0
  <2>1. d % IntRange = d
    BY <1>1, <1>3, <1>4
  <2> QED BY <1>1, <1>2, <1>3, <2>1 DEF d
<1>5. CASE d < 0
  <2>1. d % IntRange = d + IntRange
    BY <1>1, <1>3, <1>5
  <2> QED BY <1>1, <1>2, <1>3, <1>5, <2>1 DEF d
<1> QED BY <1>1, <1>4, <1>5

-----------------------------------------------------------------------------
(***************************************************************************)
(* Whose orders a message touches: those of its own instrument, so that an *)
(* order map shared by several instruments is one map for each.            *)
(***************************************************************************)
\* The id under which a message adds an order, 0 if it adds none.
NewId(m) == IF m.type = "Add" THEN m.id ELSE IF m.type = "Replace" THEN m.newId ELSE 0

\* The orders of some instruments.
Only(map, I) ==
  [id \in OrderId |->
    IF map[id] # NoOrder /\ map[id].instrument \in I THEN map[id] ELSE NoOrder]

\* The ids of a message are those of orders of its instrument, or of none.
NamesOwn(map, m) ==
  /\ map[m.id] # NoOrder => map[m.id].instrument = m.instrument
  /\ m.type = "Replace" =>
       (map[m.newId] # NoOrder => map[m.newId].instrument = m.instrument)

LEMMA OnlyIsMap ==
  ASSUME NEW map \in OrderMap, NEW I
  PROVE  Only(map, I) \in OrderMap
BY DEF Only, OrderMap

\* Writing an order of the instruments, or of the others.
LEMMA OnlyUpdated ==
  ASSUME NEW map \in OrderMap, NEW I, NEW id \in OrderId, NEW order,
         order # NoOrder => order.instrument \in I
  PROVE  Only([map EXCEPT ![id] = order], I) = [Only(map, I) EXCEPT ![id] = order]
BY DEF Only, OrderMap

LEMMA OnlyUntouched ==
  ASSUME NEW map \in OrderMap, NEW I, NEW id \in OrderId, NEW order,
         map[id] # NoOrder => map[id].instrument \notin I,
         order # NoOrder => order.instrument \notin I
  PROVE  Only([map EXCEPT ![id] = order], I) = Only(map, I)
BY DEF Only, OrderMap

\* What is left of an order that was executed or cancelled is the same order.
LEMMA LeftOver ==
  ASSUME NEW order \in Location, NEW taken
  PROVE  LET left == IF taken = order.qty THEN NoOrder ELSE [order EXCEPT !.qty = @ - taken]
         IN  left # NoOrder => left.instrument = order.instrument
BY DEF Location

\* For the instruments the message is one of, apply() does to their part of the
\* map what it does to the whole.
LEMMA ApplyOnlyOwn ==
  ASSUME NEW map \in OrderMap, NEW book, NEW m \in Message, NamesOwn(map, m), NEW I,
         m.instrument \in I
  PROVE  LET after == Apply([orders |-> map, book |-> book], m)
         IN  Apply([orders |-> Only(map, I), book |-> book], m)
               = [orders |-> Only(after.orders, I), book |-> after.book]
<1> DEFINE after == Apply([orders |-> map, book |-> book], m)
           part == Only(map, I)
           old == map[m.id]
<1>0. m.id \in OrderId /\ m.instrument \in Instrument
  BY MessageKinds
<1>1. part[m.id] = old /\ old \in Location \cup {NoOrder}
  BY <1>0 DEF Only, NamesOwn, OrderMap
<1>2. old # NoOrder => old.instrument \in I
  BY DEF NamesOwn
<1>n. NoOrder # NoOrder => NoOrder.instrument \in I
  OBVIOUS
<1>3. CASE m.type = "Add"
  <2> DEFINE new == [instrument |-> m.instrument, side |-> m.side,
                     price |-> m.price, qty |-> m.qty]
  <2>1. /\ after = [orders |-> [map EXCEPT ![m.id] = new],
                    book |-> BookAdd(book, m.side, m.price, m.qty)]
        /\ Apply([orders |-> part, book |-> book], m)
             = [orders |-> [part EXCEPT ![m.id] = new],
                book |-> BookAdd(book, m.side, m.price, m.qty)]
    BY <1>3 DEF Apply, ApplyAdd
  <2>2. new.instrument \in I
    OBVIOUS
  <2> HIDE DEF new
  <2>3. Only([map EXCEPT ![m.id] = new], I) = [part EXCEPT ![m.id] = new]
    BY <1>0, <2>2, OnlyUpdated
  <2> HIDE DEF after, part
  <2> QED BY <2>1, <2>3 DEF part, after
<1>4. CASE m.type # "Add" /\ old = NoOrder
  <2>1. after = [orders |-> map, book |-> book]
    BY <1>4, MessageKinds DEF Apply, ApplyTake, ApplyDelete, ApplyReplace
  <2>2. Apply([orders |-> part, book |-> book], m) = [orders |-> part, book |-> book]
    <3> HIDE DEF part
    <3> QED BY <1>1, <1>4, MessageKinds DEF Apply, ApplyTake, ApplyDelete, ApplyReplace
  <2> QED BY <2>1, <2>2
<1>5. CASE m.type \in {"Execute", "Cancel"} /\ old # NoOrder
  <2> DEFINE taken == SmallerOf(m.qty, old.qty)
             left == IF taken = old.qty THEN NoOrder ELSE [old EXCEPT !.qty = @ - taken]
  <2>1. after = [orders |-> [map EXCEPT ![m.id] = left],
                 book |-> BookReduce(book, old.side, old.price, taken)]
    BY <1>5 DEF Apply, ApplyTake
  <2>2. Apply([orders |-> part, book |-> book], m)
          = [orders |-> [part EXCEPT ![m.id] = left],
             book |-> BookReduce(book, old.side, old.price, taken)]
    <3> HIDE DEF part
    <3> QED BY <1>1, <1>5 DEF Apply, ApplyTake
  <2>3. left # NoOrder => left.instrument \in I
    BY <1>1, <1>2, <1>5, LeftOver
  <2> HIDE DEF left, taken
  <2>4. Only([map EXCEPT ![m.id] = left], I) = [part EXCEPT ![m.id] = left]
    BY <1>0, <2>3, OnlyUpdated
  <2> HIDE DEF after, part
  <2> QED BY <2>1, <2>2, <2>4 DEF part, after
<1>6. CASE m.type = "Delete" /\ old # NoOrder
  <2>1. after = [orders |-> [map EXCEPT ![m.id] = NoOrder],
                 book |-> BookReduce(book, old.side, old.price, old.qty)]
    BY <1>6 DEF Apply, ApplyDelete
  <2>2. Apply([orders |-> part, book |-> book], m)
          = [orders |-> [part EXCEPT ![m.id] = NoOrder],
             book |-> BookReduce(book, old.side, old.price, old.qty)]
    <3> HIDE DEF part
    <3> QED BY <1>1, <1>6 DEF Apply, ApplyDelete
  <2>3. Only([map EXCEPT ![m.id] = NoOrder], I) = [part EXCEPT ![m.id] = NoOrder]
    BY <1>0, OnlyUpdated
  <2> HIDE DEF after, part
  <2> QED BY <2>1, <2>2, <2>3 DEF part, after
<1>7. CASE m.type = "Replace" /\ old # NoOrder
  <2> DEFINE new == [instrument |-> m.instrument, side |-> old.side,
                     price |-> m.price, qty |-> m.qty]
             erased == [map EXCEPT ![m.id] = NoOrder]
             added == BookAdd(BookReduce(book, old.side, old.price, old.qty),
                              old.side, m.price, m.qty)
  <2>1. after = [orders |-> [erased EXCEPT ![m.newId] = new], book |-> added]
    BY <1>7 DEF Apply, ApplyReplace
  <2>2. Apply([orders |-> part, book |-> book], m)
          = [orders |-> [[part EXCEPT ![m.id] = NoOrder] EXCEPT ![m.newId] = new],
             book |-> added]
    <3> HIDE DEF part
    <3> QED BY <1>1, <1>7 DEF Apply, ApplyReplace
  <2>3. new.instrument \in I
    OBVIOUS
  <2>4. erased \in OrderMap
    BY <1>0, OrderMapUpdate
  <2>5. Only(erased, I) = [part EXCEPT ![m.id] = NoOrder]
    BY <1>0, OnlyUpdated
  <2>6. m.newId \in OrderId
    BY <1>7, MessageKinds DEF ReplaceMsg
  <2> HIDE DEF new, erased, added
  <2>7. Only([erased EXCEPT ![m.newId] = new], I) = [Only(erased, I) EXCEPT ![m.newId] = new]
    BY <2>3, <2>4, <2>6, OnlyUpdated
  <2> HIDE DEF after, part
  <2>8. Only(after.orders, I) = [[part EXCEPT ![m.id] = NoOrder] EXCEPT ![m.newId] = new]
        /\ after.book = added
    BY <2>1, <2>5, <2>7
  <2> QED BY <2>2, <2>8 DEF part, after
<1> QED BY <1>3, <1>4, <1>5, <1>6, <1>7, MessageKinds

\* For the others it does nothing.
LEMMA ApplyOnlyOthers ==
  ASSUME NEW map \in OrderMap, NEW book, NEW m \in Message, NamesOwn(map, m), NEW I,
         m.instrument \notin I
  PROVE  Only(Apply([orders |-> map, book |-> book], m).orders, I) = Only(map, I)
<1> DEFINE after == Apply([orders |-> map, book |-> book], m)
           old == map[m.id]
<1>0. m.id \in OrderId /\ old \in Location \cup {NoOrder}
  BY MessageKinds DEF OrderMap
<1>1. old # NoOrder => old.instrument \notin I
  BY DEF NamesOwn
<1>2. CASE m.type = "Add"
  <2> DEFINE new == [instrument |-> m.instrument, side |-> m.side,
                     price |-> m.price, qty |-> m.qty]
  <2>1. after.orders = [map EXCEPT ![m.id] = new]
    BY <1>2 DEF Apply, ApplyAdd
  <2>2. new.instrument \notin I
    OBVIOUS
  <2> HIDE DEF new
  <2> QED BY <1>0, <1>1, <2>1, <2>2, OnlyUntouched
<1>3. CASE m.type # "Add" /\ old = NoOrder
  BY <1>3, MessageKinds DEF Apply, ApplyTake, ApplyDelete, ApplyReplace
<1>4. CASE m.type \in {"Execute", "Cancel"} /\ old # NoOrder
  <2> DEFINE taken == SmallerOf(m.qty, old.qty)
             left == IF taken = old.qty THEN NoOrder ELSE [old EXCEPT !.qty = @ - taken]
  <2>1. after.orders = [map EXCEPT ![m.id] = left]
    BY <1>4 DEF Apply, ApplyTake
  <2>2. left # NoOrder => left.instrument \notin I
    BY <1>0, <1>1, <1>4, LeftOver
  <2> HIDE DEF left, taken
  <2> QED BY <1>0, <1>1, <2>1, <2>2, OnlyUntouched
<1>5. CASE m.type = "Delete" /\ old # NoOrder
  <2>1. after.orders = [map EXCEPT ![m.id] = NoOrder]
    BY <1>5 DEF Apply, ApplyDelete
  <2> QED BY <1>0, <1>1, <2>1, OnlyUntouched
<1>6. CASE m.type = "Replace" /\ old # NoOrder
  <2> DEFINE new == [instrument |-> m.instrument, side |-> old.side,
                     price |-> m.price, qty |-> m.qty]
             erased == [map EXCEPT ![m.id] = NoOrder]
  <2>1. after.orders = [erased EXCEPT ![m.newId] = new]
    BY <1>6 DEF Apply, ApplyReplace
  <2>2. new.instrument \notin I
    OBVIOUS
  <2>3. erased \in OrderMap /\ m.newId \in OrderId
    BY <1>0, <1>6, OrderMapUpdate, MessageKinds DEF ReplaceMsg
  <2>4. erased[m.newId] # NoOrder => erased[m.newId].instrument \notin I
    BY <1>6, <2>3 DEF NamesOwn, OrderMap
  <2>5. Only(erased, I) = Only(map, I)
    BY <1>0, <1>1, OnlyUntouched
  <2> HIDE DEF new, erased
  <2> QED BY <2>1, <2>2, <2>3, <2>4, <2>5, OnlyUntouched
<1> QED BY <1>2, <1>3, <1>4, <1>5, <1>6, MessageKinds

\* An order is in the map afterwards because it was, or because it is new.
LEMMA ApplyWrites ==
  ASSUME NEW map \in OrderMap, NEW book, NEW m \in Message, NEW id \in OrderId
  PROVE  LET after == Apply([orders |-> map, book |-> book], m)
         IN  after.orders[id] # NoOrder =>
               \/ map[id] # NoOrder /\ after.orders[id].instrument = map[id].instrument
               \/ id = NewId(m) /\ after.orders[id].instrument = m.instrument
<1> DEFINE after == Apply([orders |-> map, book |-> book], m)
           old == map[m.id]
<1>0. m.id \in OrderId /\ old \in Location \cup {NoOrder} /\ DOMAIN map = OrderId
  BY MessageKinds DEF OrderMap
<1>1. CASE m.type = "Add"
  BY <1>0, <1>1 DEF Apply, ApplyAdd, NewId
<1>2. CASE m.type # "Add" /\ old = NoOrder
  BY <1>2, MessageKinds DEF Apply, ApplyTake, ApplyDelete, ApplyReplace
<1>3. CASE m.type \in {"Execute", "Cancel"} /\ old # NoOrder
  <2> DEFINE taken == SmallerOf(m.qty, old.qty)
             left == IF taken = old.qty THEN NoOrder ELSE [old EXCEPT !.qty = @ - taken]
  <2>1. after.orders = [map EXCEPT ![m.id] = left]
    BY <1>3 DEF Apply, ApplyTake
  <2>2. left # NoOrder => left.instrument = old.instrument
    BY <1>0, <1>3, LeftOver
  <2> HIDE DEF left, taken
  <2> QED BY <1>0, <1>3, <2>1, <2>2
<1>4. CASE m.type = "Delete" /\ old # NoOrder
  BY <1>0, <1>4 DEF Apply, ApplyDelete
<1>5. CASE m.type = "Replace" /\ old # NoOrder
  <2> DEFINE new == [instrument |-> m.instrument, side |-> old.side,
                     price |-> m.price, qty |-> m.qty]
  <2>1. after.orders = [[map EXCEPT ![m.id] = NoOrder] EXCEPT ![m.newId] = new]
    BY <1>5 DEF Apply, ApplyReplace
  <2>2. new.instrument = m.instrument /\ NewId(m) = m.newId
    BY <1>5 DEF NewId
  <2> HIDE DEF new
  <2> QED BY <1>0, <2>1, <2>2
<1> QED BY <1>1, <1>2, <1>3, <1>4, <1>5, MessageKinds
=============================================================================
