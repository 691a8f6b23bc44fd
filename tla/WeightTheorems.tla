--------------------------- MODULE WeightTheorems ---------------------------
(***************************************************************************)
(* Sums over finite sets, SumFunctionOnSet of the library, and the median   *)
(* of prices that is weighted by such sums.  What sums obey is proved by    *)
(* looking at a smallest set for which it would fail: finite sets are well  *)
(* founded under inclusion.  What the loops of the median compute is proved *)
(* by induction over their rounds.  The rewards of a block, shares of a     *)
(* sum that truncate, come last.                                           *)
(***************************************************************************)
EXTENDS BlockInputs, FiniteSetTheorems, WellFoundedInduction, TLAPS

\* Every non-empty set of subsets of a finite set has a minimal one.
LEMMA MinimalSubset ==
  ASSUME NEW S, IsFiniteSet(S), NEW T \in SUBSET (SUBSET S), T # {}
  PROVE  \E m \in T : \A U \in T : U \subseteq m => U = m
<1>1. IsWellFoundedOn(StrictSubsetOrdering(S), FiniteSubsetsOf(S))
  BY FS_StrictSubsetOrderingWellFounded, Zenon
<1>2. FiniteSubsetsOf(S) = SUBSET S
  BY FS_FiniteSubsetsOfFinite, Zenon
<1>3. PICK m \in T : \A U \in T : ~(<<U, m>> \in StrictSubsetOrdering(S))
  BY <1>1, <1>2, WFMin, ZenonT(60)
<1>4. ASSUME NEW U \in T, U \subseteq m
      PROVE  U = m
  <2>1. ~(<<U, m>> \in StrictSubsetOrdering(S))
    BY <1>3, Zenon
  <2>2. U \in SUBSET S /\ m \in SUBSET S
    BY <1>3, Zenon
  <2>3. U # m => <<U, m>> \in StrictSubsetOrdering(S)
    BY <1>4, <2>2, ZenonT(60) DEF StrictSubsetOrdering
  <2>4. QED
    BY <2>1, <2>3, Zenon
<1>5. QED
  BY <1>4, Zenon

-----------------------------------------------------------------------------
(* The sum is well defined *)

Chosen(s) == CHOOSE x \in s : TRUE

\* g holds the sums of f over the subsets of S.
IsTable(f, S, g) ==
  g = [s \in SUBSET S |-> IF s = {} THEN 0 ELSE f[Chosen(s)] + g[s \ {Chosen(s)}]]

\* The fold is the entry for S of a table of partial sums.
LEMMA SumIsInTable ==
  ASSUME NEW f, NEW S
  PROVE  SumFunctionOnSet(f, S) = (CHOOSE g : IsTable(f, S, g))[S]
  BY Zenon DEF SumFunctionOnSet, FoldFunctionOnSet, MapThenFoldSet, IsTable, Chosen

\* CHOOSE finds an element of a set that has one.
LEMMA ChosenIn == ASSUME NEW s, s # {} PROVE Chosen(s) \in s
  BY Zenon DEF Chosen

\* Induction over the subsets of a finite set; G are the subsets for which the claim holds.
LEMMA SubsetInduction ==
  ASSUME NEW S, NEW G, IsFiniteSet(S), {} \in G,
         \A U \in SUBSET S : U # {} /\ U \ {Chosen(U)} \in G => U \in G
  PROVE  S \in G
<1> DEFINE T == {U \in SUBSET S : U \notin G}
<1>1. SUFFICES ASSUME T # {} PROVE FALSE
  BY Zenon
<1>2. PICK m \in T : \A U \in T : U \subseteq m => U = m
  <2>1. T \in SUBSET (SUBSET S)
    BY Zenon
  <2>2. QED
    <3> HIDE DEF T
    <3>1. QED
      BY <1>1, <2>1, MinimalSubset
<1>3. m \in SUBSET S /\ m \notin G /\ m # {}
  BY <1>2, Zenon
<1>4. PICK c \in m : c = Chosen(m)
  BY <1>3, ChosenIn, Zenon
<1>5. m \ {c} \in SUBSET S /\ m \ {c} # m /\ m \ {c} \subseteq m
  BY <1>3, <1>4, Zenon
<1>6. m \ {c} \notin T
  BY <1>2, <1>5, Zenon
<1>7. m \ {c} \in G
  BY <1>5, <1>6, Zenon
<1>8. QED
  BY <1>3, <1>4, <1>7, Zenon

\* One entry of the table comes from that of the set without its chosen element.
LEMMA TableStep ==
  ASSUME NEW f, NEW S, NEW g, IsTable(f, S, g), NEW s \in SUBSET S
  PROVE  g[s] = IF s = {} THEN 0 ELSE f[Chosen(s)] + g[s \ {Chosen(s)}]
  BY Zenon DEF IsTable

\* Two tables agree where both are defined.
LEMMA TablesAgree ==
  ASSUME NEW f, NEW S, NEW R, NEW g, NEW h, IsFiniteSet(S), R \subseteq S,
         IsTable(f, S, g), IsTable(f, R, h)
  PROVE  \A U \in SUBSET R : g[U] = h[U]
<1> DEFINE T == {U \in SUBSET S : U \subseteq R /\ g[U] # h[U]}
<1>1. SUFFICES ASSUME T # {} PROVE FALSE
  BY Zenon
<1>2. PICK m \in T : \A U \in T : U \subseteq m => U = m
  <2>1. T \in SUBSET (SUBSET S)
    BY Zenon
  <2>2. QED
    <3> HIDE DEF T
    <3>1. QED
      BY <1>1, <2>1, MinimalSubset
<1>3. CASE m = {}
  BY <1>2, <1>3, TableStep, Zenon
<1>4. CASE m # {}
  <2>1. Chosen(m) \in m
    BY <1>4, ChosenIn, Zenon
  <2>2. PICK c : c = Chosen(m)
    BY Zenon
  <2>3. m \ {c} \notin T
    BY <1>2, <2>1, <2>2, Zenon
  <2>4. g[m \ {c}] = h[m \ {c}]
    <3>1. m \ {c} \in SUBSET S /\ m \ {c} \subseteq R
      BY <1>2, Zenon
    <3>2. QED
      BY <2>3, <3>1, Zenon
  <2>5. g[m] = f[c] + g[m \ {c}] /\ h[m] = f[c] + h[m \ {c}]
    BY <1>2, <1>4, <2>2, TableStep
  <2>6. QED
    BY <1>2, <2>4, <2>5, Zenon
<1>5. QED
  BY <1>3, <1>4, Zenon

\* The sum over a subset is the entry of any table.
LEMMA TableHasSum ==
  ASSUME NEW f, NEW S, NEW g, IsFiniteSet(S), IsTable(f, S, g), NEW U \in SUBSET S,
         \E h : IsTable(f, U, h)
  PROVE  SumFunctionOnSet(f, U) = g[U]
<1>1. PICK h : h = CHOOSE t : IsTable(f, U, t)
  BY Zenon
<1>2. IsTable(f, U, h) /\ SumFunctionOnSet(f, U) = h[U]
  BY <1>1, SumIsInTable, Zenon
<1>3. U \subseteq S /\ U \in SUBSET U
  BY Zenon
<1>4. \A V \in SUBSET U : g[V] = h[V]
  BY <1>2, <1>3, TablesAgree
<1>5. QED
  BY <1>2, <1>3, <1>4, Zenon

\* Every finite set has a table: a smallest subset without one would have a smaller one.
LEMMA TableExists ==
  ASSUME NEW f, NEW S, IsFiniteSet(S)
  PROVE  \E g : IsTable(f, S, g)
<1> DEFINE T == {U \in SUBSET S : ~\E g : IsTable(f, U, g)}
<1>1. SUFFICES ASSUME T # {} PROVE FALSE
  BY Zenon
<1>2. PICK m \in T : \A U \in T : U \subseteq m => U = m
  <2>1. T \in SUBSET (SUBSET S)
    BY Zenon
  <2>2. QED
    <3> HIDE DEF T
    <3>1. QED
      BY <1>1, <2>1, MinimalSubset
<1> DEFINE Sum(U) == SumFunctionOnSet(f, U)
           g == [s \in SUBSET m |-> IF s = {} THEN 0 ELSE f[Chosen(s)] + Sum(s \ {Chosen(s)})]
<1>3. \A U \in SUBSET m : U # m => \E h : IsTable(f, U, h)
  BY <1>2, Zenon
<1>4. ASSUME NEW U \in SUBSET m, U # m
      PROVE  g[U] = Sum(U)
  <2>1. PICK h : IsTable(f, U, h)
    BY <1>3, <1>4, Zenon
  <2>2. IsFiniteSet(U)
    BY <1>2, FS_Subset, Zenon
  <2>3. Sum(U) = h[U]
    BY <2>1, <2>2, TableHasSum
  <2>4. CASE U = {}
    BY <2>1, <2>3, <2>4, TableStep, Zenon
  <2>5. CASE U # {}
    <3>1. PICK c : c = Chosen(U)
      BY Zenon
    <3>2. c \in U
      BY <2>5, <3>1, ChosenIn, Zenon
    <3>3. U \ {c} \in SUBSET m /\ U \ {c} # m /\ U \ {c} \in SUBSET U
      BY <1>4, <3>2, Zenon
    <3>4. Sum(U \ {c}) = h[U \ {c}]
      BY <1>3, <2>1, <2>2, <3>3, TableHasSum
    <3>5. h[U] = f[c] + h[U \ {c}]
      BY <2>1, <2>5, <3>1, TableStep
    <3>6. g[U] = f[c] + Sum(U \ {c})
      BY <2>5, <3>1, Zenon
    <3>7. QED
      BY <2>3, <3>4, <3>5, <3>6, Zenon
  <2>6. QED
    BY <2>4, <2>5, Zenon
<1>5. ASSUME NEW s \in SUBSET m
      PROVE  g[s] = IF s = {} THEN 0 ELSE f[Chosen(s)] + g[s \ {Chosen(s)}]
  <2>1. CASE s = {}
    BY <2>1, Zenon
  <2>2. CASE s # {}
    <3>1. PICK c : c = Chosen(s)
      BY Zenon
    <3>2. s \ {c} \in SUBSET m /\ s \ {c} # m
      BY <2>2, <3>1, ChosenIn, Zenon
    <3>3. g[s \ {c}] = Sum(s \ {c})
      BY <1>4, <3>2, Zenon
    <3>4. g[s] = f[c] + Sum(s \ {c})
      BY <2>2, <3>1, Zenon
    <3>5. QED
      BY <2>2, <3>1, <3>3, <3>4, Zenon
  <2>3. QED
    BY <2>1, <2>2, Zenon
<1>6. g = [s \in SUBSET m |-> g[s]]
  BY Zenon
<1>7. IsTable(f, m, g)
  <2> HIDE DEF g
  <2>1. g = [s \in SUBSET m |-> IF s = {} THEN 0 ELSE f[Chosen(s)] + g[s \ {Chosen(s)}]]
    BY <1>5, <1>6, ZenonT(60)
  <2>2. QED
    BY <2>1, Zenon DEF IsTable
<1>8. QED
  BY <1>2, <1>7, Zenon

-----------------------------------------------------------------------------
(* What sums obey *)

\* The sum over no element.
LEMMA SumEmpty == ASSUME NEW f PROVE SumFunctionOnSet(f, {}) = 0
<1>1. IsFiniteSet({})
  BY FS_EmptySet, ZenonT(60)
<1>2. PICK g : IsTable(f, {}, g)
  BY <1>1, TableExists, Zenon
<1>3. SumFunctionOnSet(f, {}) = g[{}] /\ g[{}] = 0
  BY <1>1, <1>2, TableHasSum, TableStep
<1>4. QED
  BY <1>3, Zenon

\* The sum over a set is its chosen element and the sum over the rest.
LEMMA SumStep ==
  ASSUME NEW f, NEW S, IsFiniteSet(S), S # {}
  PROVE  SumFunctionOnSet(f, S) = f[Chosen(S)] + SumFunctionOnSet(f, S \ {Chosen(S)})
<1>1. PICK c : c = Chosen(S)
  BY Zenon
<1>2. PICK R : R = S \ {c}
  BY Zenon
<1>3. IsFiniteSet(R) /\ R \in SUBSET S /\ S \in SUBSET S
  BY <1>2, FS_Subset, Zenon
<1>4. PICK g : IsTable(f, S, g)
  BY TableExists, Zenon
<1>5. \E h : IsTable(f, R, h)
  BY <1>3, TableExists, Zenon
<1>6. SumFunctionOnSet(f, S) = g[S] /\ SumFunctionOnSet(f, R) = g[R]
  BY <1>3, <1>4, <1>5, TableHasSum
<1>7. g[S] = f[c] + g[R]
  BY <1>1, <1>2, <1>3, <1>4, TableStep
<1>8. QED
  BY <1>1, <1>2, <1>6, <1>7, Zenon

\* Sums of integers are integers.
LEMMA SumInt ==
  ASSUME NEW f, NEW S, IsFiniteSet(S), \A x \in S : f[x] \in Int
  PROVE  SumFunctionOnSet(f, S) \in Int
<1> DEFINE G == {U \in SUBSET S : SumFunctionOnSet(f, U) \in Int}
<1>1. {} \in G
  BY SumEmpty
<1>2. ASSUME NEW U \in SUBSET S, U # {}, U \ {Chosen(U)} \in G
      PROVE  U \in G
  <2>1. PICK c \in U : c = Chosen(U)
    BY <1>2, ChosenIn, Zenon
  <2>2. IsFiniteSet(U)
    BY FS_Subset, Zenon
  <2>3. SumFunctionOnSet(f, U) = f[c] + SumFunctionOnSet(f, U \ {c})
    BY <1>2, <2>1, <2>2, SumStep, Zenon
  <2>4. SumFunctionOnSet(f, U \ {c}) \in Int /\ f[c] \in Int
    BY <1>2, <2>1, Zenon
  <2>5. SumFunctionOnSet(f, U) \in Int
    BY <2>3, <2>4
  <2>6. QED
    BY <2>5, Zenon
<1>3. S \in G
  <2> HIDE DEF G
  <2>1. QED
    BY <1>1, <1>2, SubsetInduction, ZenonT(60)
<1>4. QED
  BY <1>3, Zenon

\* Any element may be taken out first.
LEMMA SumRemove ==
  ASSUME NEW f, NEW S, IsFiniteSet(S), \A x \in S : f[x] \in Int, NEW x \in S
  PROVE  SumFunctionOnSet(f, S) = f[x] + SumFunctionOnSet(f, S \ {x})
<1> DEFINE Sum(U) == SumFunctionOnSet(f, U)
           T == {U \in SUBSET S : \E y \in U : Sum(U) # f[y] + Sum(U \ {y})}
<1>1. SUFFICES ASSUME T # {} PROVE FALSE
  BY Zenon
<1>2. PICK m \in T : \A U \in T : U \subseteq m => U = m
  <2>1. T \in SUBSET (SUBSET S)
    BY Zenon
  <2>2. QED
    <3> HIDE DEF T
    <3>1. QED
      BY <1>1, <2>1, MinimalSubset
<1>3. m \in SUBSET S /\ IsFiniteSet(m)
  BY <1>2, FS_Subset, Zenon
<1>4. PICK y \in m : Sum(m) # f[y] + Sum(m \ {y})
  BY <1>2, Zenon
<1>5. PICK c \in m : c = Chosen(m)
  BY <1>4, ChosenIn, Zenon
<1>6. m # {} /\ c # y /\ Sum(m) = f[c] + Sum(m \ {c})
  BY <1>3, <1>4, <1>5, SumStep, Zenon
<1>7. ASSUME NEW z \in m, NEW w \in m, z # w
      PROVE  Sum(m \ {z}) = f[w] + Sum((m \ {z}) \ {w})
  <2>1. m \ {z} \in SUBSET S /\ m \ {z} # m /\ m \ {z} \subseteq m /\ w \in m \ {z}
    BY <1>3, <1>7, Zenon
  <2>2. m \ {z} \notin T
    BY <1>2, <2>1, Zenon
  <2>3. QED
    BY <2>1, <2>2, Zenon
<1>8. PICK rest : rest = (m \ {c}) \ {y} /\ rest = (m \ {y}) \ {c}
  <2>1. (m \ {c}) \ {y} = (m \ {y}) \ {c}
    BY ZenonT(60)
  <2>2. QED
    BY <2>1, Zenon
<1>9. Sum(m \ {c}) = f[y] + Sum(rest) /\ Sum(m \ {y}) = f[c] + Sum(rest)
  BY <1>6, <1>7, <1>8, ZenonT(60)
<1>10. f[c] \in Int /\ f[y] \in Int /\ Sum(rest) \in Int
  <2>1. rest \subseteq S
    BY <1>3, <1>8, ZenonT(60)
  <2>2. IsFiniteSet(rest) /\ \A z \in rest : f[z] \in Int
    BY <2>1, FS_Subset, Zenon
  <2>3. Sum(rest) \in Int
    BY <2>2, SumInt, Zenon
  <2>4. QED
    BY <1>3, <2>3, Zenon
<1>11. QED
  BY <1>4, <1>6, <1>9, <1>10

\* Adding an element, whichever it is, adds its value.
LEMMA SumAdd ==
  ASSUME NEW f, NEW S, NEW x, IsFiniteSet(S), x \notin S, f[x] \in Int, \A y \in S : f[y] \in Int
  PROVE  SumFunctionOnSet(f, S \cup {x}) = f[x] + SumFunctionOnSet(f, S)
<1>1. PICK R : R = S \cup {x}
  BY Zenon
<1>2. IsFiniteSet(R) /\ x \in R /\ \A y \in R : f[y] \in Int
  BY <1>1, FS_AddElement, Zenon
<1>3. R \ {x} = S
  BY <1>1, ZenonT(60)
<1>4. SumFunctionOnSet(f, R) = f[x] + SumFunctionOnSet(f, R \ {x})
  BY <1>2, SumRemove, ZenonT(60)
<1>5. QED
  BY <1>1, <1>3, <1>4, Zenon

\* Functions that agree on a set have the same sum over it.
LEMMA SumSame ==
  ASSUME NEW f, NEW g, NEW S, IsFiniteSet(S), \A x \in S : f[x] = g[x]
  PROVE  SumFunctionOnSet(f, S) = SumFunctionOnSet(g, S)
<1> DEFINE G == {U \in SUBSET S : SumFunctionOnSet(f, U) = SumFunctionOnSet(g, U)}
<1>1. {} \in G
  BY SumEmpty, ZenonT(60)
<1>2. ASSUME NEW U \in SUBSET S, U # {}, U \ {Chosen(U)} \in G
      PROVE  U \in G
  <2>1. PICK c \in U : c = Chosen(U)
    BY <1>2, ChosenIn, Zenon
  <2>2. IsFiniteSet(U)
    BY FS_Subset, Zenon
  <2>3. /\ SumFunctionOnSet(f, U) = f[c] + SumFunctionOnSet(f, U \ {c})
        /\ SumFunctionOnSet(g, U) = g[c] + SumFunctionOnSet(g, U \ {c})
    BY <1>2, <2>1, <2>2, SumStep, Zenon
  <2>4. SumFunctionOnSet(f, U \ {c}) = SumFunctionOnSet(g, U \ {c}) /\ f[c] = g[c]
    BY <1>2, <2>1, Zenon
  <2>5. QED
    BY <2>3, <2>4, Zenon
<1>3. S \in G
  <2> HIDE DEF G
  <2>1. QED
    BY <1>1, <1>2, SubsetInduction, ZenonT(60)
<1>4. QED
  BY <1>3, Zenon

\* A change of one value changes the sum by the difference.
LEMMA SumUpdate ==
  ASSUME NEW f, NEW g, NEW S, NEW x \in S, IsFiniteSet(S),
         \A y \in S : f[y] \in Int /\ g[y] \in Int, \A y \in S : y # x => g[y] = f[y]
  PROVE  SumFunctionOnSet(g, S) = SumFunctionOnSet(f, S) + (g[x] - f[x])
<1>1. IsFiniteSet(S \ {x}) /\ \A y \in S \ {x} : f[y] = g[y] /\ f[y] \in Int
  BY FS_Subset, Zenon
<1>2. PICK rest : rest = SumFunctionOnSet(f, S \ {x})
  BY Zenon
<1>3. rest \in Int
  BY <1>1, <1>2, SumInt, ZenonT(60)
<1>4. rest = SumFunctionOnSet(g, S \ {x})
  BY <1>1, <1>2, SumSame
<1>5. SumFunctionOnSet(f, S) = f[x] + rest
  BY <1>2, SumRemove
<1>6. SumFunctionOnSet(g, S) = g[x] + rest
  BY <1>4, SumRemove
<1>7. f[x] \in Int /\ g[x] \in Int
  BY Zenon
<1>8. QED
  BY <1>3, <1>5, <1>6, <1>7

\* A sum of naturals is a natural.
LEMMA SumNat ==
  ASSUME NEW f, NEW S, IsFiniteSet(S), \A x \in S : f[x] \in Nat
  PROVE  SumFunctionOnSet(f, S) \in Nat
<1> DEFINE G == {U \in SUBSET S : SumFunctionOnSet(f, U) \in Nat}
<1>1. {} \in G
  BY SumEmpty
<1>2. ASSUME NEW U \in SUBSET S, U # {}, U \ {Chosen(U)} \in G
      PROVE  U \in G
  <2>1. PICK c \in U : c = Chosen(U)
    BY <1>2, ChosenIn, Zenon
  <2>2. IsFiniteSet(U)
    BY FS_Subset, Zenon
  <2>3. SumFunctionOnSet(f, U) = f[c] + SumFunctionOnSet(f, U \ {c})
    BY <1>2, <2>1, <2>2, SumStep, Zenon
  <2>4. SumFunctionOnSet(f, U \ {c}) \in Nat /\ f[c] \in Nat
    BY <1>2, <2>1, Zenon
  <2>5. SumFunctionOnSet(f, U) \in Nat
    BY <2>3, <2>4
  <2>6. QED
    BY <2>5, Zenon
<1>3. S \in G
  <2> HIDE DEF G
  <2>1. QED
    BY <1>1, <1>2, SubsetInduction, ZenonT(60)
<1>4. QED
  BY <1>3, Zenon

\* A sum of zeros is zero.
LEMMA SumZero ==
  ASSUME NEW f, NEW S, IsFiniteSet(S), \A x \in S : f[x] = 0
  PROVE  SumFunctionOnSet(f, S) = 0
<1> DEFINE G == {U \in SUBSET S : SumFunctionOnSet(f, U) = 0}
<1>1. {} \in G
  BY SumEmpty, ZenonT(60)
<1>2. ASSUME NEW U \in SUBSET S, U # {}, U \ {Chosen(U)} \in G
      PROVE  U \in G
  <2>1. PICK c \in U : c = Chosen(U)
    BY <1>2, ChosenIn, Zenon
  <2>2. IsFiniteSet(U)
    BY FS_Subset, Zenon
  <2>3. SumFunctionOnSet(f, U) = f[c] + SumFunctionOnSet(f, U \ {c})
    BY <1>2, <2>1, <2>2, SumStep, Zenon
  <2>4. SumFunctionOnSet(f, U \ {c}) = 0 /\ f[c] = 0
    BY <1>2, <2>1, Zenon
  <2>5. SumFunctionOnSet(f, U) = 0
    BY <2>3, <2>4
  <2>6. QED
    BY <2>5, Zenon
<1>3. S \in G
  <2> HIDE DEF G
  <2>1. QED
    BY <1>1, <1>2, SubsetInduction, ZenonT(60)
<1>4. QED
  BY <1>3, Zenon

\* Larger values have a larger sum.
LEMMA SumMonotone ==
  ASSUME NEW f, NEW g, NEW S, IsFiniteSet(S),
         \A x \in S : f[x] \in Int /\ g[x] \in Int /\ f[x] <= g[x]
  PROVE  SumFunctionOnSet(f, S) <= SumFunctionOnSet(g, S)
<1> DEFINE G == {U \in SUBSET S : SumFunctionOnSet(f, U) <= SumFunctionOnSet(g, U)}
<1>1. {} \in G
  BY SumEmpty
<1>2. ASSUME NEW U \in SUBSET S, U # {}, U \ {Chosen(U)} \in G
      PROVE  U \in G
  <2>1. PICK c \in U : c = Chosen(U)
    BY <1>2, ChosenIn, Zenon
  <2>2. IsFiniteSet(U) /\ IsFiniteSet(U \ {c})
    BY FS_Subset, Zenon
  <2>3. /\ SumFunctionOnSet(f, U) = f[c] + SumFunctionOnSet(f, U \ {c})
        /\ SumFunctionOnSet(g, U) = g[c] + SumFunctionOnSet(g, U \ {c})
    BY <1>2, <2>1, <2>2, SumStep, Zenon
  <2>4. /\ SumFunctionOnSet(f, U \ {c}) <= SumFunctionOnSet(g, U \ {c})
        /\ f[c] \in Int /\ g[c] \in Int /\ f[c] <= g[c]
    BY <1>2, <2>1, Zenon
  <2>5. SumFunctionOnSet(f, U \ {c}) \in Int /\ SumFunctionOnSet(g, U \ {c}) \in Int
    BY <2>2, SumInt, ZenonT(60)
  <2>6. SumFunctionOnSet(f, U) <= SumFunctionOnSet(g, U)
    BY <2>3, <2>4, <2>5
  <2>7. QED
    BY <2>6, Zenon
<1>3. S \in G
  <2> HIDE DEF G
  <2>1. QED
    BY <1>1, <1>2, SubsetInduction, ZenonT(60)
<1>4. QED
  BY <1>3, Zenon

\* A function has a largest value on a finite set.
LEMMA LargestValue ==
  ASSUME NEW f, NEW S, IsFiniteSet(S), S # {}, \A x \in S : f[x] \in Int
  PROVE  \E x \in S : \A y \in S : f[y] <= f[x]
<1> DEFINE G == {U \in SUBSET S : U # {} => \E x \in U : \A y \in U : f[y] <= f[x]}
<1>1. {} \in G
  BY Zenon
<1>2. ASSUME NEW U \in SUBSET S, U # {}, U \ {Chosen(U)} \in G
      PROVE  U \in G
  <2>1. PICK c \in U : c = Chosen(U)
    BY <1>2, ChosenIn, Zenon
  <2>2. U \ {c} # {} => \E x \in U \ {c} : \A y \in U \ {c} : f[y] <= f[x]
    BY <1>2, <2>1, Zenon
  <2>3. \A x \in U : f[x] \in Int
    BY Zenon
  <2>4. \E x \in U : \A y \in U : f[y] <= f[x]
    BY <2>1, <2>2, <2>3
  <2>5. QED
    BY <2>4, Zenon
<1>3. S \in G
  <2> HIDE DEF G
  <2>1. QED
    BY <1>1, <1>2, SubsetInduction, ZenonT(60)
<1>4. QED
  BY <1>3, Zenon

\* Induction up to n; G are the numbers for which the claim holds.
LEMMA UpTo ==
  ASSUME NEW n \in Nat, NEW G, 0 \in G, \A k \in 0..(n - 1) : k \in G => k + 1 \in G
  PROVE  \A k \in 0..n : k \in G
<1> DEFINE B == {k \in 0..n : k \notin G}
           f == [k \in B |-> -k]
<1>1. SUFFICES ASSUME B # {} PROVE FALSE
  BY Zenon
<1>2. IsFiniteSet(B)
  <2>1. IsFiniteSet(0..n) /\ B \in SUBSET (0..n)
    BY FS_Interval, SMTT(30)
  <2>2. QED
    BY <2>1, FS_Subset, Zenon
<1>3. \A k \in B : f[k] = -k /\ f[k] \in Int
  OBVIOUS
<1>4. PICK m \in B : \A k \in B : f[k] <= f[m]
  <2> HIDE DEF B, f
  <2>1. QED
    BY <1>1, <1>2, <1>3, LargestValue, ZenonT(60)
<1>5. m \in 0..n /\ m \notin G /\ \A k \in 0..n : k \notin G => m <= k
  BY <1>3, <1>4
<1>6. m # 0
  BY <1>5, Zenon
<1>7. m - 1 \in 0..(n - 1) /\ m - 1 \in 0..n /\ ~(m <= m - 1) /\ (m - 1) + 1 = m
  BY <1>5, <1>6
<1>8. m - 1 \in G
  BY <1>5, <1>7, Zenon
<1>9. (m - 1) + 1 \in G
  BY <1>7, <1>8, Zenon
<1>10. QED
  BY <1>5, <1>7, <1>9, Zenon

\* The sum over two sets without a common element.
LEMMA SumDisjoint ==
  ASSUME NEW f, NEW S, NEW T, IsFiniteSet(S), IsFiniteSet(T), S \cap T = {},
         \A x \in S \cup T : f[x] \in Int
  PROVE  SumFunctionOnSet(f, S \cup T) = SumFunctionOnSet(f, S) + SumFunctionOnSet(f, T)
<1> DEFINE Sum(U) == SumFunctionOnSet(f, U)
           G == {U \in SUBSET T : Sum(S \cup U) = Sum(S) + Sum(U)}
<1>1. Sum(S) \in Int
  BY SumInt, Zenon
<1>2. {} \in G
  <2>1. S \cup {} = S /\ Sum({}) = 0
    BY SumEmpty, ZenonT(60)
  <2>2. QED
    BY <1>1, <2>1
<1>3. ASSUME NEW U \in SUBSET T, U # {}, U \ {Chosen(U)} \in G
      PROVE  U \in G
  <2>1. PICK c \in U : c = Chosen(U)
    BY <1>3, ChosenIn, Zenon
  <2>2. PICK R : R = U \ {c}
    BY Zenon
  <2>3. IsFiniteSet(R) /\ R \in SUBSET T /\ c \notin R /\ U = R \cup {c} /\ c \in T /\ c \notin S
    <3>1. R \in SUBSET T /\ c \notin R /\ U = R \cup {c} /\ c \in T /\ c \notin S
      BY <2>1, <2>2, ZenonT(60)
    <3>2. QED
      BY <3>1, FS_Subset, Zenon
  <2>4. IsFiniteSet(S \cup R) /\ c \notin S \cup R /\ (S \cup R) \cup {c} = S \cup U
    <3>1. IsFiniteSet(S \cup R)
      BY <2>3, FS_Union, Zenon
    <3>2. QED
      BY <2>3, <3>1, ZenonT(60)
  <2>5. f[c] \in Int /\ (\A y \in R : f[y] \in Int) /\ (\A y \in S \cup R : f[y] \in Int)
    BY <2>3, Zenon
  <2>6. Sum(U) = f[c] + Sum(R)
    BY <2>3, <2>5, SumAdd, Zenon
  <2>7. Sum(S \cup U) = f[c] + Sum(S \cup R)
    <3>1. PICK X : X = S \cup R
      BY Zenon
    <3>2. Sum(X \cup {c}) = f[c] + Sum(X)
      BY <2>4, <2>5, <3>1, SumAdd, Zenon
    <3>3. QED
      BY <2>4, <3>1, <3>2, Zenon
  <2>8. Sum(S \cup R) = Sum(S) + Sum(R)
    BY <1>3, <2>1, <2>2, Zenon
  <2>9. Sum(R) \in Int
    BY <2>3, <2>5, SumInt, Zenon
  <2>10. Sum(S \cup U) = Sum(S) + Sum(U)
    BY <1>1, <2>5, <2>6, <2>7, <2>8, <2>9
  <2>11. QED
    BY <2>10, Zenon
<1>4. T \in G
  <2> HIDE DEF G
  <2>1. QED
    BY <1>2, <1>3, SubsetInduction, ZenonT(60)
<1>5. QED
  BY <1>4, Zenon

\* A sum over fewer naturals is not larger.
LEMMA SumSubset ==
  ASSUME NEW f, NEW S, NEW T \in SUBSET S, IsFiniteSet(S), \A x \in S : f[x] \in Nat
  PROVE  /\ SumFunctionOnSet(f, T) <= SumFunctionOnSet(f, S)
         /\ SumFunctionOnSet(f, S) = SumFunctionOnSet(f, T) + SumFunctionOnSet(f, S \ T)
<1>1. PICK R : R = S \ T
  BY Zenon
<1>2. T \cup R = S /\ T \cap R = {}
  BY <1>1, ZenonT(60)
<1>3. IsFiniteSet(T) /\ IsFiniteSet(R)
  BY <1>1, FS_Subset, FS_Difference, Zenon
<1>4. (\A x \in T : f[x] \in Nat) /\ (\A x \in R : f[x] \in Nat)
  BY <1>1, Zenon
<1>5. SumFunctionOnSet(f, T) \in Nat /\ SumFunctionOnSet(f, R) \in Nat
  BY <1>3, <1>4, SumNat, ZenonT(60)
<1>6. \A x \in T \cup R : f[x] \in Int
  BY <1>2
<1>7. SumFunctionOnSet(f, T \cup R) = SumFunctionOnSet(f, T) + SumFunctionOnSet(f, R)
  BY <1>2, <1>3, <1>6, SumDisjoint, ZenonT(60)
<1>8. SumFunctionOnSet(f, S) = SumFunctionOnSet(f, T) + SumFunctionOnSet(f, R)
  BY <1>2, <1>7, Zenon
<1>9. SumFunctionOnSet(f, T) <= SumFunctionOnSet(f, S)
  BY <1>5, <1>8
<1>10. QED
  BY <1>1, <1>8, <1>9, Zenon

\* p names every element of S once, for an element of T that has the same value.
Renames(p, g, T, f, S) ==
  /\ S = {p[x] : x \in T}
  /\ \A x, y \in T : p[x] = p[y] => x = y
  /\ \A x \in T : g[x] = f[p[x]] /\ g[x] \in Int

\* A sum does not change when its elements are renamed.
LEMMA SumRenamed ==
  ASSUME NEW p, NEW g, NEW T, NEW f, NEW S, IsFiniteSet(T), Renames(p, g, T, f, S)
  PROVE  SumFunctionOnSet(g, T) = SumFunctionOnSet(f, S)
<1> DEFINE Im(U) == {p[x] : x \in U}
           G == {U \in SUBSET T : /\ IsFiniteSet(Im(U))
                                  /\ SumFunctionOnSet(g, U) = SumFunctionOnSet(f, Im(U))}
<1>1. /\ S = Im(T) /\ \A x, y \in T : p[x] = p[y] => x = y
      /\ \A x \in T : g[x] = f[p[x]] /\ g[x] \in Int
  BY Zenon DEF Renames
<1>2. {} \in G
  <2>1. Im({}) = {} /\ IsFiniteSet({})
    BY FS_EmptySet, ZenonT(60)
  <2>2. QED
    BY <2>1, SumEmpty, Zenon
<1>3. ASSUME NEW U \in SUBSET T, U # {}, U \ {Chosen(U)} \in G
      PROVE  U \in G
  <2>1. PICK c \in U : c = Chosen(U)
    BY <1>3, ChosenIn, Zenon
  <2>2. PICK R : R = U \ {c}
    BY Zenon
  <2>3. IsFiniteSet(R) /\ R \in SUBSET T /\ c \notin R /\ U = R \cup {c} /\ c \in T
    <3>1. R \in SUBSET T /\ c \notin R /\ U = R \cup {c} /\ c \in T
      BY <2>1, <2>2, ZenonT(60)
    <3>2. QED
      BY <3>1, FS_Subset, Zenon
  <2>4. PICK I : I = Im(R)
    BY Zenon
  <2>5. Im(U) = I \cup {p[c]} /\ p[c] \notin I
    BY <1>1, <2>3, <2>4
  <2>6. IsFiniteSet(I) /\ SumFunctionOnSet(g, R) = SumFunctionOnSet(f, I)
    BY <1>1, <1>3, <2>1, <2>2, <2>4, Zenon
  <2>7. f[p[c]] \in Int /\ \A y \in I : f[y] \in Int
    BY <1>1, <2>3, <2>4
  <2>8. g[c] = f[p[c]] /\ g[c] \in Int /\ \A y \in R : g[y] \in Int
    BY <1>1, <2>3, Zenon
  <2>9. SumFunctionOnSet(g, R \cup {c}) = g[c] + SumFunctionOnSet(g, R)
    BY <2>3, <2>8, SumAdd, Zenon
  <2>10. PICK d : d = p[c]
    BY Zenon
  <2>11. SumFunctionOnSet(f, I \cup {d}) = f[d] + SumFunctionOnSet(f, I)
    BY <2>5, <2>6, <2>7, <2>10, SumAdd, Zenon
  <2>12. IsFiniteSet(I \cup {d})
    BY <2>6, FS_AddElement, Zenon
  <2>13. QED
    BY <1>1, <2>3, <2>5, <2>6, <2>8, <2>9, <2>10, <2>11, <2>12, Zenon
<1>4. T \in G
  <2> HIDE DEF G
  <2>1. QED
    BY <1>2, <1>3, SubsetInduction, ZenonT(60)
<1>5. QED
  BY <1>1, <1>4, Zenon

-----------------------------------------------------------------------------
(* Listings in a strict order *)

\* before is a strict order in which any two elements of S can be compared.
StrictOrder(S, before) ==
  /\ \A x \in S : <<x, x>> \notin before
  /\ \A x, y \in S : x # y => <<x, y>> \in before \/ <<y, x>> \in before
  /\ \A x, y, z \in S : <<x, y>> \in before /\ <<y, z>> \in before => <<x, z>> \in before

\* order lists every element of S once, the earlier ones first.
IsListing(S, before, order) ==
  /\ order \in [1..Cardinality(S) -> S]
  /\ \A i, j \in 1..Cardinality(S) : i < j => <<order[i], order[j]>> \in before
  /\ \A i, j \in 1..Cardinality(S) : order[i] = order[j] => i = j
  /\ \A x \in S : \E i \in 1..Cardinality(S) : order[i] = x

\* A strict order of a finite set gives the k-th element the rank k - 1, so that Listed
\* finds it.
LEMMA ListedIsListing ==
  ASSUME NEW S, NEW before, IsFiniteSet(S), StrictOrder(S, before)
  PROVE  IsListing(S, before, Listed(S, before))
<1> DEFINE Below(x) == {y \in S : <<y, x>> \in before}
           N == Cardinality(S)
           rank == [x \in S |-> Cardinality(Below(x))]
           Nth(k) == CHOOSE x \in S : Cardinality(Below(x)) = k - 1
<1>1. N \in Nat
  BY FS_CardinalityType, Zenon
<1>2. ASSUME NEW x \in S
      PROVE  IsFiniteSet(Below(x)) /\ rank[x] \in Nat /\ rank[x] < N
  <2>1. Below(x) \in SUBSET S
    BY Zenon
  <2>2. x \notin Below(x)
    BY Zenon DEF StrictOrder
  <2>3. PICK B : B = Below(x)
    BY Zenon
  <2>4. B # S
    BY <2>2, <2>3, Zenon
  <2>5. IsFiniteSet(B) /\ Cardinality(B) <= N /\ Cardinality(B) # N
    BY <2>1, <2>3, <2>4, FS_Subset, Zenon
  <2>6. Cardinality(B) \in Nat
    BY <2>5, FS_CardinalityType, Zenon
  <2>7. rank[x] = Cardinality(B)
    BY <2>3, Zenon
  <2>8. Cardinality(B) < N
    BY <1>1, <2>5, <2>6
  <2>9. QED
    BY <2>3, <2>5, <2>6, <2>7, <2>8, Zenon
<1>3. ASSUME NEW x \in S, NEW y \in S, <<x, y>> \in before
      PROVE  rank[x] < rank[y]
  <2>1. PICK A, B : A = Below(x) /\ B = Below(y)
    BY Zenon
  <2>2. A \in SUBSET B
    BY <1>3, <2>1, Zenon DEF StrictOrder
  <2>3. x \in B /\ x \notin A
    BY <1>3, <2>1, Zenon DEF StrictOrder
  <2>4. IsFiniteSet(B) /\ rank[x] = Cardinality(A) /\ rank[y] = Cardinality(B)
    BY <1>2, <2>1, Zenon
  <2>5. Cardinality(A) <= Cardinality(B) /\ Cardinality(A) # Cardinality(B)
    BY <2>2, <2>3, <2>4, FS_Subset, Zenon
  <2>6. rank[x] \in Nat /\ rank[y] \in Nat
    BY <1>2, Zenon
  <2>7. QED
    BY <2>4, <2>5, <2>6
<1>4. ASSUME NEW x \in S, NEW y \in S, rank[x] = rank[y]
      PROVE  x = y
  <2>1. rank[x] \in Nat
    BY <1>2, Zenon
  <2>2. ~(rank[x] < rank[y]) /\ ~(rank[y] < rank[x])
    BY <1>4, <2>1
  <2>3. QED
    BY <1>3, <2>2, Zenon DEF StrictOrder
<1>5. ASSUME NEW k \in 0..(N - 1)
      PROVE  \E x \in S : rank[x] = k
  <2>1. rank \in [S -> 0..(N - 1)]
    <3>1. \A x \in S : rank[x] \in 0..(N - 1)
      BY <1>1, <1>2, SMTT(30)
    <3>2. QED
      BY <3>1, Zenon
  <2>2. rank \in Injection(S, 0..(N - 1))
    BY <1>4, <2>1, Zenon DEF Injection, IsInjective
  <2>3. IsFiniteSet(0..(N - 1)) /\ Cardinality(0..(N - 1)) = N
    <3>1. 0 \in Int /\ N - 1 \in Int /\ (0 > N - 1 => N = 0) /\ (N - 1) - 0 + 1 = N
      BY <1>1
    <3>2. QED
      BY <3>1, FS_Interval, Zenon
  <2>4. rank \in Surjection(S, 0..(N - 1))
    <3> HIDE DEF rank
    <3>1. QED
      BY <2>2, <2>3, FS_Injection, Zenon
  <2>5. QED
    BY <2>4, Zenon DEF Surjection
<1>6. PICK order : order = Listed(S, before)
  BY Zenon
<1>7. order = [k \in 1..N |-> Nth(k)]
  BY <1>6, Zenon DEF Listed
<1>8. ASSUME NEW k \in 1..N
      PROVE  order[k] \in S /\ rank[order[k]] = k - 1
  <2>1. k - 1 \in 0..(N - 1)
    BY <1>1
  <2>2. PICK x \in S : rank[x] = k - 1
    BY <1>5, <2>1, Zenon
  <2>3. Cardinality({y \in S : <<y, x>> \in before}) = k - 1
    BY <2>2, Zenon
  <2>4. order[k] = CHOOSE z \in S : Cardinality({y \in S : <<y, z>> \in before}) = k - 1
    BY <1>6, Zenon DEF Listed
  <2>5. order[k] \in S /\ Cardinality({y \in S : <<y, order[k]>> \in before}) = k - 1
    BY <2>3, <2>4, Zenon
  <2>6. QED
    BY <2>5, Zenon
<1> HIDE DEF rank
<1>9. order \in [1..N -> S]
  <2>1. \A k \in 1..N : Nth(k) \in S
    BY <1>8, <1>7, Zenon
  <2>2. QED
    <3> HIDE DEF Nth
    <3>1. QED
      BY <1>7, <2>1, ZenonT(60)
<1>10. ASSUME NEW i \in 1..N, NEW j \in 1..N, i < j
      PROVE  <<order[i], order[j]>> \in before
  <2>1. order[i] \in S /\ order[j] \in S /\ rank[order[i]] = i - 1 /\ rank[order[j]] = j - 1
    BY <1>8, Zenon
  <2>2. i - 1 # j - 1 /\ ~(j - 1 < i - 1)
    BY <1>1, <1>10
  <2>3. order[i] # order[j]
    BY <2>1, <2>2, Zenon
  <2>4. <<order[j], order[i]>> \notin before
    BY <1>3, <2>1, <2>2, Zenon
  <2>5. QED
    BY <2>1, <2>3, <2>4, Zenon DEF StrictOrder
<1>11. ASSUME NEW i \in 1..N, NEW j \in 1..N, order[i] = order[j]
      PROVE  i = j
  <2>1. i - 1 = j - 1
    BY <1>8, <1>11, Zenon
  <2>2. QED
    BY <2>1
<1>12. ASSUME NEW x \in S
      PROVE  \E i \in 1..N : order[i] = x
  <2>1. PICK r : r = rank[x] /\ r \in Nat /\ r < N
    BY <1>2, Zenon
  <2>2. PICK i : i = r + 1
    BY Zenon
  <2>3. i \in 1..N /\ i - 1 = rank[x]
    BY <1>1, <2>2, <2>1
  <2>4. PICK y : y = order[i]
    BY Zenon
  <2>5. y \in S /\ rank[y] = rank[x]
    BY <1>8, <2>3, <2>4, Zenon
  <2>6. y = x
    BY <1>4, <2>5, Zenon
  <2>7. QED
    BY <2>3, <2>4, <2>6, Zenon
<1>13. QED
  BY <1>6, <1>9, <1>10, <1>11, <1>12, Zenon DEF IsListing

\* Picked returns elements at the positions asked for, every one of them once, in order.
LEMMA PickedIs ==
  ASSUME NEW s, NEW n \in Nat, NEW I \in SUBSET (1..n)
  PROVE  \E order :
           /\ IsFiniteSet(I) /\ Cardinality(I) \in Nat
           /\ IsListing(I, {p \in I \X I : p[1] < p[2]}, order)
           /\ Picked(s, I) = [k \in 1..Cardinality(I) |-> s[order[k]]]
<1>1. IsFiniteSet(I) /\ Cardinality(I) \in Nat
  <2>1. IsFiniteSet(1..n)
    BY FS_Interval
  <2>2. QED
    BY <2>1, FS_Subset, FS_CardinalityType, Zenon
<1>2. PICK before : before = {p \in I \X I : p[1] < p[2]}
  BY Zenon
<1>3. StrictOrder(I, before)
  <2>1. \A x, y \in I : <<x, y>> \in before <=> x < y
    BY <1>2, ZenonT(60)
  <2>2. \A x \in I : x \in Int
    OBVIOUS
  <2>3. \A x, y, z \in I : ~(x < x) /\ (x # y => x < y \/ y < x) /\ (x < y /\ y < z => x < z)
    BY <2>2
  <2>4. QED
    BY <2>1, <2>3, Zenon DEF StrictOrder
<1>4. PICK order : order = Listed(I, before)
  BY Zenon
<1>5. IsListing(I, before, order)
  BY <1>1, <1>3, <1>4, ListedIsListing, Zenon
<1>6. DOMAIN order = 1..Cardinality(I)
  BY <1>5, Zenon DEF IsListing
<1>7. Picked(s, I) = [k \in DOMAIN order |-> s[order[k]]]
  BY <1>2, <1>4, Zenon DEF Picked
<1>8. QED
  BY <1>1, <1>2, <1>5, <1>6, <1>7, Zenon

\* Entries as CalculatePrices collects them; a power of zero is allowed.
Entry == [status : Status, power : Nat, price : Nat, timestamp : Nat]
Weighted == [weight : Nat, price : Nat]

\* order is a permutation of 1..n.
Permutes(order, n) ==
  /\ order \in [1..n -> 1..n]
  /\ \A i, j \in 1..n : order[i] = order[j] => i = j
  /\ \A k \in 1..n : \E i \in 1..n : order[i] = k

\* before compares positions by two keys, and by their place where the keys are equal.
ByKeys(n, a, b, before) ==
  /\ \A i \in 1..n : a[i] \in Int /\ b[i] \in Int
  /\ \A i, j \in 1..n : <<i, j>> \in before <=>
       \/ a[i] < a[j] \/ (a[i] = a[j] /\ b[i] < b[j])
       \/ ~(a[j] < a[i] \/ (a[j] = a[i] /\ b[j] < b[i])) /\ i < j

\* Such a comparison is a strict order.
LEMMA KeysOrder ==
  ASSUME NEW n \in Nat, NEW a, NEW b, NEW before, ByKeys(n, a, b, before)
  PROVE  StrictOrder(1..n, before)
<1> DEFINE Lt(i, j) == \/ a[i] < a[j] \/ (a[i] = a[j] /\ b[i] < b[j])
                       \/ ~(a[j] < a[i] \/ (a[j] = a[i] /\ b[j] < b[i])) /\ i < j
<1>1. \A i \in 1..n : a[i] \in Int /\ b[i] \in Int
  BY Zenon DEF ByKeys
<1>2. \A i \in 1..n : ~Lt(i, i)
  BY <1>1
<1>3. \A i, j \in 1..n : i # j => Lt(i, j) \/ Lt(j, i)
  BY <1>1
<1>4. \A i, j, k \in 1..n : Lt(i, j) /\ Lt(j, k) => Lt(i, k)
  BY <1>1
<1>5. \A i, j \in 1..n : <<i, j>> \in before <=> Lt(i, j)
  BY Zenon DEF ByKeys
<1> HIDE DEF Lt
<1>6. QED
  BY <1>2, <1>3, <1>4, <1>5, Zenon DEF StrictOrder

\* A listing of 1..n is a permutation.
LEMMA ListingPermutes ==
  ASSUME NEW n \in Nat, NEW before, StrictOrder(1..n, before)
  PROVE  /\ Permutes(Listed(1..n, before), n)
         /\ \A i, j \in 1..n : i < j =>
              <<Listed(1..n, before)[i], Listed(1..n, before)[j]>> \in before
<1>1. IsFiniteSet(1..n) /\ Cardinality(1..n) = n
  BY FS_Interval
<1>2. IsListing(1..n, before, Listed(1..n, before))
  BY <1>1, ListedIsListing, Zenon
<1>3. QED
  BY <1>1, <1>2, Zenon DEF IsListing, Permutes

\* Sorting the entries, newest first, permutes them.
LEMMA NewestPermutes ==
  ASSUME NEW n \in Nat, NEW v \in [1..n -> Entry]
  PROVE  \E order : /\ Permutes(order, n)
                    /\ StableSort(v, NewestFirst) = [k \in 1..n |-> v[order[k]]]
<1>1. PICK before : before = {p \in (1..n) \X (1..n) :
        \/ NewestFirst(v[p[1]], v[p[2]])
        \/ ~NewestFirst(v[p[2]], v[p[1]]) /\ p[1] < p[2]}
  BY Zenon
<1>2. PICK a, b : a = [i \in 1..n |-> -v[i].timestamp] /\ b = [i \in 1..n |-> -v[i].power]
  BY Zenon
<1>3. \A i \in 1..n : v[i].timestamp \in Nat /\ v[i].power \in Nat
  BY ZenonT(60) DEF Entry
<1>4. \A i \in 1..n : a[i] \in Int /\ b[i] \in Int /\ a[i] = -v[i].timestamp /\ b[i] = -v[i].power
  BY <1>2, <1>3
<1>5. \A i, j \in 1..n : NewestFirst(v[i], v[j]) <=> a[i] < a[j] \/ (a[i] = a[j] /\ b[i] < b[j])
  BY <1>3, <1>4, SMTT(30) DEF NewestFirst
<1>6. \A i, j \in 1..n : <<i, j>> \in before <=>
        NewestFirst(v[i], v[j]) \/ (~NewestFirst(v[j], v[i]) /\ i < j)
  BY <1>1, ZenonT(60)
<1>7. \A i, j \in 1..n : <<i, j>> \in before <=>
        \/ a[i] < a[j] \/ (a[i] = a[j] /\ b[i] < b[j])
        \/ ~(a[j] < a[i] \/ (a[j] = a[i] /\ b[j] < b[i])) /\ i < j
  BY <1>5, <1>6, Zenon
<1>8. StrictOrder(1..n, before)
  <2>1. \A i \in 1..n : a[i] \in Int /\ b[i] \in Int
    BY <1>4, Zenon
  <2>2. ByKeys(n, a, b, before)
    BY <1>7, <2>1, Zenon DEF ByKeys
  <2>3. QED
    BY <2>2, KeysOrder, Zenon
<1>9. PICK order : order = Listed(1..n, before)
  BY Zenon
<1>10. DOMAIN v = 1..n
  BY Zenon
<1>11. StableSort(v, NewestFirst) = [k \in 1..n |-> v[order[k]]]
  BY <1>1, <1>9, <1>10, Zenon DEF StableSort
<1>12. QED
  BY <1>8, <1>9, <1>11, ListingPermutes, ZenonT(60)

\* Sorting the weighted prices permutes them and leaves the prices in order.
LEMMA LowestPermutes ==
  ASSUME NEW n \in Nat, NEW v \in [1..n -> Weighted]
  PROVE  \E order : /\ Permutes(order, n)
                    /\ StableSort(v, LowestFirst) = [k \in 1..n |-> v[order[k]]]
                    /\ \A i, j \in 1..n : i < j => v[order[i]].price <= v[order[j]].price
<1>1. PICK before : before = {p \in (1..n) \X (1..n) :
        \/ LowestFirst(v[p[1]], v[p[2]])
        \/ ~LowestFirst(v[p[2]], v[p[1]]) /\ p[1] < p[2]}
  BY Zenon
<1>2. PICK a, b : a = [i \in 1..n |-> v[i].price] /\ b = [i \in 1..n |-> v[i].weight]
  BY Zenon
<1>3. \A i \in 1..n : v[i].price \in Nat /\ v[i].weight \in Nat
  BY ZenonT(60) DEF Weighted
<1>4. \A i \in 1..n : a[i] \in Int /\ b[i] \in Int /\ a[i] = v[i].price /\ b[i] = v[i].weight
  BY <1>2, <1>3
<1>5. \A i, j \in 1..n : LowestFirst(v[i], v[j]) <=> a[i] < a[j] \/ (a[i] = a[j] /\ b[i] < b[j])
  BY <1>3, <1>4, ZenonT(60) DEF LowestFirst
<1>6. \A i, j \in 1..n : <<i, j>> \in before <=>
        LowestFirst(v[i], v[j]) \/ (~LowestFirst(v[j], v[i]) /\ i < j)
  BY <1>1
<1>7. \A i, j \in 1..n : <<i, j>> \in before <=>
        \/ a[i] < a[j] \/ (a[i] = a[j] /\ b[i] < b[j])
        \/ ~(a[j] < a[i] \/ (a[j] = a[i] /\ b[j] < b[i])) /\ i < j
  BY <1>5, <1>6, Zenon
<1>8. StrictOrder(1..n, before)
  <2>1. \A i \in 1..n : a[i] \in Int /\ b[i] \in Int
    BY <1>4, Zenon
  <2>2. ByKeys(n, a, b, before)
    BY <1>7, <2>1, Zenon DEF ByKeys
  <2>3. QED
    BY <2>2, KeysOrder, Zenon
<1>9. PICK order : order = Listed(1..n, before)
  BY Zenon
<1>10. DOMAIN v = 1..n
  BY Zenon
<1>11. StableSort(v, LowestFirst) = [k \in 1..n |-> v[order[k]]]
  BY <1>1, <1>9, <1>10, Zenon DEF StableSort
<1>12. Permutes(order, n) /\ \A i, j \in 1..n : i < j => <<order[i], order[j]>> \in before
  BY <1>8, <1>9, ListingPermutes, Zenon
<1>13. \A i, j \in 1..n : <<i, j>> \in before => v[i].price <= v[j].price
  BY <1>4, <1>7
<1>14. \A i \in 1..n : order[i] \in 1..n
  BY <1>12, ZenonT(60) DEF Permutes
<1>15. QED
  BY <1>11, <1>12, <1>13, <1>14, Zenon

-----------------------------------------------------------------------------
(* The loop over the sections *)

\* What the newest x units of the scaled power weigh, of a total of 32 * T: the slope falls
\* from section to section.
Worth(T, x) ==
  IF x <= T THEN 60 * x
  ELSE IF x <= 3 * T THEN 40 * x + 20 * T
  ELSE IF x <= 7 * T THEN 20 * x + 80 * T
  ELSE IF x <= 15 * T THEN 11 * x + 143 * T
  ELSE 10 * x + 158 * T

InSection(T, s, x) == x <= T * Sections[s] /\ (s > 1 => T * Sections[s - 1] <= x)

\* In the loop for an entry of l units that starts at c, after section k.
FillInv(T, c, l, k, a) ==
  /\ a \in [left : Nat, weight : Int, stop : BOOLEAN, current : Nat, section : 1..5]
  /\ a.current + a.left = c + l
  /\ a.weight = Worth(T, a.current) - Worth(T, c)
  /\ InSection(T, a.section, a.current)
  /\ a.stop => a.left = 0
  /\ ~a.stop => k < a.section

\* A step of the loop: power that lies in section k gets the slope of that section.
LEMMA FillStep ==
  ASSUME NEW T \in Nat, NEW c \in Nat, NEW l \in Nat, c + l <= 32 * T, NEW k \in 1..5, NEW a,
         FillInv(T, c, l, k - 1, a)
  PROVE  FillInv(T, c, l, k, FillSection(T, a, k))
<1>1. a \in [left : Nat, weight : Int, stop : BOOLEAN, current : Nat, section : 1..5]
  BY ZenonT(60) DEF FillInv
<1>2. CASE a.stop \/ k < a.section
  <2>1. FillSection(T, a, k) = a
    BY <1>2, Zenon DEF FillSection
  <2>2. QED
    BY <1>1, <1>2, <2>1, ZenonT(60) DEF FillInv
<1>3. CASE ~a.stop /\ ~(k < a.section)
  <2>1. a.section = k
    BY <1>1, <1>3 DEF FillInv
  <2>2. PICK t : t = TakePower(a, T * Sections[k])
    BY Zenon
  <2>3. PICK b : b = [left |-> a.left - t, weight |-> a.weight + t * Multipliers[k],
                      stop |-> a.left = t, current |-> a.current + t,
                      section |-> IF a.left = t THEN k ELSE k + 1]
    BY Zenon
  <2>4. FillSection(T, a, k) = b
    BY <1>3, <2>2, <2>3, Zenon DEF FillSection
  <2>5. PICK x, y, w0 : x = a.current /\ y = a.left /\ w0 = a.weight
    BY Zenon
  <2>6. x \in Nat /\ y \in Nat /\ w0 \in Int /\ x + y = c + l
    BY <1>1, <2>5, ZenonT(60) DEF FillInv
  <2>7. w0 = Worth(T, x) - Worth(T, c) /\ Worth(T, c) \in Int
    BY <2>5 DEF FillInv, Worth
  <2>8. InSection(T, k, x)
    BY <2>1, <2>5, ZenonT(60) DEF FillInv
  <2>9. t = IF x + y <= T * Sections[k] THEN y ELSE T * Sections[k] - x
    BY <2>2, <2>5, ZenonT(60) DEF TakePower
  <2>10. /\ t \in Nat /\ y - t \in Nat /\ x + t \in Nat
         /\ t # y => k < 5
         /\ w0 + t * Multipliers[k] = Worth(T, x + t) - Worth(T, c)
         /\ w0 + t * Multipliers[k] \in Int
         /\ InSection(T, IF y = t THEN k ELSE k + 1, x + t)
    <3>1. CASE k = 1
      BY <2>6, <2>7, <2>8, <2>9, <3>1, SMTT(30) DEF InSection, Worth, Sections, Multipliers
    <3>2. CASE k = 2
      BY <2>6, <2>7, <2>8, <2>9, <3>2, SMTT(30) DEF InSection, Worth, Sections, Multipliers
    <3>3. CASE k = 3
      BY <2>6, <2>7, <2>8, <2>9, <3>3, SMTT(30) DEF InSection, Worth, Sections, Multipliers
    <3>4. CASE k = 4
      BY <2>6, <2>7, <2>8, <2>9, <3>4, SMTT(30) DEF InSection, Worth, Sections, Multipliers
    <3>5. CASE k = 5
      BY <2>6, <2>7, <2>8, <2>9, <3>5 DEF InSection, Worth, Sections, Multipliers
    <3>6. QED
      BY <3>1, <3>2, <3>3, <3>4, <3>5, SMTT(30)
  <2>11. /\ b.left = y - t /\ b.weight = w0 + t * Multipliers[k]
         /\ b.stop = (y = t) /\ b.current = x + t
         /\ b.section = IF y = t THEN k ELSE k + 1
    BY <2>3, <2>5, ZenonT(60)
  <2>12. b \in [left : Nat, weight : Int, stop : BOOLEAN, current : Nat, section : 1..5]
    <3>1. (IF y = t THEN k ELSE k + 1) \in 1..5
      BY <2>10
    <3>2. QED
      BY <2>3, <2>5, <2>10, <3>1, ZenonT(60)
  <2>13. /\ b.current + b.left = c + l
         /\ b.weight = Worth(T, b.current) - Worth(T, c)
         /\ InSection(T, b.section, b.current)
    <3>1. (x + t) + (y - t) = c + l
      BY <2>6, <2>10
    <3>2. QED
      BY <2>10, <2>11, <3>1, Zenon
  <2>14. (b.stop => b.left = 0) /\ (~b.stop => k < b.section)
    <3>1. CASE y = t
      <4>1. y - t = 0
        BY <2>6, <3>1
      <4>2. QED
        BY <2>11, <3>1, <4>1, Zenon
    <3>2. CASE y # t
      <4>1. k < k + 1
        OBVIOUS
      <4>2. QED
        BY <2>11, <3>2, <4>1, Zenon
    <3>3. QED
      BY <3>1, <3>2, Zenon
  <2>15. QED
    BY <2>4, <2>12, <2>13, <2>14, Zenon DEF FillInv
<1>4. QED
  BY <1>2, <1>3, ZenonT(60)

\* filled is the recursive function of FillSections.
IsFilled(T, start, filled) ==
  filled = [k \in 0..5 |-> IF k = 0 THEN start ELSE FillSection(T, filled[k - 1], k)]

\* Five steps lead from start to the end of the loop.
LEMMA FilledExists ==
  ASSUME NEW T, NEW start
  PROVE  \E filled : IsFilled(T, start, filled)
<1>1. PICK a1 : a1 = FillSection(T, start, 1)
  BY Zenon
<1>2. PICK a2 : a2 = FillSection(T, a1, 2)
  BY Zenon
<1>3. PICK a3 : a3 = FillSection(T, a2, 3)
  BY Zenon
<1>4. PICK a4 : a4 = FillSection(T, a3, 4)
  BY Zenon
<1>5. PICK a5 : a5 = FillSection(T, a4, 5)
  BY Zenon
<1>6. PICK g : g = [k \in 0..5 |-> IF k = 0 THEN start ELSE IF k = 1 THEN a1 ELSE
                     IF k = 2 THEN a2 ELSE IF k = 3 THEN a3 ELSE IF k = 4 THEN a4 ELSE a5]
  BY Zenon
<1>7. g[0] = start /\ g[1] = a1 /\ g[2] = a2 /\ g[3] = a3 /\ g[4] = a4 /\ g[5] = a5
  BY <1>6
<1>8. ASSUME NEW k \in 0..5
      PROVE  g[k] = IF k = 0 THEN start ELSE FillSection(T, g[k - 1], k)
  BY <1>1, <1>2, <1>3, <1>4, <1>5, <1>7
<1>9. g = [k \in 0..5 |-> g[k]]
  BY <1>6, ZenonT(60)
<1>10. g = [k \in 0..5 |-> IF k = 0 THEN start ELSE FillSection(T, g[k - 1], k)]
  BY <1>8, <1>9, ZenonT(60)
<1>11. QED
  BY <1>10, Zenon DEF IsFilled

\* The state of the loop before an entry e of power p, when c units have been used.
Fits(T, acc, e, c, p) ==
  /\ T \in Nat /\ c \in Nat /\ p \in Nat /\ c + 32 * p <= 32 * T
  /\ acc.current = c /\ acc.section \in 1..5 /\ InSection(T, acc.section, c) /\ e.power = p

\* The state after the entry.
FilledUp(T, acc, e, c, p, r) ==
  /\ r.current = c + 32 * p
  /\ r.section \in 1..5 /\ InSection(T, r.section, r.current)
  /\ r.weighted = Append(acc.weighted,
       [weight |-> Worth(T, c + 32 * p) - Worth(T, c), price |-> e.price])

\* The loop uses up the power of an entry and goes on from where the entry before ended.
LEMMA FillSectionsIs ==
  ASSUME NEW T, NEW acc, NEW e, NEW c, NEW p, Fits(T, acc, e, c, p)
  PROVE  FilledUp(T, acc, e, c, p, FillSections(T, acc, e))
<1>1. /\ T \in Nat /\ c \in Nat /\ p \in Nat /\ c + 32 * p <= 32 * T
       /\ acc.current = c /\ acc.section \in 1..5 /\ InSection(T, acc.section, c) /\ e.power = p
  BY Zenon DEF Fits
<1>2. PICK start : start = [left |-> PowerScalingFactor * e.power, weight |-> 0, stop |-> FALSE,
                            current |-> acc.current, section |-> acc.section]
  BY Zenon
<1>3. PICK f : f = CHOOSE filled : IsFilled(T, start, filled)
  BY Zenon
<1>4. IsFilled(T, start, f)
  BY <1>3, FilledExists, Zenon
<1>5. f[0] = start /\ \A k \in 1..5 : f[k] = FillSection(T, f[k - 1], k)
  <2>1. \A k \in 0..5 : f[k] = IF k = 0 THEN start ELSE FillSection(T, f[k - 1], k)
    BY <1>4, Zenon DEF IsFilled
  <2>2. 0 \in 0..5 /\ \A k \in 1..5 : k \in 0..5 /\ k # 0
    OBVIOUS
  <2>3. QED
    BY <2>1, <2>2, Zenon
<1>6. PICK l : l = 32 * p
  BY Zenon
<1>7. l \in Nat /\ c + l <= 32 * T
  BY <1>6, <1>1
<1>8. FillInv(T, c, l, 0, f[0])
  <2>1. start = [left |-> l, weight |-> 0, stop |-> FALSE, current |-> c, section |-> acc.section]
    BY <1>2, <1>6, <1>1, ZenonT(60) DEF PowerScalingFactor
  <2>2. Worth(T, c) \in Int
    BY <1>1 DEF Worth
  <2>3. start \in [left : Nat, weight : Int, stop : BOOLEAN, current : Nat, section : 1..5]
    BY <1>7, <1>1, <2>1
  <2>4. /\ start.current = c /\ start.left = l /\ start.weight = 0
        /\ start.section = acc.section /\ start.stop = FALSE
    BY <2>1, ZenonT(60)
  <2>5. start.weight = Worth(T, start.current) - Worth(T, c)
    BY <2>2, <2>4
  <2>6. 0 < acc.section
    BY <1>1
  <2>7. QED
    BY <1>5, <1>1, <2>3, <2>4, <2>5, <2>6, Zenon DEF FillInv
<1>9. ASSUME NEW k \in 1..5, FillInv(T, c, l, k - 1, f[k - 1])
      PROVE  FillInv(T, c, l, k, f[k])
  <2>1. PICK a : a = f[k - 1]
    BY Zenon
  <2>2. FillInv(T, c, l, k - 1, a)
    BY <1>9, <2>1, Zenon
  <2>3. FillInv(T, c, l, k, FillSection(T, a, k))
    BY <1>7, <1>1, <2>2, FillStep, ZenonT(60)
  <2>4. QED
    BY <1>5, <2>1, <2>3, Zenon
<1>10. FillInv(T, c, l, 5, f[5])
  <2>1. /\ 1 - 1 = 0 /\ 2 - 1 = 1 /\ 3 - 1 = 2 /\ 4 - 1 = 3 /\ 5 - 1 = 4
        /\ 1 \in 1..5 /\ 2 \in 1..5 /\ 3 \in 1..5 /\ 4 \in 1..5 /\ 5 \in 1..5
    OBVIOUS
  <2>2. FillInv(T, c, l, 1, f[1])
    BY <1>8, <1>9, <2>1, Zenon
  <2>3. FillInv(T, c, l, 2, f[2])
    BY <1>9, <2>1, <2>2, Zenon
  <2>4. FillInv(T, c, l, 3, f[3])
    BY <1>9, <2>1, <2>3, Zenon
  <2>5. FillInv(T, c, l, 4, f[4])
    BY <1>9, <2>1, <2>4, Zenon
  <2>6. QED
    BY <1>9, <2>1, <2>5, Zenon
<1>11. PICK end : end = f[5]
  BY Zenon
<1>12. /\ end.section \in 1..5 /\ InSection(T, end.section, end.current)
       /\ end.current = c + l /\ end.weight = Worth(T, c + l) - Worth(T, c)
  <2>1. end.section \in 1..5 /\ end.current \in Nat /\ end.left \in Nat /\ end.stop \in BOOLEAN
    BY <1>10, <1>11, ZenonT(60) DEF FillInv
  <2>2. /\ end.current + end.left = c + l /\ InSection(T, end.section, end.current)
        /\ end.weight = Worth(T, end.current) - Worth(T, c)
        /\ (end.stop => end.left = 0) /\ (~end.stop => 5 < end.section)
    BY <1>10, <1>11, Zenon DEF FillInv
  <2>3. ~(5 < end.section)
    BY <2>1
  <2>4. end.left = 0
    BY <2>2, <2>3, Zenon
  <2>5. end.current = c + l
    BY <1>7, <1>1, <2>1, <2>2, <2>4
  <2>6. QED
    BY <2>1, <2>2, <2>5, Zenon
<1>13. FillSections(T, acc, e) =
         [current |-> end.current, section |-> end.section,
          weighted |-> Append(acc.weighted, [weight |-> end.weight, price |-> e.price])]
  BY <1>2, <1>3, <1>11, Zenon DEF FillSections, IsFilled
<1>14. PICK r : r = FillSections(T, acc, e)
  BY Zenon
<1>15. /\ r.current = end.current /\ r.section = end.section
       /\ r.weighted = Append(acc.weighted, [weight |-> end.weight, price |-> e.price])
  BY <1>13, <1>14
<1>16. QED
  BY <1>6, <1>12, <1>14, <1>15, Zenon DEF FilledUp

-----------------------------------------------------------------------------
(* The loop over the entries *)

\* Worth never falls, and falls behind the slope of the section before: it is concave.
LEMMA WorthFacts ==
  ASSUME NEW T \in Nat, NEW x \in Nat, NEW y \in Nat, NEW l \in Nat, x <= y
  PROVE  /\ Worth(T, x) \in Nat /\ Worth(T, x) <= Worth(T, y) /\ Worth(T, 0) = 0
         /\ Worth(T, y + l) - Worth(T, y) <= Worth(T, x + l) - Worth(T, x)
<1>1. Worth(T, x) \in Nat /\ Worth(T, 0) = 0
  BY DEF Worth
<1>2. Worth(T, x) <= Worth(T, y)
  BY DEF Worth
<1>3. Worth(T, y + l) - Worth(T, y) <= Worth(T, x + l) - Worth(T, x)
  BY SMTT(60), ZenonT(60) DEF Worth
<1>4. QED
  BY <1>1, <1>2, <1>3, ZenonT(60)

\* The power of the first k entries.
LEMMA PowerUpTo ==
  ASSUME NEW n \in Nat, NEW s \in [1..n -> Entry]
  PROVE  /\ PowerOf(s, 1..0) = 0 /\ SumOfPowers(s) = PowerOf(s, 1..n)
         /\ \A k \in 0..n : PowerOf(s, 1..k) \in Nat /\ PowerOf(s, 1..k) <= PowerOf(s, 1..n)
         /\ \A k \in 1..n : PowerOf(s, 1..k) = PowerOf(s, 1..(k - 1)) + s[k].power
<1>1. PICK f : f = [i \in DOMAIN s |-> s[i].power]
  BY Zenon
<1>2. DOMAIN s = 1..n
  BY Zenon
<1>3. \A i \in 1..n : f[i] \in Nat /\ f[i] = s[i].power
  BY <1>1, <1>2, ZenonT(60) DEF Entry
<1>4. \A S : PowerOf(s, S) = SumFunctionOnSet(f, S)
  BY <1>1, Zenon DEF PowerOf
<1>5. IsFiniteSet(1..n)
  BY FS_Interval
<1>6. PowerOf(s, 1..0) = 0
  <2>1. 1..0 = {}
    OBVIOUS
  <2>2. QED
    BY <1>4, <2>1, SumEmpty, Zenon
<1>7. SumOfPowers(s) = PowerOf(s, 1..n)
  BY <1>2, Zenon DEF SumOfPowers
<1>8. ASSUME NEW k \in 0..n
      PROVE  PowerOf(s, 1..k) \in Nat /\ PowerOf(s, 1..k) <= PowerOf(s, 1..n)
  <2>1. 1..k \in SUBSET (1..n)
    OBVIOUS
  <2>2. PICK S : S = 1..k
    BY Zenon
  <2>3. IsFiniteSet(S) /\ \A i \in S : f[i] \in Nat
    BY <1>3, <1>5, <2>1, <2>2, FS_Subset, Zenon
  <2>4. SumFunctionOnSet(f, S) \in Nat
    BY <2>3, SumNat, Zenon
  <2>5. \A i \in 1..n : f[i] \in Nat
    BY <1>3, Zenon
  <2>6. SumFunctionOnSet(f, S) <= SumFunctionOnSet(f, 1..n)
    BY <1>5, <2>1, <2>2, <2>5, SumSubset, Zenon
  <2>7. QED
    BY <1>4, <2>2, <2>4, <2>6, Zenon
<1>9. ASSUME NEW k \in 1..n
      PROVE  PowerOf(s, 1..k) = PowerOf(s, 1..(k - 1)) + s[k].power
  <2>1. PICK S : S = 1..(k - 1)
    BY Zenon
  <2>2. 1..k = S \cup {k} /\ k \notin S /\ S \in SUBSET (1..n)
    BY <2>1
  <2>3. IsFiniteSet(S) /\ \A i \in S : f[i] \in Int
    <3>1. IsFiniteSet(S)
      BY <1>5, <2>2, FS_Subset, Zenon
    <3>2. QED
      BY <1>3, <2>2, <3>1
  <2>4. f[k] \in Int /\ f[k] = s[k].power
    BY <1>3
  <2>5. SumFunctionOnSet(f, S \cup {k}) = f[k] + SumFunctionOnSet(f, S)
    BY <2>2, <2>3, <2>4, SumAdd, Zenon
  <2>6. SumFunctionOnSet(f, S) \in Int
    BY <2>3, SumInt, Zenon
  <2>7. f[k] + SumFunctionOnSet(f, S) = SumFunctionOnSet(f, S) + f[k]
    BY <2>4, <2>6
  <2>8. QED
    BY <1>4, <2>1, <2>2, <2>4, <2>5, <2>7, Zenon
<1>10. QED
  BY <1>6, <1>7, <1>8, <1>9, Zenon

\* The weighted prices: every entry weighs what its part of the power is worth.
WeightsOf(T, s, n) ==
  [i \in 1..n |-> [weight |-> Worth(T, 32 * PowerOf(s, 1..i)) - Worth(T, 32 * PowerOf(s, 1..(i - 1))),
                   price |-> s[i].price]]

\* These weights are natural numbers.
LEMMA WeightsType ==
  ASSUME NEW T \in Nat, NEW n \in Nat, NEW s \in [1..n -> Entry]
  PROVE  WeightsOf(T, s, n) \in [1..n -> Weighted]
<1>1. ASSUME NEW i \in 1..n
      PROVE  [weight |-> Worth(T, 32 * PowerOf(s, 1..i)) - Worth(T, 32 * PowerOf(s, 1..(i - 1))),
              price |-> s[i].price] \in Weighted
  <2>1. i \in 0..n /\ i - 1 \in 0..n
    OBVIOUS
  <2>2. PICK P, Q : P = PowerOf(s, 1..i) /\ Q = PowerOf(s, 1..(i - 1))
    BY Zenon
  <2>3. P \in Nat /\ Q \in Nat /\ P = Q + s[i].power
    BY <2>1, <2>2, PowerUpTo, Zenon
  <2>4. s[i].power \in Nat /\ s[i].price \in Nat
    BY ZenonT(60) DEF Entry
  <2>5. 32 * P \in Nat /\ 32 * Q \in Nat /\ 32 * Q <= 32 * P /\ 0 \in Nat /\ 0 <= 32 * P
    BY <2>3, <2>4, SMTT(30)
  <2>6. PICK u, v : u = Worth(T, 32 * P) /\ v = Worth(T, 32 * Q)
    BY Zenon
  <2>7. u \in Nat /\ v \in Nat /\ v <= u
    <3>1. \A x, y \in Nat : x <= y => Worth(T, x) \in Nat /\ Worth(T, x) <= Worth(T, y)
      BY DEF Worth
    <3>2. 32 * P <= 32 * P
      BY <2>5
    <3>3. QED
      BY <2>5, <2>6, <3>1, <3>2, Zenon
  <2>8. u - v \in Nat
    BY <2>7
  <2>9. [weight |-> u - v, price |-> s[i].price] \in Weighted
    BY <2>4, <2>8, ZenonT(60) DEF Weighted
  <2>10. QED
    BY <2>2, <2>6, <2>9, Zenon
<1>2. QED
  BY <1>1, Zenon DEF WeightsOf

\* done is the recursive function of DistributePower, up to m entries.
IsDone(T, s, m, done) ==
  done = [k \in 0..m |-> IF k = 0 THEN [current |-> 0, section |-> 1, weighted |-> <<>>]
                         ELSE FillSections(T, done[k - 1], s[k])]

\* The loop over the entries is well defined, by induction on their number.
LEMMA DoneExists ==
  ASSUME NEW T, NEW s, NEW n \in Nat
  PROVE  \E done : IsDone(T, s, n, done)
<1> DEFINE G == {m \in 0..n : \E g : IsDone(T, s, m, g)}
           none == [current |-> 0, section |-> 1, weighted |-> <<>>]
<1>1. 0 \in G
  <2>1. PICK g : g = [k \in 0..0 |-> none]
    BY Zenon
  <2>2. g = [k \in 0..0 |-> IF k = 0 THEN none ELSE FillSections(T, g[k - 1], s[k])]
    BY <2>1
  <2>3. IsDone(T, s, 0, g)
    BY <2>2, Zenon DEF IsDone
  <2>4. 0 \in 0..n
    OBVIOUS
  <2>5. QED
    BY <2>3, <2>4, Zenon
<1>2. ASSUME NEW m \in 0..(n - 1), m \in G
      PROVE  m + 1 \in G
  <2>1. PICK g : IsDone(T, s, m, g)
    BY <1>2, Zenon
  <2>2. PICK last : last = FillSections(T, g[m], s[m + 1])
    BY Zenon
  <2>3. PICK h : h = [k \in 0..(m + 1) |-> IF k <= m THEN g[k] ELSE last]
    BY Zenon
  <2>4. ASSUME NEW k \in 0..(m + 1)
        PROVE  h[k] = IF k = 0 THEN none ELSE FillSections(T, h[k - 1], s[k])
    <3>1. CASE k = 0
      <4>1. h[0] = g[0] /\ 0 \in 0..m
        BY <2>3
      <4>2. g[0] = none
        BY <2>1, <4>1, Zenon DEF IsDone
      <4>3. QED
        BY <3>1, <4>1, <4>2, Zenon
    <3>2. CASE k \in 1..m
      <4>1. h[k] = g[k] /\ h[k - 1] = g[k - 1] /\ k \in 0..m /\ k # 0
        BY <2>3, <3>2
      <4>2. g[k] = FillSections(T, g[k - 1], s[k])
        BY <2>1, <4>1, Zenon DEF IsDone
      <4>3. QED
        BY <4>1, <4>2, Zenon
    <3>3. CASE k = m + 1
      <4>1. h[m + 1] = last /\ h[(m + 1) - 1] = g[m] /\ m + 1 # 0
        BY <2>3
      <4>2. QED
        BY <2>2, <3>3, <4>1, Zenon
    <3>4. k = 0 \/ k \in 1..m \/ k = m + 1
      OBVIOUS
    <3>5. QED
      BY <3>1, <3>2, <3>3, <3>4, Zenon
  <2>5. h = [k \in 0..(m + 1) |-> h[k]]
    BY <2>3, ZenonT(60)
  <2>6. h = [k \in 0..(m + 1) |-> IF k = 0 THEN none ELSE FillSections(T, h[k - 1], s[k])]
    BY <2>4, <2>5, ZenonT(60)
  <2>7. IsDone(T, s, m + 1, h)
    BY <2>6, Zenon DEF IsDone
  <2>8. m + 1 \in 0..n
    OBVIOUS
  <2>9. QED
    BY <2>7, <2>8, Zenon
<1>3. \A k \in 0..n : k \in G
  <2> HIDE DEF G
  <2>1. QED
    BY <1>1, <1>2, UpTo, ZenonT(60)
<1>4. n \in 0..n
  OBVIOUS
<1>5. QED
  BY <1>3, <1>4, Zenon

\* The loops compute the weights that Worth gives: the section index and the power used so
\* far, which go from entry to entry, stay in step.
LEMMA DistributePowerIs ==
  ASSUME NEW n \in Nat, NEW s \in [1..n -> Entry], NEW T, T = SumOfPowers(s)
  PROVE  DistributePower(T, s) = WeightsOf(T, s, n)
<1> DEFINE none == [current |-> 0, section |-> 1, weighted |-> <<>>]
           P(k) == PowerOf(s, 1..k)
<1>1. Len(s) = n
  OBVIOUS
<1>2. PICK f : f = CHOOSE done : IsDone(T, s, n, done)
  BY Zenon
<1>3. IsDone(T, s, n, f)
  BY <1>2, DoneExists, Zenon
<1>4. f[0] = none /\ \A k \in 1..n : f[k] = FillSections(T, f[k - 1], s[k])
  <2>1. \A k \in 0..n : f[k] = IF k = 0 THEN none ELSE FillSections(T, f[k - 1], s[k])
    BY <1>3, Zenon DEF IsDone
  <2>2. 0 \in 0..n /\ \A k \in 1..n : k \in 0..n /\ k # 0
    OBVIOUS
  <2>3. QED
    BY <2>1, <2>2, Zenon
<1>5. DistributePower(T, s) = f[n].weighted
  BY <1>1, <1>2, Zenon DEF DistributePower, IsDone
<1>6. /\ P(0) = 0 /\ T = P(n) /\ T \in Nat
      /\ \A k \in 0..n : P(k) \in Nat /\ P(k) <= T
      /\ \A k \in 1..n : P(k) = P(k - 1) + s[k].power
  <2>1. n \in 0..n
    OBVIOUS
  <2>2. QED
    BY <2>1, PowerUpTo, Zenon
<1>7. PICK w : w = WeightsOf(T, s, n)
  BY Zenon
<1>8. w \in [1..n -> Weighted]
  BY <1>6, <1>7, WeightsType, Zenon
<1> HIDE DEF P
<1> DEFINE G == {k \in 0..n : /\ f[k].current = 32 * P(k)
                              /\ f[k].section \in 1..5 /\ InSection(T, f[k].section, 32 * P(k))
                              /\ f[k].weighted = [i \in 1..k |-> w[i]]}
<1>9. 0 \in G
  <2>1. none.current = 0 /\ none.section = 1 /\ none.weighted = <<>>
    BY ZenonT(60)
  <2>2. 32 * P(0) = 0 /\ 1 \in 1..5 /\ 0 \in 0..n
    BY <1>6
  <2>3. InSection(T, 1, 0)
    BY <1>6 DEF InSection, Sections
  <2>4. <<>> = [i \in 1..0 |-> w[i]]
    OBVIOUS
  <2>5. QED
    BY <1>4, <2>1, <2>2, <2>3, <2>4, Zenon
<1>10. ASSUME NEW k \in 0..(n - 1), k \in G
       PROVE  k + 1 \in G
  <2>1. PICK c : c = 32 * P(k)
    BY Zenon
  <2>2. PICK p : p = s[k + 1].power
    BY Zenon
  <2>3. k + 1 \in 1..n /\ k + 1 \in 0..n /\ k \in 0..n /\ (k + 1) - 1 = k
    OBVIOUS
  <2>4. P(k + 1) = P(k) + p /\ P(k) \in Nat /\ P(k + 1) \in Nat /\ P(k + 1) <= T
    BY <1>6, <2>2, <2>3, Zenon
  <2>5. p \in Nat
    BY <2>2, <2>3, ZenonT(60) DEF Entry
  <2>6. c \in Nat /\ c + 32 * p <= 32 * T /\ c + 32 * p = 32 * P(k + 1)
    BY <1>6, <2>1, <2>4, <2>5, SMTT(30)
  <2>7. PICK acc, e : acc = f[k] /\ e = s[k + 1]
    BY Zenon
  <2>8. /\ acc.current = c /\ acc.section \in 1..5 /\ InSection(T, acc.section, c)
        /\ acc.weighted = [i \in 1..k |-> w[i]] /\ e.power = p
    BY <1>10, <2>1, <2>2, <2>7, Zenon
  <2>9. PICK r : r = FillSections(T, acc, e)
    BY Zenon
  <2>10. /\ r.current = c + 32 * p
         /\ r.section \in 1..5 /\ InSection(T, r.section, r.current)
         /\ r.weighted = Append(acc.weighted,
              [weight |-> Worth(T, c + 32 * p) - Worth(T, c), price |-> e.price])
    <3>1. Fits(T, acc, e, c, p)
      BY <1>6, <2>5, <2>6, <2>8, Zenon DEF Fits
    <3>2. FilledUp(T, acc, e, c, p, r)
      BY <2>9, <3>1, FillSectionsIs, Zenon
    <3>3. QED
      BY <3>2, Zenon DEF FilledUp
  <2>11. f[k + 1] = r
    BY <1>4, <2>3, <2>7, <2>9, Zenon
  <2>12. w[k + 1] = [weight |-> Worth(T, c + 32 * p) - Worth(T, c), price |-> e.price]
    <3>1. w[k + 1] = [weight |-> Worth(T, 32 * P(k + 1)) - Worth(T, 32 * P((k + 1) - 1)),
                      price |-> s[k + 1].price]
      BY <1>7, <2>3, Zenon DEF WeightsOf, P
    <3>2. QED
      BY <2>1, <2>3, <2>6, <2>7, <3>1, Zenon
  <2>13. Append([i \in 1..k |-> w[i]], w[k + 1]) = [i \in 1..(k + 1) |-> w[i]]
    <3>1. [i \in 1..k |-> w[i]] \in Seq(Weighted) /\ w[k + 1] \in Weighted
      BY <1>8, <2>3
    <3>2. QED
      BY <3>1
  <2>14. r.weighted = [i \in 1..(k + 1) |-> w[i]]
    BY <2>8, <2>10, <2>12, <2>13, Zenon
  <2>15. QED
    BY <2>3, <2>6, <2>10, <2>11, <2>14, Zenon
<1>11. \A k \in 0..n : k \in G
  <2> HIDE DEF G
  <2>1. QED
    BY <1>9, <1>10, UpTo, ZenonT(60)
<1>12. n \in G
  <2>1. n \in 0..n
    OBVIOUS
  <2>2. QED
    BY <1>11, <2>1, Zenon
<1>13. f[n].weighted = [i \in 1..n |-> w[i]]
  BY <1>12, Zenon
<1>14. w = [i \in 1..n |-> w[i]]
  BY <1>8, ZenonT(60)
<1>15. QED
  BY <1>5, <1>7, <1>13, <1>14, Zenon

\* The available entries, and what WeightedPrices makes of them.
LEMMA WeightedPricesAre ==
  ASSUME NEW m \in Nat, NEW s \in [1..m -> Entry]
  PROVE  \E n, valid, order :
           /\ n \in Nat
           /\ valid = OfStatus(s, "available") /\ valid \in [1..n -> Entry]
           /\ \A i \in 1..n : \E j \in 1..m : valid[i] = s[j] /\ s[j].status = "available"
           /\ \A j \in 1..m : s[j].status = "available" => n > 0
           /\ Permutes(order, n)
           /\ StableSort(valid, NewestFirst) = [k \in 1..n |-> valid[order[k]]]
           /\ WeightedPrices(s) = WeightsOf(SumOfPowers(valid), [k \in 1..n |-> valid[order[k]]], n)
           /\ SumOfPowers(valid) = SumOfPowers([k \in 1..n |-> valid[order[k]]])
           /\ SumOfPowers(valid) \in Nat
<1>1. PICK I : I = {i \in DOMAIN s : s[i].status = "available"}
  BY Zenon
<1>2. DOMAIN s = 1..m /\ I \in SUBSET (1..m)
  BY <1>1, Zenon
<1>3. PICK o : /\ IsFiniteSet(I) /\ Cardinality(I) \in Nat
               /\ IsListing(I, {p \in I \X I : p[1] < p[2]}, o)
               /\ Picked(s, I) = [k \in 1..Cardinality(I) |-> s[o[k]]]
  BY <1>2, PickedIs, ZenonT(60)
<1>4. PICK n : n = Cardinality(I)
  BY Zenon
<1>5. n \in Nat
  BY <1>3, <1>4, Zenon
<1>6. \A k \in 1..n : o[k] \in I /\ o[k] \in 1..m /\ s[o[k]].status = "available"
  <2>1. o \in [1..n -> I]
    BY <1>3, <1>4, Zenon DEF IsListing
  <2>2. \A k \in 1..n : o[k] \in I
    BY <2>1, Zenon
  <2>3. QED
    BY <1>1, <1>2, <2>2, Zenon
<1>7. PICK valid : valid = OfStatus(s, "available")
  BY Zenon
<1>8. valid = [k \in 1..n |-> s[o[k]]]
  BY <1>1, <1>3, <1>4, <1>7, Zenon DEF OfStatus
<1>9. valid \in [1..n -> Entry]
  BY <1>6, <1>8, Zenon
<1>10. \A i \in 1..n : \E j \in 1..m : valid[i] = s[j] /\ s[j].status = "available"
  BY <1>6, <1>8, Zenon
<1>11. ASSUME NEW j \in 1..m, s[j].status = "available"
       PROVE  n > 0
  <2>1. j \in I
    BY <1>1, <1>2, <1>11, Zenon
  <2>2. n # 0
    BY <1>3, <1>4, <2>1, FS_EmptySet, Zenon
  <2>3. QED
    BY <1>5, <2>2
<1>12. PICK order : /\ Permutes(order, n)
                    /\ StableSort(valid, NewestFirst) = [k \in 1..n |-> valid[order[k]]]
  BY <1>5, <1>9, NewestPermutes, Zenon
<1>13. PICK sorted : sorted = [k \in 1..n |-> valid[order[k]]]
  BY Zenon
<1>14. \A k \in 1..n : order[k] \in 1..n
  BY <1>12, Zenon DEF Permutes
<1>15. sorted \in [1..n -> Entry]
  BY <1>9, <1>13, <1>14, Zenon
<1>16. SumOfPowers(valid) = SumOfPowers(sorted)
  <2>1. PICK f : f = [i \in 1..n |-> valid[i].power]
    BY Zenon
  <2>2. \A i \in 1..n : f[i] \in Int /\ f[i] = valid[i].power
    BY <1>9, <2>1 DEF Entry
  <2>3. SumOfPowers(valid) = SumFunctionOnSet(f, 1..n)
    <3>1. DOMAIN valid = 1..n
      BY <1>9, Zenon
    <3>2. QED
      BY <2>1, <3>1, Zenon DEF SumOfPowers, PowerOf
  <2>4. SumOfPowers(sorted) = SumFunctionOnSet([k \in 1..n |-> f[order[k]]], 1..n)
    <3>1. DOMAIN sorted = 1..n
      BY <1>13, Zenon
    <3>2. \A k \in 1..n : sorted[k].power = f[order[k]]
      BY <1>13, <1>14, <2>2, Zenon
    <3>3. [k \in 1..n |-> sorted[k].power] = [k \in 1..n |-> f[order[k]]]
      BY <3>2, Zenon
    <3>4. QED
      BY <3>1, <3>3, Zenon DEF SumOfPowers, PowerOf
  <2>5. IsFiniteSet(1..n)
    BY <1>5, FS_Interval
  <2>6. PICK g : g = [k \in 1..n |-> f[order[k]]]
    BY Zenon
  <2>7. 1..n = {order[k] : k \in 1..n}
    BY <1>12, <1>14 DEF Permutes
  <2>8. Renames(order, g, 1..n, f, 1..n)
    <3>1. \A x \in 1..n : g[x] = f[order[x]] /\ g[x] \in Int
      BY <1>14, <2>2, <2>6, Zenon
    <3>2. \A x, y \in 1..n : order[x] = order[y] => x = y
      BY <1>12, Zenon DEF Permutes
    <3>3. QED
      BY <2>7, <3>1, <3>2, Zenon DEF Renames
  <2>9. SumFunctionOnSet(g, 1..n) = SumFunctionOnSet(f, 1..n)
    BY <2>5, <2>8, SumRenamed, SMTT(30)
  <2>10. QED
    BY <2>3, <2>4, <2>6, <2>9, Zenon
<1>17. SumOfPowers(valid) \in Nat
  <2>1. n \in 0..n
    BY <1>5
  <2>2. QED
    BY <1>5, <1>9, <2>1, PowerUpTo, SMTT(30)
<1>18. WeightedPrices(s) = DistributePower(SumOfPowers(valid), sorted)
  BY <1>7, <1>12, <1>13, Zenon DEF WeightedPrices
<1>19. WeightedPrices(s) = WeightsOf(SumOfPowers(valid), sorted, n)
  BY <1>5, <1>15, <1>16, <1>18, DistributePowerIs, Zenon
<1>20. QED
  BY <1>5, <1>7, <1>9, <1>10, <1>11, <1>12, <1>13, <1>16, <1>17, <1>19, ZenonT(60)

-----------------------------------------------------------------------------
(* The median of weighted prices *)

\* Min finds the smallest of finitely many integers, Max the largest.
LEMMA MinMax ==
  ASSUME NEW S \in SUBSET Int, IsFiniteSet(S), S # {}
  PROVE  /\ Min(S) \in S /\ \A y \in S : Min(S) <= y
         /\ Max(S) \in S /\ \A y \in S : Max(S) >= y
<1>1. PICK f, g : f = [x \in S |-> x] /\ g = [x \in S |-> -x]
  BY Zenon
<1>2. \A x \in S : x \in Int
  BY Zenon
<1>3. \A x \in S : f[x] \in Int /\ g[x] \in Int /\ f[x] = x /\ g[x] = -x
  BY <1>1, <1>2
<1>4. PICK a \in S : \A y \in S : f[y] <= f[a]
  BY <1>3, LargestValue, Zenon
<1>5. PICK b \in S : \A y \in S : g[y] <= g[b]
  BY <1>3, LargestValue, Zenon
<1>6. \A y \in S : a >= y /\ b <= y
  BY <1>2, <1>3, <1>4, <1>5
<1>7. Max(S) \in S /\ \A y \in S : Max(S) >= y
  BY <1>6, Zenon DEF Max
<1>8. Min(S) \in S /\ \A y \in S : Min(S) <= y
  BY <1>6, Zenon DEF Min
<1>9. QED
  BY <1>7, <1>8, Zenon

\* v is the sequence w in another order, and f the weights of w.
Sorts(v, f, w, order, n) ==
  /\ v = [i \in 1..n |-> w[order[i]]]
  /\ f = [i \in 1..n |-> w[i].weight]

\* The weight of the first entries, in the sorted order, is that of the entries they stand for.
LEMMA SortedWeight ==
  ASSUME NEW n \in Nat, NEW w \in [1..n -> Weighted], NEW order, Permutes(order, n), NEW k \in 0..n,
         NEW v, NEW f, Sorts(v, f, w, order, n)
  PROVE  WeightAt(v, 1..k) = SumFunctionOnSet(f, {order[i] : i \in 1..k})
<1>1. f = [i \in 1..n |-> w[i].weight]
  BY Zenon DEF Sorts
<1>2. v = [i \in 1..n |-> w[order[i]]]
  BY Zenon DEF Sorts
<1>3. PICK g : g = [i \in 1..n |-> v[i].weight]
  BY Zenon
<1>4. WeightAt(v, 1..k) = SumFunctionOnSet(g, 1..k)
  <2>1. DOMAIN v = 1..n
    BY <1>2, Zenon
  <2>2. QED
    BY <1>3, <2>1, Zenon DEF WeightAt
<1>5. \A i \in 1..n : order[i] \in 1..n
  BY Zenon DEF Permutes
<1>6. \A i \in 1..n : w[i].weight \in Int
  BY DEF Weighted
<1>7. \A i \in 1..n : g[i] = f[order[i]] /\ g[i] \in Int
  BY <1>1, <1>2, <1>3, <1>5, <1>6, Zenon
<1>8. PICK S : S = 1..k
  BY Zenon
<1>9. S \in SUBSET (1..n) /\ IsFiniteSet(S)
  BY <1>8, FS_Interval
<1>10. Renames(order, g, S, f, {order[i] : i \in S})
  <2>1. \A x, y \in S : order[x] = order[y] => x = y
    BY <1>9, Zenon DEF Permutes
  <2>2. \A x \in S : g[x] = f[order[x]] /\ g[x] \in Int
    BY <1>7, <1>9, Zenon
  <2>3. QED
    BY <2>1, <2>2, Zenon DEF Renames
<1>11. SumFunctionOnSet(g, S) = SumFunctionOnSet(f, {order[i] : i \in S})
  <2>1. PICK R : R = {order[i] : i \in S}
    BY Zenon
  <2>2. Renames(order, g, S, f, R)
    BY <1>10, <2>1, Zenon
  <2>3. SumFunctionOnSet(g, S) = SumFunctionOnSet(f, R)
    BY <1>9, <2>2, SumRenamed, SMTT(30)
  <2>4. QED
    BY <2>1, <2>3, Zenon
<1>12. QED
  BY <1>1, <1>2, <1>4, <1>8, <1>11, Zenon

\* The entries that report no more than entry q.
UpToPrice(w, n, q) == {i \in 1..n : w[i].price <= w[q].price}

\* Half of the weight, which f gives, lies in S.
HalfIn(f, n, S) == 2 * SumFunctionOnSet(f, S) >= SumFunctionOnSet(f, 1..n)

\* The median of the prices in w: the lowest one up to which half of the weight lies.
IsMedian(w, n, f, median) ==
  \E q \in 1..n :
    /\ median = w[q].price
    /\ HalfIn(f, n, UpToPrice(w, n, q))
    /\ \A i \in 1..n : HalfIn(f, n, UpToPrice(w, n, i)) => median <= w[i].price

\* Without prices there is no median.
LEMMA NoMedian == ASSUME NEW w \in [1..0 -> Weighted] PROVE MedianWeightedPrice(w) = InvalidWeightedPrices
<1>1. 0 \in Nat /\ 1..0 = {}
  OBVIOUS
<1>2. PICK order : StableSort(w, LowestFirst) = [k \in 1..0 |-> w[order[k]]]
  BY <1>1, LowestPermutes, Zenon
<1>3. DOMAIN StableSort(w, LowestFirst) = {}
  BY <1>1, <1>2, Zenon
<1>4. QED
  BY <1>3, Zenon DEF MedianWeightedPrice

\* The walk over the sorted prices finds it.
LEMMA MedianWeightedPriceIs ==
  ASSUME NEW n \in Nat, NEW w \in [1..n -> Weighted], n > 0
  PROVE  IsMedian(w, n, [i \in 1..n |-> w[i].weight], MedianWeightedPrice(w))
<1> DEFINE f == [i \in 1..n |-> w[i].weight]
           Up(q) == {i \in 1..n : w[i].price <= w[q].price}
           Sum(S) == SumFunctionOnSet(f, S)
<1>1. PICK order : /\ Permutes(order, n)
                   /\ StableSort(w, LowestFirst) = [k \in 1..n |-> w[order[k]]]
                   /\ \A i, j \in 1..n : i < j => w[order[i]].price <= w[order[j]].price
  BY LowestPermutes, Zenon
<1>2. PICK v : v = [k \in 1..n |-> w[order[k]]]
  BY Zenon
<1>3. DOMAIN v = 1..n
  BY <1>2, Zenon
<1> DEFINE First(k) == {order[i] : i \in 1..k}
<1>4. \A k \in 0..n : WeightAt(v, 1..k) = Sum(First(k))
  <2>1. PICK g : g = f
    BY Zenon
  <2>2. Sorts(v, g, w, order, n)
    BY <1>2, <2>1, Zenon DEF Sorts
  <2>3. Permutes(order, n)
    BY <1>1, Zenon
  <2>4. \A k \in 0..n : WeightAt(v, 1..k) = SumFunctionOnSet(g, First(k))
    BY <2>2, <2>3, SortedWeight, SMTT(30)
  <2>5. QED
    BY <2>1, <2>4, Zenon
<1>5. \A i \in 1..n : order[i] \in 1..n
  BY <1>1, Zenon DEF Permutes
<1>6. First(n) = 1..n
  <2>1. \A x \in First(n) : x \in 1..n
    BY <1>5, Zenon
  <2>2. ASSUME NEW x \in 1..n
        PROVE  x \in First(n)
    <3>1. PICK i \in 1..n : order[i] = x
      BY <1>1, Zenon DEF Permutes
    <3>2. QED
      BY <3>1, Zenon
  <2>3. QED
    BY <2>1, <2>2, Zenon
<1>7. IsFiniteSet(1..n) /\ \A i \in 1..n : f[i] \in Nat
  BY FS_Interval DEF Weighted
<1>8. \A i \in 1..n : w[i].price \in Nat
  BY ZenonT(60) DEF Weighted
<1> HIDE DEF f
<1>9. ASSUME NEW S \in SUBSET (1..n), NEW R \in SUBSET S
      PROVE  Sum(S) \in Nat /\ Sum(R) \in Nat /\ Sum(R) <= Sum(S)
  <2>1. IsFiniteSet(S) /\ IsFiniteSet(R) /\ (\A i \in S : f[i] \in Nat) /\ \A i \in R : f[i] \in Nat
    BY <1>7, <1>9, FS_Subset, Zenon
  <2>2. Sum(S) \in Nat /\ Sum(R) \in Nat
    BY <2>1, SumNat, Zenon
  <2>3. Sum(R) <= Sum(S)
    BY <2>1, SumSubset, Zenon
  <2>4. QED
    BY <2>2, <2>3, Zenon
<1>10. PICK all : all = Sum(1..n)
  BY Zenon
<1>11. all \in Nat
  BY <1>9, <1>10, Zenon
<1>12. PICK reached : reached = {i \in DOMAIN v : 2 * WeightAt(v, 1..i) >= WeightAt(v, DOMAIN v)}
  BY Zenon
<1>13. \A i \in 1..n : i \in reached <=> 2 * Sum(First(i)) >= all
  <2>1. n \in 0..n /\ \A i \in 1..n : i \in 0..n
    OBVIOUS
  <2>2. WeightAt(v, DOMAIN v) = all
    BY <1>3, <1>4, <1>6, <1>10, <2>1, Zenon
  <2>3. QED
    BY <1>3, <1>4, <1>12, <2>1, <2>2, Zenon
<1>14. reached \in SUBSET (1..n)
  BY <1>3, <1>12, Zenon
<1>15. n \in reached
  <2>1. n \in 1..n /\ 2 * all >= all
    BY <1>11
  <2>2. QED
    BY <1>6, <1>10, <1>13, <2>1, Zenon
<1>16. PICK k : k = Min(reached)
  BY Zenon
<1>17. k \in reached /\ \A y \in reached : k <= y
  <2>1. reached \in SUBSET Int
    BY <1>14
  <2>2. IsFiniteSet(reached) /\ reached # {}
    BY <1>7, <1>14, <1>15, FS_Subset, Zenon
  <2>3. QED
    BY <1>16, <2>1, <2>2, MinMax, Zenon
<1>18. PICK q : q = order[k]
  BY Zenon
<1>19. k \in 1..n /\ q \in 1..n
  BY <1>5, <1>14, <1>17, <1>18, Zenon
<1>20. PICK median : median = MedianWeightedPrice(w)
  BY Zenon
<1>21. median = w[q].price
  <2>1. MedianWeightedPrice(w) = v[Min(reached)].price
    <3>1. reached # {}
      BY <1>15, Zenon
    <3>2. QED
      BY <1>1, <1>2, <1>12, <3>1, Zenon DEF MedianWeightedPrice
  <2>2. v[k] = w[order[k]]
    BY <1>2, <1>19, Zenon
  <2>3. QED
    BY <1>16, <1>18, <1>20, <2>1, <2>2, Zenon
<1>22. 2 * Sum(Up(q)) >= all
  <2>1. First(k) \in SUBSET Up(q)
    <3>1. ASSUME NEW i \in 1..k
          PROVE  order[i] \in 1..n /\ w[order[i]].price <= w[q].price
      <4>1. i \in 1..n
        BY <1>19
      <4>2. CASE i < k
        BY <1>1, <1>5, <1>18, <1>19, <4>1, <4>2, ZenonT(60)
      <4>3. CASE i = k
        BY <1>8, <1>18, <1>19, <4>3, SMTT(30)
      <4>4. i < k \/ i = k
        BY <1>19
      <4>5. QED
        BY <4>2, <4>3, <4>4, <4>1, <1>5, ZenonT(60)
    <3>2. QED
      BY <3>1, Zenon
  <2>2. Up(q) \in SUBSET (1..n)
    BY Zenon
  <2>3. PICK S, R : S = Up(q) /\ R = First(k)
    BY Zenon
  <2>4. Sum(S) \in Nat /\ Sum(R) \in Nat /\ Sum(R) <= Sum(S)
    BY <1>9, <2>1, <2>2, <2>3, Zenon
  <2>5. 2 * Sum(R) >= all
    BY <1>13, <1>17, <1>19, <2>3, Zenon
  <2>6. 2 * Sum(S) >= all
    BY <1>11, <2>4, <2>5, SMTT(30)
  <2>7. QED
    BY <2>3, <2>6, Zenon
<1>23. ASSUME NEW i \in 1..n, 2 * Sum(Up(i)) >= all
       PROVE  w[q].price <= w[i].price
  <2>1. SUFFICES ASSUME w[i].price < w[q].price PROVE FALSE
    BY <1>8, <1>19, SMTT(30)
  <2>2. Up(i) \in SUBSET First(k - 1) /\ k - 1 \in 1..n
    <3>1. ASSUME NEW j \in Up(i)
          PROVE  \E x \in 1..(k - 1) : order[x] = j
      <4>1. j \in 1..n /\ w[j].price <= w[i].price
        BY Zenon
      <4>2. PICK x \in 1..n : order[x] = j
        BY <1>1, <4>1, Zenon DEF Permutes
      <4>3. ~(w[q].price <= w[j].price)
        BY <1>8, <1>19, <2>1, <4>1, SMTT(30)
      <4>4. ~(k < x) /\ x # k
        <5>1. x # k
          BY <1>8, <1>18, <1>19, <4>2, <4>3, SMTT(30)
        <5>2. ~(k < x)
          BY <1>1, <1>18, <1>19, <4>2, <4>3, ZenonT(60)
        <5>3. QED
          BY <5>1, <5>2, Zenon
      <4>5. x \in 1..(k - 1)
        BY <1>19, <4>4
      <4>6. QED
        BY <4>2, <4>5, Zenon
    <3>2. Up(i) \in SUBSET First(k - 1)
      BY <3>1, Zenon
    <3>3. i \in Up(i)
      BY <1>8
    <3>4. PICK x \in 1..(k - 1) : order[x] = i
      BY <3>1, <3>3, Zenon
    <3>5. k - 1 \in 1..n
      BY <1>19, <3>4
    <3>6. QED
      BY <3>2, <3>5, Zenon
  <2>3. First(k - 1) \in SUBSET (1..n)
    <3>1. \A x \in 1..(k - 1) : x \in 1..n
      BY <2>2
    <3>2. QED
      BY <1>5, <3>1, Zenon
  <2>4. PICK S, R : S = First(k - 1) /\ R = Up(i)
    BY Zenon
  <2>5. Sum(S) \in Nat /\ Sum(R) \in Nat /\ Sum(R) <= Sum(S)
    BY <1>9, <2>2, <2>3, <2>4, Zenon
  <2>6. 2 * Sum(R) >= all
    BY <1>23, <2>4, Zenon
  <2>7. 2 * Sum(S) >= all
    BY <1>11, <2>5, <2>6
  <2>8. k - 1 \in reached
    BY <1>13, <2>2, <2>4, <2>7, Zenon
  <2>9. k <= k - 1
    BY <1>17, <2>8, Zenon
  <2>10. QED
    BY <1>19, <2>9
<1>24. QED
  BY <1>10, <1>19, <1>20, <1>21, <1>22, <1>23, ZenonT(60) DEF IsMedian, UpToPrice, HalfIn, f

-----------------------------------------------------------------------------
(* What some of the entries weigh *)

\* f are the weights that the entries s get when their total power is T.
Weighs(T, n, s, f) ==
  T \in Nat /\ s \in [1..n -> Entry] /\ f = [i \in 1..n |-> WeightsOf(T, s, n)[i].weight]

\* All entries together weigh what the whole power is worth; some of them, wherever they
\* are in the order, weigh at most what their power is worth when it is the newest.
LEMMA WeightBounds ==
  ASSUME NEW T, NEW n \in Nat, NEW s, NEW f, Weighs(T, n, s, f), NEW C \in SUBSET (1..n)
  PROVE  /\ SumFunctionOnSet(f, 1..n) = Worth(T, 32 * PowerOf(s, 1..n))
         /\ SumFunctionOnSet(f, C) <= Worth(T, 32 * PowerOf(s, C))
<1> DEFINE D(k) == C \cap 1..k
           Sum(S) == SumFunctionOnSet(f, S)
           G == {k \in 0..n : /\ Sum(1..k) = Worth(T, 32 * PowerOf(s, 1..k))
                              /\ Sum(D(k)) <= Worth(T, 32 * PowerOf(s, D(k)))}
<1>1. T \in Nat /\ s \in [1..n -> Entry]
  BY Zenon DEF Weighs
<1>2. PICK g : g = [i \in DOMAIN s |-> s[i].power]
  BY Zenon
<1>3. \A S : PowerOf(s, S) = SumFunctionOnSet(g, S)
  BY <1>2, Zenon DEF PowerOf
<1>4. \A i \in 1..n : g[i] = s[i].power /\ g[i] \in Nat
  BY <1>1, <1>2, ZenonT(60) DEF Entry
<1>5. \A i \in 1..n : f[i] = WeightsOf(T, s, n)[i].weight /\ f[i] \in Nat
  <2>1. PICK w : w = WeightsOf(T, s, n)
    BY Zenon
  <2>2. w \in [1..n -> Weighted]
    BY <1>1, <2>1, WeightsType, Zenon
  <2>3. f = [i \in 1..n |-> w[i].weight]
    BY <2>1, Zenon DEF Weighs
  <2>4. \A i \in 1..n : f[i] = w[i].weight /\ f[i] \in Nat
    BY <2>2, <2>3, ZenonT(60) DEF Weighted
  <2>5. QED
    BY <2>1, <2>4, Zenon
<1>6. \A i \in 1..n : f[i] = Worth(T, 32 * PowerOf(s, 1..i)) - Worth(T, 32 * PowerOf(s, 1..(i - 1)))
  BY <1>5, ZenonT(60) DEF WeightsOf
<1>7. IsFiniteSet(1..n)
  BY FS_Interval
<1>8. ASSUME NEW S \in SUBSET (1..n)
      PROVE  /\ IsFiniteSet(S) /\ (\A i \in S : f[i] \in Int) /\ \A i \in S : g[i] \in Int
             /\ Sum(S) \in Nat /\ SumFunctionOnSet(g, S) \in Nat
  <2>1. IsFiniteSet(S) /\ (\A i \in S : f[i] \in Nat) /\ \A i \in S : g[i] \in Nat
    BY <1>4, <1>5, <1>7, <1>8, FS_Subset, Zenon
  <2>2. Sum(S) \in Nat /\ SumFunctionOnSet(g, S) \in Nat
    BY <2>1, SumNat, Zenon
  <2>3. \A x \in Nat : x \in Int
    OBVIOUS
  <2>4. QED
    BY <2>1, <2>2, <2>3, Zenon
<1>9. 0 \in G
  <2>1. 1..0 = {} /\ D(0) = {} /\ 0 \in 0..n
    OBVIOUS
  <2>2. Sum({}) = 0 /\ PowerOf(s, {}) = 0
    BY <1>3, SumEmpty, Zenon
  <2>3. Worth(T, 32 * 0) = 0
    BY <1>1 DEF Worth
  <2>4. Sum(1..0) = Worth(T, 32 * PowerOf(s, 1..0))
    BY <2>1, <2>2, <2>3, Zenon
  <2>5. PICK a, b : a = Sum(D(0)) /\ b = Worth(T, 32 * PowerOf(s, D(0)))
    BY Zenon
  <2>6. a = 0 /\ b = 0
    BY <2>1, <2>2, <2>3, <2>5, Zenon
  <2>7. a <= b
    BY <2>6
  <2>8. QED
    BY <2>1, <2>4, <2>5, <2>7, Zenon
<1>10. ASSUME NEW k \in 0..(n - 1), k \in G
      PROVE  k + 1 \in G
  <2>1. PICK m : m = k + 1
    BY Zenon
  <2>2. m \in 1..n /\ m \in 0..n /\ k \in 0..n /\ m - 1 = k
    BY <2>1
  <2>3. 1..m = (1..k) \cup {m} /\ m \notin 1..k /\ 1..k \in SUBSET (1..n)
    BY <2>1
  <2>4. PICK P, Q, p : P = PowerOf(s, 1..m) /\ Q = PowerOf(s, 1..k) /\ p = s[m].power
    BY Zenon
  <2>5. P \in Nat /\ Q \in Nat /\ p \in Nat /\ P = Q + p
    <3>1. P \in Nat /\ Q \in Nat /\ P = Q + p
      BY <1>1, <2>2, <2>4, PowerUpTo, Zenon
    <3>2. p \in Nat
      BY <1>4, <2>2, <2>4, Zenon
    <3>3. QED
      BY <3>1, <3>2, Zenon
  <2>6. PICK u, v : u = Worth(T, 32 * P) /\ v = Worth(T, 32 * Q)
    BY Zenon
  <2>7. u \in Nat /\ v \in Nat
    BY <1>1, <2>5, <2>6 DEF Worth
  <2>8. f[m] = u - v
    BY <1>6, <2>2, <2>4, <2>6, Zenon
  <2>9. Sum(1..k) = v
    BY <1>10, <2>4, <2>6, Zenon
  <2>10. Sum(1..m) = u
    <3>1. f[m] \in Int /\ IsFiniteSet(1..k) /\ \A i \in 1..k : f[i] \in Int
      <4>1. f[m] \in Int
        BY <2>7, <2>8
      <4>2. QED
        BY <1>8, <2>3, <4>1, Zenon
    <3>2. Sum((1..k) \cup {m}) = f[m] + Sum(1..k)
      BY <2>3, <3>1, SumAdd, Zenon
    <3>3. f[m] + v = u
      BY <2>7, <2>8
    <3>4. QED
      BY <2>3, <2>9, <3>2, <3>3, Zenon
  <2>11. PICK A, B : A = D(k) /\ B = D(m)
    BY Zenon
  <2>12. A \in SUBSET (1..n) /\ A \in SUBSET (1..k) /\ B \in SUBSET (1..n)
    BY <2>2, <2>11, ZenonT(60)
  <2>13. PICK x, y : x = SumFunctionOnSet(g, A) /\ y = SumFunctionOnSet(g, B)
    BY Zenon
  <2>14. x \in Nat /\ y \in Nat
    BY <1>8, <2>12, <2>13, Zenon
  <2>15. PICK a, b : a = Sum(A) /\ b = Sum(B)
    BY Zenon
  <2>16. a \in Nat /\ b \in Nat /\ a <= Worth(T, 32 * x)
    BY <1>3, <1>8, <1>10, <2>11, <2>12, <2>13, <2>15, ZenonT(60)
  <2>17. b <= Worth(T, 32 * y)
    <3>1. CASE m \notin C
      <4>1. B = A
        BY <2>3, <2>11, <3>1, ZenonT(60)
      <4>2. QED
        BY <2>13, <2>15, <2>16, <4>1, Zenon
    <3>2. CASE m \in C
      <4>1. B = A \cup {m} /\ m \notin A
        BY <2>3, <2>11, <3>2, ZenonT(60)
      <4>2. IsFiniteSet(A) /\ (\A i \in A : f[i] \in Int) /\ \A i \in A : g[i] \in Int
        BY <1>8, <2>12, Zenon
      <4>3. f[m] \in Int /\ g[m] \in Int /\ g[m] = p
        BY <1>4, <2>2, <2>4, <2>5, <2>7, <2>8, SMTT(30)
      <4>4. b = f[m] + a
        BY <2>15, <4>1, <4>2, <4>3, SumAdd, Zenon
      <4>5. y = g[m] + x
        BY <2>13, <4>1, <4>2, <4>3, SumAdd, ZenonT(60)
      <4>6. x <= Q
        <5>1. \A i \in 1..k : g[i] \in Nat
          BY <1>4, <2>3, Zenon
        <5>2. IsFiniteSet(1..k)
          BY <1>8, <2>3, Zenon
        <5>3. PICK S : S = 1..k
          BY Zenon
        <5>4. A \in SUBSET S /\ IsFiniteSet(S) /\ \A i \in S : g[i] \in Nat
          BY <2>12, <5>1, <5>2, <5>3, Zenon
        <5>5. SumFunctionOnSet(g, A) <= SumFunctionOnSet(g, S)
          BY <5>4, SumSubset, Zenon
        <5>6. QED
          BY <1>3, <2>4, <2>13, <5>3, <5>5, ZenonT(60)
      <4>7. PICK e, h, l : e = 32 * x /\ h = 32 * Q /\ l = 32 * p
        BY Zenon
      <4>8. e \in Nat /\ h \in Nat /\ l \in Nat /\ e <= h /\ h + l = 32 * P /\ e + l = 32 * y
        BY <2>5, <2>14, <4>3, <4>5, <4>6, <4>7, SMTT(30)
      <4>9. /\ Worth(T, h + l) - Worth(T, h) <= Worth(T, e + l) - Worth(T, e)
            /\ Worth(T, e) \in Nat
        BY <1>1, <4>8, WorthFacts, Zenon
      <4>10. PICK i, j : i = Worth(T, e) /\ j = Worth(T, e + l)
        BY Zenon
      <4>11. i \in Nat /\ j \in Nat
        BY <1>1, <4>8, <4>10 DEF Worth
      <4>12. u - v <= j - i /\ a <= i
        BY <2>6, <2>16, <4>7, <4>8, <4>9, <4>10, ZenonT(60)
      <4>13. b <= j
        BY <2>7, <2>8, <2>16, <4>4, <4>11, <4>12, SMTT(30)
      <4>14. QED
        BY <4>8, <4>10, <4>13, Zenon
    <3>3. QED
      BY <3>1, <3>2, Zenon
  <2>18. Sum(1..m) = Worth(T, 32 * PowerOf(s, 1..m))
    BY <2>4, <2>6, <2>10, Zenon
  <2>19. Sum(D(m)) <= Worth(T, 32 * PowerOf(s, D(m)))
    BY <1>3, <2>11, <2>13, <2>15, <2>17, Zenon
  <2>20. QED
    BY <2>1, <2>2, <2>18, <2>19, Zenon
<1>11. n \in 0..n /\ D(n) = C
  <2>1. n \in 0..n
    OBVIOUS
  <2>2. D(n) = C
    BY Zenon
  <2>3. QED
    BY <2>1, <2>2, Zenon
<1> HIDE DEF G
<1>12. n \in G
  BY <1>9, <1>10, <1>11, UpTo, Zenon
<1>13. QED
  BY <1>11, <1>12, Zenon DEF G

\* Entries with at most a quarter of the power have less than half of the weight.
LEMMA QuarterIsLessThanHalf ==
  ASSUME NEW T, NEW n \in Nat, NEW s, NEW f, Weighs(T, n, s, f), NEW C \in SUBSET (1..n),
         T = SumOfPowers(s), T > 0, 4 * PowerOf(s, C) <= T
  PROVE  2 * SumFunctionOnSet(f, C) < SumFunctionOnSet(f, 1..n)
<1>1. s \in [1..n -> Entry]
  BY Zenon DEF Weighs
<1>2. PICK a, b, x : a = SumFunctionOnSet(f, C) /\ b = SumFunctionOnSet(f, 1..n) /\ x = PowerOf(s, C)
  BY Zenon
<1>3. T \in Nat /\ T = PowerOf(s, 1..n)
  <2>1. n \in 0..n
    OBVIOUS
  <2>2. QED
    BY <1>1, <2>1, PowerUpTo, ZenonT(60)
<1>4. b = Worth(T, 32 * T) /\ a <= Worth(T, 32 * x)
  <2>1. /\ SumFunctionOnSet(f, 1..n) = Worth(T, 32 * PowerOf(s, 1..n))
        /\ SumFunctionOnSet(f, C) <= Worth(T, 32 * PowerOf(s, C))
    BY WeightBounds, Zenon
  <2>2. QED
    BY <1>2, <1>3, <2>1, ZenonT(60)
<1>5. x \in Nat
  <2>1. PICK g : g = [i \in DOMAIN s |-> s[i].power]
    BY Zenon
  <2>2. x = SumFunctionOnSet(g, C)
    BY <1>2, <2>1, Zenon DEF PowerOf
  <2>3. \A i \in C : g[i] \in Nat
    BY <1>1, <2>1, ZenonT(60) DEF Entry
  <2>4. IsFiniteSet(C)
    <3>1. IsFiniteSet(1..n)
      BY FS_Interval
    <3>2. QED
      BY <3>1, FS_Subset, Zenon
  <2>5. QED
    BY <2>2, <2>3, <2>4, SumNat, Zenon
<1>6. a \in Nat
  <2>1. WeightsOf(T, s, n) \in [1..n -> Weighted]
    BY <1>1, <1>3, WeightsType, Zenon
  <2>2. \A i \in C : f[i] \in Nat
    BY <2>1, ZenonT(60) DEF Weighted, Weighs
  <2>3. IsFiniteSet(C)
    <3>1. IsFiniteSet(1..n)
      BY FS_Interval
    <3>2. QED
      BY <3>1, FS_Subset, Zenon
  <2>4. QED
    BY <1>2, <2>2, <2>3, SumNat, Zenon
<1>7. b = 478 * T
  <2>1. Worth(T, 32 * T) = 478 * T
    BY <1>3, SMTT(30) DEF Worth
  <2>2. QED
    BY <1>4, <2>1, Zenon
<1>8. Worth(T, 32 * x) <= 231 * T
  <2>1. 4 * x <= T
    BY <1>2, Zenon
  <2>2. PICK y, z : y = 32 * x /\ z = 8 * T
    BY Zenon
  <2>3. y \in Nat /\ z \in Nat /\ y <= z /\ 0 \in Nat
    BY <1>3, <1>5, <2>1, <2>2
  <2>4. Worth(T, y) <= Worth(T, z)
    BY <1>3, <2>3, WorthFacts, Zenon
  <2>5. Worth(T, z) = 231 * T
    BY <1>3, <2>2, SMTT(30) DEF Worth
  <2>6. QED
    BY <2>2, <2>4, <2>5, Zenon
<1>9. Worth(T, 32 * x) \in Nat
  <2>1. \A y \in Nat : Worth(T, y) \in Nat
    <3>1. \A y \in Nat : y <= y /\ 0 \in Nat
      OBVIOUS
    <3>2. QED
      BY <1>3, <3>1, WorthFacts, Zenon
  <2>2. 32 * x \in Nat
    BY <1>5
  <2>3. QED
    BY <2>1, <2>2, Zenon
<1>10. 2 * a < b
  BY <1>3, <1>4, <1>6, <1>7, <1>8, <1>9, SMTT(30)
<1>11. QED
  BY <1>2, <1>10, Zenon

-----------------------------------------------------------------------------
(* The median of the validators' prices *)

\* The n available entries of s, newest first, with their weights f and their median.
MedianOf(s, n, order, sorted, f, median) ==
  LET valid == OfStatus(s, "available") IN
  /\ n \in Nat /\ valid \in [1..n -> Entry] /\ sorted \in [1..n -> Entry] /\ Permutes(order, n)
  /\ sorted = [k \in 1..n |-> valid[order[k]]] /\ StableSort(valid, NewestFirst) = sorted
  /\ Weighs(SumOfPowers(valid), n, sorted, f) /\ SumOfPowers(valid) = SumOfPowers(sorted)
  /\ n = 0 => median = InvalidWeightedPrices
  /\ n > 0 => IsMedian(sorted, n, f, median)

\* MedianValidatorPriceInfos computes that median, and the entries come from s.
LEMMA MedianValidatorPriceInfosIs ==
  ASSUME NEW m \in Nat, NEW s \in [1..m -> Entry]
  PROVE  \E n, order, sorted, f :
           /\ MedianOf(s, n, order, sorted, f, MedianValidatorPriceInfos(s))
           /\ \A i \in 1..n : \E j \in 1..m : sorted[i] = s[j] /\ s[j].status = "available"
           /\ \A j \in 1..m : s[j].status = "available" => n > 0
<1>1. PICK n, valid, order :
           /\ n \in Nat
           /\ valid = OfStatus(s, "available") /\ valid \in [1..n -> Entry]
           /\ \A i \in 1..n : \E j \in 1..m : valid[i] = s[j] /\ s[j].status = "available"
           /\ \A j \in 1..m : s[j].status = "available" => n > 0
           /\ Permutes(order, n)
           /\ StableSort(valid, NewestFirst) = [k \in 1..n |-> valid[order[k]]]
           /\ WeightedPrices(s) = WeightsOf(SumOfPowers(valid), [k \in 1..n |-> valid[order[k]]], n)
           /\ SumOfPowers(valid) = SumOfPowers([k \in 1..n |-> valid[order[k]]])
           /\ SumOfPowers(valid) \in Nat
  BY WeightedPricesAre, Zenon
<1>2. n \in Nat
  BY <1>1, Zenon
<1>3. PICK sorted, T : sorted = [k \in 1..n |-> valid[order[k]]] /\ T = SumOfPowers(valid)
  BY Zenon
<1>4. \A k \in 1..n : order[k] \in 1..n /\ sorted[k] = valid[order[k]]
  BY <1>1, <1>3, Zenon DEF Permutes
<1>5. sorted \in [1..n -> Entry]
  <2>1. \A k \in 1..n : valid[order[k]] \in Entry
    BY <1>1, <1>4, Zenon
  <2>2. QED
    BY <1>3, <2>1, Zenon
<1>6. PICK w, f : w = WeightsOf(T, sorted, n) /\ f = [i \in 1..n |-> w[i].weight]
  BY Zenon
<1>7. T \in Nat /\ w \in [1..n -> Weighted] /\ WeightedPrices(s) = w
  <2>1. T \in Nat /\ WeightedPrices(s) = w
    BY <1>1, <1>3, <1>6, Zenon
  <2>2. WeightsOf(T, sorted, n) \in [1..n -> Weighted]
    BY <1>2, <1>5, <2>1, WeightsType, Zenon
  <2>3. QED
    BY <1>6, <2>1, <2>2, Zenon
<1>8. Weighs(T, n, sorted, f)
  BY <1>5, <1>6, <1>7, Zenon DEF Weighs
<1>9. PICK median : median = MedianValidatorPriceInfos(s)
  BY Zenon
<1>10. median = MedianWeightedPrice(w)
  BY <1>7, <1>9, Zenon DEF MedianValidatorPriceInfos
<1>11. n = 0 => median = InvalidWeightedPrices
  BY <1>7, <1>10, NoMedian, Zenon
<1>12. ASSUME n > 0
       PROVE  IsMedian(sorted, n, f, median)
  <2>1. IsMedian(w, n, f, median)
    BY <1>2, <1>6, <1>7, <1>10, <1>12, MedianWeightedPriceIs, Zenon
  <2>2. \A i \in 1..n : w[i].price = sorted[i].price
    BY <1>6, ZenonT(60) DEF WeightsOf
  <2>3. \A q \in 1..n : UpToPrice(w, n, q) = UpToPrice(sorted, n, q)
    BY <2>2, Zenon DEF UpToPrice
  <2>4. PICK q \in 1..n :
          /\ median = w[q].price
          /\ HalfIn(f, n, UpToPrice(w, n, q))
          /\ \A i \in 1..n : HalfIn(f, n, UpToPrice(w, n, i)) => median <= w[i].price
    BY <2>1, Zenon DEF IsMedian
  <2>5. median = sorted[q].price /\ HalfIn(f, n, UpToPrice(sorted, n, q))
    BY <2>2, <2>3, <2>4, Zenon
  <2>6. ASSUME NEW i \in 1..n, HalfIn(f, n, UpToPrice(sorted, n, i))
        PROVE  median <= sorted[i].price
    BY <2>2, <2>3, <2>4, <2>6, Zenon
  <2>7. QED
    BY <2>5, <2>6, Zenon DEF IsMedian
<1>13. MedianOf(s, n, order, sorted, f, median)
  <2>1. /\ valid = OfStatus(s, "available") /\ valid \in [1..n -> Entry] /\ Permutes(order, n)
        /\ StableSort(valid, NewestFirst) = sorted
        /\ T = SumOfPowers(sorted)
    BY <1>1, <1>3, Zenon
  <2>2. QED
    BY <1>2, <1>3, <1>5, <1>8, <1>11, <1>12, <2>1, Zenon DEF MedianOf
<1>14. \A i \in 1..n : \E j \in 1..m : sorted[i] = s[j] /\ s[j].status = "available"
  <2>1. \A i \in 1..n : \E j \in 1..m : valid[i] = s[j] /\ s[j].status = "available"
    BY <1>1, Zenon
  <2>2. ASSUME NEW i \in 1..n
        PROVE  \E j \in 1..m : sorted[i] = s[j] /\ s[j].status = "available"
    <3>1. PICK k \in 1..n : sorted[i] = valid[k]
      BY <1>4, Zenon
    <3>2. PICK j \in 1..m : valid[k] = s[j] /\ s[j].status = "available"
      BY <2>1, Zenon
    <3>3. QED
      BY <3>1, <3>2, Zenon
  <2>3. QED
    BY <2>2, Zenon
<1>15. \A j \in 1..m : s[j].status = "available" => n > 0
  BY <1>1, Zenon
<1>16. MedianOf(s, n, order, sorted, f, MedianValidatorPriceInfos(s))
  BY <1>9, <1>13, Zenon
<1>17. QED
  BY <1>14, <1>15, <1>16, ZenonT(60)

\* MedianValidatorPriceInfos fails only when no entry is available, and otherwise returns
\* the price of an available entry.
LEMMA MedianIsReported ==
  ASSUME NEW m \in Nat, NEW s \in [1..m -> Entry]
  PROVE  /\ \A j \in 1..m : s[j].status = "available" =>
              \E i \in 1..m : s[i].status = "available" /\ MedianValidatorPriceInfos(s) = s[i].price
         /\ (\A j \in 1..m : s[j].status # "available") =>
              MedianValidatorPriceInfos(s) = InvalidWeightedPrices
<1>1. PICK n, order, sorted, f :
           /\ MedianOf(s, n, order, sorted, f, MedianValidatorPriceInfos(s))
           /\ \A i \in 1..n : \E j \in 1..m : sorted[i] = s[j] /\ s[j].status = "available"
           /\ \A j \in 1..m : s[j].status = "available" => n > 0
  BY MedianValidatorPriceInfosIs, Zenon
<1>2. PICK median : median = MedianValidatorPriceInfos(s)
  BY Zenon
<1>3. n \in Nat /\ (n = 0 => median = InvalidWeightedPrices) /\ (n > 0 => IsMedian(sorted, n, f, median))
  BY <1>1, <1>2, Zenon DEF MedianOf
<1>4. n > 0 => \E i \in 1..m : s[i].status = "available" /\ median = s[i].price
  <2>1. SUFFICES ASSUME n > 0 PROVE \E i \in 1..m : s[i].status = "available" /\ median = s[i].price
    BY Zenon
  <2>2. PICK q \in 1..n : median = sorted[q].price
    BY <1>3, <2>1, Zenon DEF IsMedian
  <2>3. QED
    BY <1>1, <2>2, Zenon
<1>5. n = 0 \/ n > 0
  BY <1>3
<1>6. QED
  BY <1>1, <1>2, <1>3, <1>4, <1>5, Zenon

\* Positions are finitely many.
LEMMA PositionsFinite == ASSUME NEW n \in Nat PROVE IsFiniteSet(1..n)
  BY FS_Interval

\* v is the sequence of entries valid in another order.
Reorders(v, valid, order, n) ==
  valid \in [1..n -> Entry] /\ Permutes(order, n) /\ v = [k \in 1..n |-> valid[order[k]]]

\* Where the entries at the positions C are after that.
MovedTo(C, order, n) == {k \in 1..n : order[k] \in C}

\* The entries of C, as positions of the sorted entries, have the power of C.
LEMMA PowerSorted ==
  ASSUME NEW n \in Nat, NEW valid, NEW order, NEW sorted, Reorders(sorted, valid, order, n),
         NEW C \in SUBSET (1..n)
  PROVE  PowerOf(sorted, MovedTo(C, order, n)) = PowerOf(valid, C)
<1>1. valid \in [1..n -> Entry] /\ Permutes(order, n) /\ sorted = [k \in 1..n |-> valid[order[k]]]
  BY Zenon DEF Reorders
<1>2. PICK D : D = {k \in 1..n : order[k] \in C}
  BY Zenon
<1>3. PICK f, g : f = [i \in DOMAIN valid |-> valid[i].power] /\ g = [i \in DOMAIN sorted |-> sorted[i].power]
  BY Zenon
<1>4. PowerOf(sorted, D) = SumFunctionOnSet(g, D) /\ PowerOf(valid, C) = SumFunctionOnSet(f, C)
  BY <1>3, Zenon DEF PowerOf
<1>5. \A k \in D : k \in 1..n /\ order[k] \in C /\ order[k] \in 1..n
  BY <1>2, Zenon
<1>6. DOMAIN valid = 1..n /\ DOMAIN sorted = 1..n
  BY <1>1, Zenon
<1>7. \A i \in 1..n : valid[i].power \in Int
  BY <1>1 DEF Entry
<1>8. \A k \in D : g[k] = f[order[k]] /\ g[k] \in Int
  BY <1>1, <1>3, <1>5, <1>6, <1>7, Zenon
<1>9. C = {order[k] : k \in D}
  <2>1. ASSUME NEW c \in C
        PROVE  \E k \in D : c = order[k]
    <3>1. PICK k \in 1..n : order[k] = c
      BY <1>1, Zenon DEF Permutes
    <3>2. QED
      BY <1>2, <3>1, Zenon
  <2>2. QED
    BY <1>5, <2>1, Zenon
<1>10. Renames(order, g, D, f, C)
  <2>1. \A x, y \in D : order[x] = order[y] => x = y
    BY <1>1, <1>5, Zenon DEF Permutes
  <2>2. QED
    BY <1>8, <1>9, <2>1, Zenon DEF Renames
<1>11. IsFiniteSet(D)
  <2>1. IsFiniteSet(1..n) /\ D \in SUBSET (1..n)
    BY <1>2, PositionsFinite, Zenon
  <2>2. QED
    BY <2>1, FS_Subset, Zenon
<1>12. SumFunctionOnSet(g, D) = SumFunctionOnSet(f, C)
  BY <1>10, <1>11, SumRenamed, SMTT(30)
<1>13. QED
  BY <1>2, <1>4, <1>12, Zenon DEF MovedTo

\* If the entries of D hold less than half of the weight, then some other entry reports at
\* most, and some other entry at least, the median.
LEMMA OthersBound ==
  ASSUME NEW n \in Nat, NEW w \in [1..n -> Entry], NEW f \in [1..n -> Nat], NEW median,
         IsMedian(w, n, f, median), NEW D \in SUBSET (1..n), NEW k0 \in (1..n) \ D,
         2 * SumFunctionOnSet(f, D) < SumFunctionOnSet(f, 1..n)
  PROVE  /\ \E i \in (1..n) \ D : w[i].price <= median
         /\ \E i \in (1..n) \ D : median <= w[i].price
<1> DEFINE Sum(S) == SumFunctionOnSet(f, S)
<1>1. PICK q \in 1..n :
        /\ median = w[q].price
        /\ HalfIn(f, n, UpToPrice(w, n, q))
        /\ \A i \in 1..n : HalfIn(f, n, UpToPrice(w, n, i)) => median <= w[i].price
  BY Zenon DEF IsMedian
<1>2. \A i \in 1..n : w[i].price \in Nat
  BY ZenonT(60) DEF Entry
<1>3. IsFiniteSet(1..n) /\ \A i \in 1..n : f[i] \in Nat
  BY PositionsFinite, Zenon
<1>4. ASSUME NEW S \in SUBSET (1..n), NEW R \in SUBSET S
      PROVE  /\ Sum(S) \in Nat /\ Sum(R) \in Nat /\ Sum(S \ R) \in Nat
             /\ Sum(R) <= Sum(S) /\ Sum(S) = Sum(R) + Sum(S \ R)
  <2>1. PICK V : V = S \ R
    BY Zenon
  <2>2. /\ IsFiniteSet(S) /\ IsFiniteSet(R) /\ IsFiniteSet(V)
        /\ (\A i \in S : f[i] \in Nat) /\ (\A i \in R : f[i] \in Nat) /\ \A i \in V : f[i] \in Nat
    BY <1>3, <1>4, <2>1, FS_Subset, Zenon
  <2>3. Sum(S) \in Nat /\ Sum(R) \in Nat /\ Sum(V) \in Nat
    BY <2>2, SumNat, Zenon
  <2>4. Sum(R) <= Sum(S) /\ Sum(S) = Sum(R) + Sum(S \ R)
    <3>1. R \in SUBSET S /\ IsFiniteSet(S) /\ \A i \in S : f[i] \in Nat
      BY <1>4, <2>2, Zenon
    <3>2. SumFunctionOnSet(f, R) <= SumFunctionOnSet(f, S)
      BY <3>1, SumSubset, Zenon
    <3>3. SumFunctionOnSet(f, S) = SumFunctionOnSet(f, R) + SumFunctionOnSet(f, S \ R)
      <4>1. R \cup V = S /\ R \cap V = {}
        BY <2>1, <3>1, ZenonT(60)
      <4>2. \A i \in R \cup V : f[i] \in Int
        BY <3>1, <4>1
      <4>3. SumFunctionOnSet(f, R \cup V) = SumFunctionOnSet(f, R) + SumFunctionOnSet(f, V)
        BY <2>2, <4>1, <4>2, SumDisjoint, Zenon
      <4>4. QED
        BY <2>1, <4>1, <4>3, Zenon
    <3>4. QED
      BY <3>2, <3>3, Zenon
  <2>5. QED
    BY <2>1, <2>3, <2>4, Zenon
<1>5. PICK N : N = 1..n
  BY Zenon
<1>6. Sum(N) \in Nat /\ Sum(D) \in Nat /\ Sum(N \ D) \in Nat /\ Sum(N) = Sum(D) + Sum(N \ D)
  BY <1>4, <1>5, Zenon
<1>7. 2 * Sum(D) < Sum(N)
  BY <1>5, Zenon
<1>8. \E i \in (1..n) \ D : w[i].price <= median
  <2>1. PICK U : U = UpToPrice(w, n, q)
    BY Zenon
  <2>2. U \in SUBSET (1..n)
    BY <2>1, Zenon DEF UpToPrice
  <2>3. 2 * Sum(U) >= Sum(N)
    BY <1>1, <1>5, <2>1, Zenon DEF HalfIn
  <2>4. ~(U \in SUBSET D)
    <3>1. SUFFICES ASSUME U \in SUBSET D PROVE FALSE
      BY Zenon
    <3>2. Sum(U) \in Nat /\ Sum(U) <= Sum(D)
      BY <1>4, <3>1, Zenon
    <3>3. QED
      BY <1>6, <1>7, <2>3, <3>2, SMTT(30)
  <2>5. PICK i \in U : i \notin D
    BY <2>4, Zenon
  <2>6. i \in 1..n /\ w[i].price <= w[q].price
    BY <2>1, <2>5, Zenon DEF UpToPrice
  <2>7. QED
    BY <1>1, <2>5, <2>6, Zenon
<1>9. \E i \in (1..n) \ D : median <= w[i].price
  <2>1. PICK O, p : O = N \ D /\ p = [i \in 1..n |-> w[i].price]
    BY Zenon
  <2>2. O \in SUBSET (1..n) /\ O # {} /\ IsFiniteSet(O)
    BY <1>3, <1>5, <2>1, FS_Subset, ZenonT(60)
  <2>3. \A i \in O : p[i] \in Int /\ p[i] = w[i].price
    BY <1>2, <2>1, <2>2, SMTT(30)
  <2>4. PICK t \in O : \A i \in O : p[i] <= p[t]
    BY <2>2, <2>3, LargestValue, Zenon
  <2>5. PICK U : U = UpToPrice(w, n, t)
    BY Zenon
  <2>6. O \in SUBSET U /\ U \in SUBSET (1..n) /\ t \in 1..n
    BY <2>2, <2>3, <2>4, <2>5, ZenonT(60) DEF UpToPrice
  <2>7. Sum(O) \in Nat /\ Sum(U) \in Nat /\ Sum(O) <= Sum(U)
    BY <1>4, <2>6, ZenonT(60)
  <2>8. 2 * Sum(U) >= Sum(N)
    <3>1. Sum(N) = Sum(D) + Sum(O)
      BY <1>6, <2>1, Zenon
    <3>2. QED
      BY <1>6, <1>7, <2>7, <3>1, SMTT(30)
  <2>9. HalfIn(f, n, UpToPrice(w, n, t))
    BY <1>5, <2>5, <2>8, Zenon DEF HalfIn
  <2>10. median <= w[t].price
    BY <1>1, <2>6, <2>9, ZenonT(60)
  <2>11. QED
    BY <1>5, <2>1, <2>4, <2>10, ZenonT(60)
<1>10. QED
  BY <1>8, <1>9, Zenon

\* A quarter of the available power never decides: whatever the validators in C, with at
\* most a quarter of it, report, wherever that puts them in the order by time, the median
\* of MedianValidatorPriceInfos is between the prices of the other validators.
THEOREM QuarterNeverDecides ==
  ASSUME NEW s \in Seq(ValidatorPriceInfo), NEW C \in SUBSET DOMAIN OfStatus(s, "available"),
         C # DOMAIN OfStatus(s, "available"),
         4 * PowerOf(OfStatus(s, "available"), C) <= SumOfPowers(OfStatus(s, "available"))
  PROVE  WithinOthers(OfStatus(s, "available"), C, MedianValidatorPriceInfos(s))
<1>1. PICK m \in Nat : s \in [1..m -> ValidatorPriceInfo]
  <2>1. Len(s) \in Nat /\ s \in [1..Len(s) -> ValidatorPriceInfo]
    OBVIOUS
  <2>2. QED
    BY <2>1, Zenon
<1>2. s \in [1..m -> Entry] /\ \A j \in 1..m : s[j].power \in Nat /\ s[j].power > 0
  <2>1. ASSUME NEW e \in ValidatorPriceInfo
        PROVE  e \in Entry /\ e.power \in Nat /\ e.power > 0
    BY DEF ValidatorPriceInfo, Entry
  <2>2. QED
    BY <1>1, <2>1, Zenon
<1>3. PICK n, order, sorted, f :
           /\ MedianOf(s, n, order, sorted, f, MedianValidatorPriceInfos(s))
           /\ \A i \in 1..n : \E j \in 1..m : sorted[i] = s[j] /\ s[j].status = "available"
           /\ \A j \in 1..m : s[j].status = "available" => n > 0
  BY <1>2, MedianValidatorPriceInfosIs, Zenon
<1>4. PICK valid, median, T :
        valid = OfStatus(s, "available") /\ median = MedianValidatorPriceInfos(s) /\ T = SumOfPowers(valid)
  BY Zenon
<1>5. /\ n \in Nat /\ valid \in [1..n -> Entry] /\ sorted \in [1..n -> Entry] /\ Permutes(order, n)
      /\ sorted = [k \in 1..n |-> valid[order[k]]]
      /\ Weighs(T, n, sorted, f) /\ T = SumOfPowers(sorted)
      /\ n > 0 => IsMedian(sorted, n, f, median)
  BY <1>3, <1>4, Zenon DEF MedianOf
<1>6. DOMAIN valid = 1..n
  BY <1>5, Zenon
<1>7. C \in SUBSET (1..n) /\ C # 1..n /\ 4 * PowerOf(valid, C) <= T
  BY <1>4, <1>6, Zenon
<1>8. PICK D : D = {k \in 1..n : order[k] \in C}
  BY Zenon
<1>9. PICK c \in 1..n : c \notin C
  BY <1>7, Zenon
<1>10. PICK k0 \in 1..n : order[k0] = c
  BY <1>5, <1>9, Zenon DEF Permutes
<1>11. D \in SUBSET (1..n) /\ k0 \in (1..n) \ D
  BY <1>8, <1>9, <1>10, ZenonT(60)
<1>12. n > 0
  BY <1>5, <1>9
<1>13. PowerOf(sorted, D) = PowerOf(valid, C)
  <2>1. Reorders(sorted, valid, order, n)
    BY <1>5, Zenon DEF Reorders
  <2>2. n \in Nat /\ C \in SUBSET (1..n)
    BY <1>5, <1>7, Zenon
  <2>3. PowerOf(sorted, MovedTo(C, order, n)) = PowerOf(valid, C)
    BY <2>1, <2>2, PowerSorted, SMTT(30)
  <2>4. QED
    BY <1>8, <2>3, Zenon DEF MovedTo
<1>14. 4 * PowerOf(sorted, D) <= T
  BY <1>7, <1>13, Zenon
<1>15. T \in Nat /\ T > 0
  <2>1. PICK g : g = [i \in DOMAIN sorted |-> sorted[i].power]
    BY Zenon
  <2>2. T = SumFunctionOnSet(g, 1..n)
    BY <1>5, <2>1, Zenon DEF SumOfPowers, PowerOf
  <2>3. \A i \in 1..n : g[i] \in Nat /\ g[i] > 0
    BY <1>2, <1>3, <1>5, <2>1, Zenon
  <2>4. IsFiniteSet(1..n)
    BY <1>5, PositionsFinite, Zenon
  <2>5. PICK N : N = 1..n
    BY Zenon
  <2>6. PICK R : R = {k0}
    BY Zenon
  <2>7. R \in SUBSET N /\ IsFiniteSet(N) /\ \A i \in N : g[i] \in Nat
    BY <1>10, <2>3, <2>4, <2>5, <2>6, ZenonT(60)
  <2>8. SumFunctionOnSet(g, R) <= SumFunctionOnSet(g, N) /\ SumFunctionOnSet(g, N) \in Nat
    BY <2>7, SumSubset, SumNat, Zenon
  <2>9. SumFunctionOnSet(g, R) = g[k0]
    <3>1. IsFiniteSet({}) /\ k0 \notin {} /\ g[k0] \in Int /\ \A y \in {} : g[y] \in Int
      BY <1>10, <2>3, FS_EmptySet, SMTT(30)
    <3>2. SumFunctionOnSet(g, {} \cup {k0}) = g[k0] + SumFunctionOnSet(g, {})
      BY <3>1, SumAdd, Zenon
    <3>3. {} \cup {k0} = R /\ SumFunctionOnSet(g, {}) = 0
      BY <2>6, SumEmpty, ZenonT(60)
    <3>4. g[k0] + 0 = g[k0]
      BY <3>1
    <3>5. QED
      BY <3>2, <3>3, <3>4, ZenonT(60)
  <2>10. g[k0] \in Nat /\ g[k0] > 0
    BY <1>10, <2>3, Zenon
  <2>11. T \in Nat /\ g[k0] <= T
    BY <2>2, <2>5, <2>8, <2>9, ZenonT(60)
  <2>12. QED
    BY <2>10, <2>11
<1>16. 2 * SumFunctionOnSet(f, D) < SumFunctionOnSet(f, 1..n)
  BY <1>5, <1>11, <1>14, <1>15, QuarterIsLessThanHalf, ZenonT(60)
<1>17. f \in [1..n -> Nat]
  <2>1. PICK w : w = WeightsOf(T, sorted, n)
    BY Zenon
  <2>2. WeightsOf(T, sorted, n) \in [1..n -> Weighted]
    BY <1>5, <1>15, WeightsType, Zenon
  <2>3. w \in [1..n -> Weighted] /\ f = [i \in 1..n |-> w[i].weight]
    BY <1>5, <2>1, <2>2, Zenon DEF Weighs
  <2>4. QED
    BY <2>3, ZenonT(60) DEF Weighted
<1>18. /\ \E i \in (1..n) \ D : sorted[i].price <= median
       /\ \E i \in (1..n) \ D : median <= sorted[i].price
  BY <1>5, <1>11, <1>12, <1>16, <1>17, OthersBound, ZenonT(60)
<1>19. PICK others : others = {valid[i].price : i \in DOMAIN valid \ C}
  BY Zenon
<1>20. \A i \in (1..n) \ D : sorted[i].price \in others
  BY <1>5, <1>6, <1>8, <1>19, ZenonT(60) DEF Permutes
<1>21. PICK a, b \in others : a <= median /\ median <= b
  BY <1>18, <1>20, Zenon
<1>22. \A i \in 1..n : valid[i].price \in Nat
  BY <1>5, ZenonT(60) DEF Entry
<1>23. others \in SUBSET Int /\ IsFiniteSet(others) /\ others # {}
  <2>1. others \in SUBSET Nat
    BY <1>6, <1>19, <1>22, Zenon
  <2>2. others \in SUBSET Int
    BY <2>1
  <2>3. IsFiniteSet((1..n) \ C)
    <3>1. IsFiniteSet(1..n)
      BY <1>5, PositionsFinite, Zenon
    <3>2. QED
      BY <3>1, FS_Subset, Zenon
  <2>4. PICK O, p : O = (1..n) \ C /\ p = [i \in O |-> valid[i].price]
    BY Zenon
  <2>5. others = {p[i] : i \in O}
    BY <1>6, <1>19, <2>4, Zenon
  <2>6. IsFiniteSet(others)
    <3>1. p \in [O -> others] /\ IsFiniteSet(O)
      BY <2>3, <2>4, <2>5, Zenon
    <3>2. p \in Surjection(O, others)
      BY <2>5, <3>1, Zenon DEF Surjection
    <3>3. QED
      BY <3>1, <3>2, FS_Surjection, Zenon
  <2>7. QED
    BY <1>21, <2>2, <2>6, Zenon
<1>24. /\ Min(others) \in others /\ Max(others) \in others
       /\ (\A y \in others : Min(others) <= y) /\ \A y \in others : Max(others) >= y
  BY <1>23, MinMax, Zenon
<1>25. PICK lo, hi : lo = Min(others) /\ hi = Max(others)
  BY Zenon
<1>26. lo \in Int /\ hi \in Int /\ a \in Int /\ b \in Int /\ lo <= a /\ hi >= b
  BY <1>21, <1>23, <1>24, <1>25, ZenonT(60)
<1>27. median \in Int
  <2>1. PICK q \in 1..n : median = sorted[q].price
    BY <1>5, <1>12, Zenon DEF IsMedian
  <2>2. QED
    BY <1>5, <2>1, SMTT(30) DEF Entry
<1>28. lo <= median /\ median <= hi
  BY <1>21, <1>26, <1>27, SMTT(30)
<1>29. QED
  BY <1>4, <1>19, <1>25, <1>28, ZenonT(60) DEF WithinOthers

-----------------------------------------------------------------------------
(* The median by definition *)

\* The larger and the smaller of two numbers.
LEMMA OfTwo ==
  ASSUME NEW a \in Int, NEW b \in Int
  PROVE  /\ Max({a, b}) = (IF a >= b THEN a ELSE b)
         /\ Min({a, b}) = (IF a <= b THEN a ELSE b)
<1>1. PICK S : S = {a, b}
  BY Zenon
<1>2. IsFiniteSet(S) /\ S # {} /\ S \in SUBSET Int
  <2>1. IsFiniteSet({}) /\ {a} = {} \cup {a} /\ S = {a} \cup {b}
    BY <1>1, FS_EmptySet, ZenonT(60)
  <2>2. IsFiniteSet(S)
    BY <2>1, FS_AddElement, Zenon
  <2>3. QED
    BY <1>1, <2>2, Zenon
<1>3. PICK hi, lo : hi = Max(S) /\ lo = Min(S)
  BY Zenon
<1>4. hi \in S /\ lo \in S /\ (\A y \in S : lo <= y) /\ \A y \in S : hi >= y
  BY <1>2, <1>3, MinMax, Zenon
<1>5. (hi = a \/ hi = b) /\ (lo = a \/ lo = b) /\ lo <= a /\ lo <= b /\ hi >= a /\ hi >= b
  BY <1>1, <1>4, Zenon
<1>6. hi = (IF a >= b THEN a ELSE b) /\ lo = (IF a <= b THEN a ELSE b)
  BY <1>5
<1>7. QED
  BY <1>1, <1>3, <1>6, Zenon

\* How much of the first x units lies in [c, d].
Within(x, c, d) == IF x <= c THEN 0 ELSE IF x <= d THEN x - c ELSE d - c

\* The part of [a, b] that lies in [c, d].
LEMMA OverlapIs ==
  ASSUME NEW a \in Nat, NEW b \in Nat, NEW c \in Nat, NEW d \in Nat, a <= b, c <= d
  PROVE  Overlap(a, b, c, d) = Within(b, c, d) - Within(a, c, d)
<1>1. PICK x, y : x = Min({b, d}) /\ y = Max({a, c})
  BY Zenon
<1>2. a \in Int /\ b \in Int /\ c \in Int /\ d \in Int /\ 0 \in Int
  OBVIOUS
<1>3. x = (IF b <= d THEN b ELSE d) /\ y = (IF a >= c THEN a ELSE c)
  BY <1>1, <1>2, OfTwo, Zenon
<1>4. x \in Int /\ y \in Int /\ x - y \in Int
  BY <1>2, <1>3
<1>5. PICK z : z = x - y
  BY Zenon
<1>6. Max({0, z}) = (IF 0 >= z THEN 0 ELSE z)
  BY <1>2, <1>4, <1>5, OfTwo, Zenon
<1>7. Overlap(a, b, c, d) = (IF 0 >= z THEN 0 ELSE z)
  BY <1>1, <1>5, <1>6, Zenon DEF Overlap
<1>8. QED
  BY <1>3, <1>5, <1>7 DEF Within

\* A sum of five values.
LEMMA SumOfFive ==
  ASSUME NEW f, \A k \in 1..5 : f[k] \in Int
  PROVE  SumFunctionOnSet(f, 1..5) = f[1] + f[2] + f[3] + f[4] + f[5]
<1> DEFINE Sum(S) == SumFunctionOnSet(f, S)
<1>1. /\ 1..5 = (1..4) \cup {5} /\ 1..4 = (1..3) \cup {4} /\ 1..3 = (1..2) \cup {3}
      /\ 1..2 = (1..1) \cup {2} /\ 1..1 = {} \cup {1}
  OBVIOUS
<1>2. 5 \notin 1..4 /\ 4 \notin 1..3 /\ 3 \notin 1..2 /\ 2 \notin 1..1 /\ 1 \notin {}
  OBVIOUS
<1>3. /\ IsFiniteSet(1..4) /\ IsFiniteSet(1..3) /\ IsFiniteSet(1..2) /\ IsFiniteSet(1..1)
      /\ IsFiniteSet({})
  <2>1. 4 \in Nat /\ 3 \in Nat /\ 2 \in Nat /\ 1 \in Nat
    BY ZenonT(60)
  <2>2. QED
    BY <2>1, PositionsFinite, FS_EmptySet, Zenon
<1>4. f[1] \in Int /\ f[2] \in Int /\ f[3] \in Int /\ f[4] \in Int /\ f[5] \in Int
  OBVIOUS
<1>5. /\ (\A k \in 1..4 : f[k] \in Int) /\ (\A k \in 1..3 : f[k] \in Int)
      /\ (\A k \in 1..2 : f[k] \in Int) /\ (\A k \in 1..1 : f[k] \in Int) /\ \A k \in {} : f[k] \in Int
  OBVIOUS
<1>6. Sum((1..4) \cup {5}) = f[5] + Sum(1..4)
  BY <1>2, <1>3, <1>4, <1>5, SumAdd, ZenonT(60)
<1>7. Sum((1..3) \cup {4}) = f[4] + Sum(1..3)
  BY <1>2, <1>3, <1>4, <1>5, SumAdd, ZenonT(60)
<1>8. Sum((1..2) \cup {3}) = f[3] + Sum(1..2)
  BY <1>2, <1>3, <1>4, <1>5, SumAdd, ZenonT(60)
<1>9. Sum((1..1) \cup {2}) = f[2] + Sum(1..1)
  BY <1>2, <1>3, <1>4, <1>5, SumAdd, ZenonT(60)
<1>10. Sum({} \cup {1}) = f[1] + Sum({}) /\ Sum({}) = 0
  BY <1>2, <1>3, <1>4, <1>5, SumAdd, SumEmpty, ZenonT(60)
<1>11. PICK s1, s2, s3, s4, s5 :
         s1 = Sum(1..1) /\ s2 = Sum(1..2) /\ s3 = Sum(1..3) /\ s4 = Sum(1..4) /\ s5 = Sum(1..5)
  BY Zenon
<1>12. s1 = f[1] + 0 /\ s2 = f[2] + s1 /\ s3 = f[3] + s2 /\ s4 = f[4] + s3 /\ s5 = f[5] + s4
  BY <1>1, <1>6, <1>7, <1>8, <1>9, <1>10, <1>11, ZenonT(60)
<1>13. s5 = f[1] + f[2] + f[3] + f[4] + f[5]
  BY <1>4, <1>12, SMTT(30)
<1>14. QED
  BY <1>11, <1>13, Zenon

\* Worth, section by section.
LEMMA WorthBySection ==
  ASSUME NEW T \in Nat, NEW x \in Nat, x <= 32 * T
  PROVE  Worth(T, x) = 60 * Within(x, 0, T) + 40 * Within(x, T, 3 * T) + 20 * Within(x, 3 * T, 7 * T)
                        + 11 * Within(x, 7 * T, 15 * T) + 10 * Within(x, 15 * T, 32 * T)
  BY SMTT(60), ZenonT(60) DEF Worth, Within

\* The weight by definition is the weight that the loops compute.
LEMMA ReferenceWeightIs ==
  ASSUME NEW n \in Nat, NEW s \in [1..n -> Entry], NEW i \in 1..n
  PROVE  ReferenceWeight(s, i) = WeightsOf(SumOfPowers(s), s, n)[i].weight
<1>1. PICK T, P, Q : T = SumOfPowers(s) /\ P = PowerOf(s, 1..i) /\ Q = PowerOf(s, 1..(i - 1))
  BY Zenon
<1>2. T \in Nat /\ P \in Nat /\ Q \in Nat /\ Q <= P /\ P <= T
  <2>1. n \in 0..n /\ i \in 0..n /\ i - 1 \in 0..n
    OBVIOUS
  <2>2. T \in Nat /\ P \in Nat /\ Q \in Nat /\ P <= T /\ P = Q + s[i].power
    <3>1. /\ SumOfPowers(s) = PowerOf(s, 1..n)
          /\ \A k \in 0..n : PowerOf(s, 1..k) \in Nat /\ PowerOf(s, 1..k) <= PowerOf(s, 1..n)
          /\ \A k \in 1..n : PowerOf(s, 1..k) = PowerOf(s, 1..(k - 1)) + s[k].power
      BY PowerUpTo, Zenon
    <3>2. T = PowerOf(s, 1..n)
      BY <1>1, <3>1, Zenon
    <3>3. QED
      BY <1>1, <2>1, <3>1, <3>2, Zenon
  <2>3. s[i].power \in Nat
    BY ZenonT(60) DEF Entry
  <2>4. QED
    BY <2>2, <2>3
<1>3. PICK a, b : a = PowerScalingFactor * Q /\ b = PowerScalingFactor * P
  BY Zenon
<1>4. a = 32 * Q /\ b = 32 * P /\ a \in Nat /\ b \in Nat /\ a <= b /\ a <= 32 * T /\ b <= 32 * T
  BY <1>2, <1>3 DEF PowerScalingFactor
<1>5. PICK start : start = <<0>> \o Sections
  BY Zenon
<1>6. start[1] = 0 /\ start[2] = 1 /\ start[3] = 3 /\ start[4] = 7 /\ start[5] = 15
  BY <1>5 DEF Sections
<1>7. PICK part : part = [k \in 1..5 |-> Overlap(a, b, T * start[k], T * Sections[k])]
  BY Zenon
<1>8. PICK f : f = [k \in 1..5 |-> Multipliers[k] * part[k]]
  BY Zenon
<1>9. ReferenceWeight(s, i) = SumFunctionOnSet(f, 1..5)
  BY <1>1, <1>3, <1>5, <1>7, <1>8, Zenon DEF ReferenceWeight
<1>10. PICK a1, a2, a3, a4, a5 :
         /\ a1 = Within(a, 0, T)
         /\ a2 = Within(a, T, 3 * T)
         /\ a3 = Within(a, 3 * T, 7 * T)
         /\ a4 = Within(a, 7 * T, 15 * T)
         /\ a5 = Within(a, 15 * T, 32 * T)
  BY Zenon
<1>11. PICK b1, b2, b3, b4, b5 :
         /\ b1 = Within(b, 0, T)
         /\ b2 = Within(b, T, 3 * T)
         /\ b3 = Within(b, 3 * T, 7 * T)
         /\ b4 = Within(b, 7 * T, 15 * T)
         /\ b5 = Within(b, 15 * T, 32 * T)
  BY Zenon
<1>12. /\ part[1] = b1 - a1 /\ part[2] = b2 - a2 /\ part[3] = b3 - a3 /\ part[4] = b4 - a4
       /\ part[5] = b5 - a5
  <2>1. /\ T * start[1] = 0 /\ T * Sections[1] = T /\ T * start[2] = T /\ T * Sections[2] = 3 * T
        /\ T * start[3] = 3 * T /\ T * Sections[3] = 7 * T /\ T * start[4] = 7 * T
        /\ T * Sections[4] = 15 * T /\ T * start[5] = 15 * T /\ T * Sections[5] = 32 * T
    BY <1>2, <1>6, SMTT(30) DEF Sections
  <2>2. 1 \in 1..5 /\ 2 \in 1..5 /\ 3 \in 1..5 /\ 4 \in 1..5 /\ 5 \in 1..5
    OBVIOUS
  <2>3. /\ part[1] = Overlap(a, b, 0, T) /\ part[2] = Overlap(a, b, T, 3 * T)
        /\ part[3] = Overlap(a, b, 3 * T, 7 * T) /\ part[4] = Overlap(a, b, 7 * T, 15 * T)
        /\ part[5] = Overlap(a, b, 15 * T, 32 * T)
    BY <1>7, <2>1, <2>2, ZenonT(60)
  <2>4. /\ 0 \in Nat /\ 3 * T \in Nat /\ 7 * T \in Nat /\ 15 * T \in Nat /\ 32 * T \in Nat
        /\ 0 <= T /\ T <= 3 * T /\ 3 * T <= 7 * T /\ 7 * T <= 15 * T /\ 15 * T <= 32 * T
    BY <1>2, SMTT(30)
  <2>5. \A c, d \in Nat : c <= d => Overlap(a, b, c, d) = Within(b, c, d) - Within(a, c, d)
    <3>1. a \in Nat /\ b \in Nat /\ a <= b
      BY <1>4, Zenon
    <3>2. QED
      BY <3>1, OverlapIs, SMTT(30)
  <2>6. Overlap(a, b, 0, T) = Within(b, 0, T) - Within(a, 0, T)
    BY <1>2, <2>4, <2>5, ZenonT(60)
  <2>7. Overlap(a, b, T, 3 * T) = Within(b, T, 3 * T) - Within(a, T, 3 * T)
    BY <1>2, <2>4, <2>5, ZenonT(60)
  <2>8. Overlap(a, b, 3 * T, 7 * T) = Within(b, 3 * T, 7 * T) - Within(a, 3 * T, 7 * T)
    BY <1>2, <2>4, <2>5, ZenonT(60)
  <2>9. Overlap(a, b, 7 * T, 15 * T) = Within(b, 7 * T, 15 * T) - Within(a, 7 * T, 15 * T)
    BY <1>2, <2>4, <2>5, ZenonT(60)
  <2>10. Overlap(a, b, 15 * T, 32 * T) = Within(b, 15 * T, 32 * T) - Within(a, 15 * T, 32 * T)
    BY <1>2, <2>4, <2>5, ZenonT(60)
  <2>11. QED
    BY <1>10, <1>11, <2>3, <2>6, <2>7, <2>8, <2>9, <2>10, ZenonT(60)
<1>13. \A x \in Nat : /\ Within(x, 0, T) \in Int /\ Within(x, T, 3 * T) \in Int
                      /\ Within(x, 3 * T, 7 * T) \in Int /\ Within(x, 7 * T, 15 * T) \in Int
                      /\ Within(x, 15 * T, 32 * T) \in Int
  BY <1>2 DEF Within
<1>14. /\ a1 \in Int /\ a2 \in Int /\ a3 \in Int /\ a4 \in Int /\ a5 \in Int
       /\ b1 \in Int /\ b2 \in Int /\ b3 \in Int /\ b4 \in Int /\ b5 \in Int
  BY <1>4, <1>10, <1>13, <1>11, ZenonT(60)
<1>15. /\ f[1] = 60 * (b1 - a1) /\ f[2] = 40 * (b2 - a2) /\ f[3] = 20 * (b3 - a3)
       /\ f[4] = 11 * (b4 - a4) /\ f[5] = 10 * (b5 - a5)
  BY <1>8, <1>12 DEF Multipliers
<1>16. \A k \in 1..5 : f[k] \in Int
  <2>1. f[1] \in Int /\ f[2] \in Int /\ f[3] \in Int /\ f[4] \in Int /\ f[5] \in Int
    BY <1>14, <1>15, SMTT(30)
  <2>2. \A k \in 1..5 : k = 1 \/ k = 2 \/ k = 3 \/ k = 4 \/ k = 5
    OBVIOUS
  <2>3. QED
    BY <2>1, <2>2, Zenon
<1>17. SumFunctionOnSet(f, 1..5) = f[1] + f[2] + f[3] + f[4] + f[5]
  BY <1>16, SumOfFive, Zenon
<1>18. PICK u, v : u = Worth(T, b) /\ v = Worth(T, a)
  BY Zenon
<1>19. f[1] + f[2] + f[3] + f[4] + f[5] = u - v
  <2>1. u = 60 * b1 + 40 * b2 + 20 * b3 + 11 * b4 + 10 * b5
    BY <1>2, <1>4, <1>18, <1>11, WorthBySection, ZenonT(60)
  <2>2. v = 60 * a1 + 40 * a2 + 20 * a3 + 11 * a4 + 10 * a5
    BY <1>2, <1>4, <1>10, <1>18, WorthBySection, ZenonT(60)
  <2>3. QED
    BY <1>14, <1>15, <2>1, <2>2, SMTT(30)
<1>20. WeightsOf(T, s, n)[i].weight = u - v
  <2>1. WeightsOf(T, s, n)[i] = [weight |-> Worth(T, 32 * P) - Worth(T, 32 * Q), price |-> s[i].price]
    BY <1>1, Zenon DEF WeightsOf
  <2>2. QED
    BY <1>4, <1>18, <2>1, SMTT(30)
<1>21. QED
  BY <1>1, <1>9, <1>17, <1>19, <1>20, ZenonT(60)

\* The median of MedianValidatorPriceInfos, whose loops share the section index and the
\* power used so far between entries, is the median by definition: the lowest reported
\* price at which the entries up to that price hold half of the weight, the weight of an
\* entry being what its part of the total power is worth in the sections it lies in.
THEOREM MedianIsByDefinition ==
  ASSUME NEW s \in Seq(ValidatorPriceInfo)
  PROVE  MedianValidatorPriceInfos(s) = ReferenceMedian(s)
<1>1. PICK m \in Nat : s \in [1..m -> Entry]
  <2>1. Len(s) \in Nat /\ s \in [1..Len(s) -> ValidatorPriceInfo]
    OBVIOUS
  <2>2. \A e \in ValidatorPriceInfo : e \in Entry
    BY ZenonT(60) DEF ValidatorPriceInfo, Entry
  <2>3. QED
    BY <2>1, <2>2, Zenon
<1>2. PICK n, order, sorted, f :
           /\ MedianOf(s, n, order, sorted, f, MedianValidatorPriceInfos(s))
           /\ \A i \in 1..n : \E j \in 1..m : sorted[i] = s[j] /\ s[j].status = "available"
           /\ \A j \in 1..m : s[j].status = "available" => n > 0
  BY <1>1, MedianValidatorPriceInfosIs, Zenon
<1>3. PICK median : median = MedianValidatorPriceInfos(s)
  BY Zenon
<1>4. PICK T : T = SumOfPowers(sorted)
  BY Zenon
<1>5. /\ n \in Nat /\ sorted \in [1..n -> Entry]
      /\ sorted = StableSort(OfStatus(s, "available"), NewestFirst)
      /\ Weighs(T, n, sorted, f)
      /\ (n = 0 => median = InvalidWeightedPrices) /\ (n > 0 => IsMedian(sorted, n, f, median))
  BY <1>2, <1>3, <1>4, Zenon DEF MedianOf
<1>6. DOMAIN sorted = 1..n
  BY <1>5, Zenon
<1>7. f = [i \in DOMAIN sorted |-> ReferenceWeight(sorted, i)]
  <2>1. f = [i \in 1..n |-> WeightsOf(T, sorted, n)[i].weight]
    BY <1>5, Zenon DEF Weighs
  <2>2. \A i \in 1..n : ReferenceWeight(sorted, i) = WeightsOf(T, sorted, n)[i].weight
    BY <1>4, <1>5, ReferenceWeightIs, Zenon
  <2>3. QED
    BY <1>6, <2>1, <2>2, Zenon
<1>8. PICK halves :
        halves = {p \in {sorted[i].price : i \in DOMAIN sorted} :
                   2 * SumFunctionOnSet(f, {i \in DOMAIN sorted : sorted[i].price <= p})
                     >= SumFunctionOnSet(f, DOMAIN sorted)}
  BY Zenon
<1>9. ReferenceMedian(s) = IF sorted = <<>> THEN InvalidWeightedPrices ELSE Min(halves)
  BY <1>5, <1>7, <1>8, Zenon DEF ReferenceMedian
<1>10. CASE n = 0
  <2>1. sorted = <<>>
    BY <1>5, <1>10
  <2>2. QED
    BY <1>3, <1>5, <1>9, <1>10, <2>1, ZenonT(60)
<1>11. CASE n > 0
  <2>1. sorted # <<>>
    BY <1>6, <1>5, <1>11
  <2>2. PICK q \in 1..n :
          /\ median = sorted[q].price
          /\ HalfIn(f, n, UpToPrice(sorted, n, q))
          /\ \A i \in 1..n : HalfIn(f, n, UpToPrice(sorted, n, i)) => median <= sorted[i].price
    BY <1>5, <1>11, Zenon DEF IsMedian
  <2>3. \A i \in 1..n : sorted[i].price \in halves <=> HalfIn(f, n, UpToPrice(sorted, n, i))
    BY <1>6, <1>8, Zenon DEF HalfIn, UpToPrice
  <2>4. median \in halves
    BY <2>2, <2>3, Zenon
  <2>5. \A p \in halves : \E i \in 1..n : p = sorted[i].price
    BY <1>6, <1>8, Zenon
  <2>6. \A p \in halves : median <= p
    BY <2>2, <2>3, <2>5, Zenon
  <2>7. halves \in SUBSET Nat
    <3>1. \A i \in 1..n : sorted[i].price \in Nat
      BY <1>5, ZenonT(60) DEF Entry
    <3>2. QED
      BY <2>5, <3>1, Zenon
  <2>8. PICK lowest : lowest = Min(halves)
    BY Zenon
  <2>9. lowest \in halves /\ \A p \in halves : lowest <= p
    BY <2>4, <2>6, <2>8, Zenon DEF Min
  <2>10. lowest <= median /\ median <= lowest /\ lowest \in Nat /\ median \in Nat
    BY <2>4, <2>6, <2>7, <2>9, ZenonT(60)
  <2>11. lowest = median
    BY <2>10
  <2>12. QED
    BY <1>3, <1>9, <2>1, <2>8, <2>11, ZenonT(60)
<1>12. n = 0 \/ n > 0
  BY <1>5
<1>13. QED
  BY <1>10, <1>11, <1>12, Zenon

-----------------------------------------------------------------------------
(* The computations of a block *)

\* Products of numbers that are not negative are ordered as the numbers are.
LEMMA Multiply ==
  ASSUME NEW a \in Int, NEW b \in Int, NEW c \in Nat, a <= b
  PROVE  a * c <= b * c
OBVIOUS

\* A positive factor can be cancelled.
LEMMA Cancel ==
  ASSUME NEW a \in Int, NEW b \in Int, NEW c \in Nat, c > 0, a * c <= b * c
  PROVE  a <= b
OBVIOUS

\* A truncated quotient of a number that is not negative.
LEMMA Quotient ==
  ASSUME NEW a \in Nat, NEW b \in Nat, b > 0
  PROVE  /\ a \div b \in Nat
         /\ (a \div b) * b <= a
         /\ a < (a \div b) * b + b
OBVIOUS

LEMMA Exact ==
  ASSUME NEW a \in Nat, NEW b \in Nat, b > 0
  PROVE  (a * b) \div b = a
OBVIOUS

\* Multiplication distributes over addition.
LEMMA Distribute ==
  ASSUME NEW a \in Int, NEW b \in Int, NEW c \in Int
  PROVE  a * (b + c) = a * b + a * c /\ a * (b + 1) = a * b + a
OBVIOUS

\* A linear bound of the values is one of the sums.
LEMMA SumLinear ==
  ASSUME NEW f, NEW g, NEW S, IsFiniteSet(S), NEW A \in Int, NEW B \in Int, NEW C \in Int,
         \A x \in S : f[x] \in Int /\ g[x] \in Int /\ A * f[x] <= B * g[x] + C
  PROVE  A * SumFunctionOnSet(f, S) <= B * SumFunctionOnSet(g, S) + C * Cardinality(S)
<1> DEFINE G == {U \in SUBSET S :
             A * SumFunctionOnSet(f, U) <= B * SumFunctionOnSet(g, U) + C * Cardinality(U)}
<1>1. {} \in G
  <2>1. SumFunctionOnSet(f, {}) = 0 /\ SumFunctionOnSet(g, {}) = 0 /\ Cardinality({}) = 0
    BY SumEmpty, FS_EmptySet, Zenon
  <2>2. A * 0 <= B * 0 + C * 0
    OBVIOUS
  <2>3. QED
    BY <2>1, <2>2, Zenon
<1>2. ASSUME NEW U \in SUBSET S, U # {}, U \ {Chosen(U)} \in G
      PROVE  U \in G
  <2>1. PICK c \in U : c = Chosen(U)
    BY <1>2, ChosenIn, Zenon
  <2>2. IsFiniteSet(U) /\ IsFiniteSet(U \ {c})
    BY FS_Subset, Zenon
  <2>3. /\ SumFunctionOnSet(f, U) = f[c] + SumFunctionOnSet(f, U \ {c})
        /\ SumFunctionOnSet(g, U) = g[c] + SumFunctionOnSet(g, U \ {c})
    BY <1>2, <2>1, <2>2, SumStep, Zenon
  <2>4. PICK u, w, n, m : /\ u = SumFunctionOnSet(f, U \ {c}) /\ w = SumFunctionOnSet(g, U \ {c})
                          /\ n = Cardinality(U \ {c}) /\ m = Cardinality(U)
    BY Zenon
  <2>5. u \in Int /\ w \in Int
    BY <2>2, <2>4, SumInt, ZenonT(60)
  <2>6. n \in Int /\ m = n + 1
    <3>1. m \in Nat /\ n = m - 1
      BY <2>1, <2>2, <2>4, FS_RemoveElement, FS_CardinalityType, ZenonT(60)
    <3>2. QED
      BY <3>1
  <2>7. f[c] \in Int /\ g[c] \in Int /\ A * f[c] <= B * g[c] + C
    BY <2>1, Zenon
  <2>8. A * u <= B * w + C * n
    BY <1>2, <2>1, <2>4, Zenon
  <2>9. A * (f[c] + u) <= B * (g[c] + w) + C * m
    <3>1. PICK x, y : x = f[c] /\ y = g[c]
      BY Zenon
    <3>2. x \in Int /\ y \in Int /\ A * x <= B * y + C
      BY <2>7, <3>1, Zenon
    <3>3. A * (x + u) = A * x + A * u /\ B * (y + w) = B * y + B * w /\ C * m = C * n + C
      <4>1. A * (x + u) = A * x + A * u
        BY <2>5, <3>2, Distribute, SMTT(30)
      <4>2. B * (y + w) = B * y + B * w
        BY <2>5, <3>2, Distribute, SMTT(30)
      <4>3. C * (n + 1) = C * n + C
        BY <2>6, Distribute, ZenonT(60)
      <4>4. QED
        BY <2>6, <4>1, <4>2, <4>3, ZenonT(60)
    <3>4. A * (x + u) <= B * (y + w) + C * m
      BY <2>5, <2>6, <2>8, <3>2, <3>3, SMTT(30)
    <3>5. QED
      BY <3>1, <3>4, Zenon
  <2>10. QED
    BY <2>3, <2>4, <2>9, Zenon
<1>3. S \in G
  <2> HIDE DEF G
  <2>1. QED
    BY <1>1, <1>2, SubsetInduction, ZenonT(60)
<1>4. QED
  BY <1>3, Zenon

\* What a module takes is the truncated percentage of the fees: all of them at most, unless
\* the percentage is above 100.
LEMMA PortionIs ==
  ASSUME NEW fees \in Nat, NEW percentage \in Nat
  PROVE  /\ Portion(fees, percentage) \in Nat
         /\ percentage <= 100 => Portion(fees, percentage) <= fees
<1>1. PICK P \in Nat : P = Precision /\ P > 0 /\ P % 100 = 0
  BY RewardsAssumption, Zenon
<1>2. PICK h : h = P \div 100
  BY Zenon
<1>3. h \in Nat /\ 100 * h = P
  BY <1>1, <1>2, SMTT(30)
<1>4. PICK r : r = percentage * h
  BY Zenon
<1>5. r \in Nat /\ (percentage <= 100 => r <= P)
  <2>1. r \in Nat
    BY <1>3, <1>4, SMTT(30)
  <2>2. percentage <= 100 => percentage * h <= 100 * h
    BY <1>3, Multiply, SMTT(30)
  <2>3. QED
    BY <2>1, <2>2, <1>3, <1>4, ZenonT(60)
<1>6. PICK a : a = (fees * P) * r
  BY Zenon
<1>7. a \in Nat /\ a = (fees * r) * P
  BY <1>1, <1>5, <1>6, SMTT(30)
<1>8. a \div P = fees * r /\ fees * r \in Nat
  <2>1. fees * r \in Nat
    BY <1>5
  <2>2. QED
    BY <1>1, <1>7, <2>1, Exact, ZenonT(60)
<1>9. PICK portion : portion = (fees * r) \div P
  BY Zenon
<1>10. Portion(fees, percentage) = portion
  BY <1>1, <1>2, <1>4, <1>6, <1>8, <1>9, ZenonT(60)
     DEF Portion, TruncateDecimal, MulTruncate, Dec, Ratio
<1>11. portion \in Nat /\ portion * P <= fees * r
  BY <1>1, <1>8, <1>9, Quotient, ZenonT(60)
<1>12. percentage <= 100 => portion <= fees
  <2>1. percentage <= 100 => r * fees <= P * fees
    BY <1>1, <1>5, Multiply, SMTT(30)
  <2>2. r * fees = fees * r /\ P * fees = fees * P
    BY <1>1, <1>5
  <2>3. percentage <= 100 => portion * P <= fees * P
    <3>1. PICK x, y, z : x = portion * P /\ y = fees * r /\ z = fees * P
      BY Zenon
    <3>2. x \in Int /\ y \in Int /\ z \in Int
      BY <3>1, <1>1, <1>5, <1>11, SMTT(30)
    <3>3. x <= y /\ (percentage <= 100 => y <= z)
      BY <3>1, <1>11, <2>1, <2>2, ZenonT(60)
    <3>4. percentage <= 100 => x <= z
      BY <3>2, <3>3, SMTT(30)
    <3>5. QED
      BY <3>1, <3>4, Zenon
  <2>4. portion \in Int /\ fees \in Int
    BY <1>11
  <2>5. QED
    BY <1>1, <2>3, <2>4, Cancel, ZenonT(60)
<1>13. QED
  BY <1>10, <1>11, <1>12, ZenonT(60)

\* The reward of a validator with power p of T, when k coins are shared and P is the
\* precision: q is its fraction.
ShareIs(P, T, p, k, q) ==
  /\ q \in Nat
  /\ (k * P * q) \div P = k * q
  /\ T * (k * q) <= (k * P) * p
  /\ (k * P) * p <= T * (k * q) + T * k

\* A share is at most in proportion to the power, and less than the coins below that.
LEMMA ShareBounds ==
  ASSUME NEW P \in Nat, P > 0, NEW T \in Nat, T > 0, NEW p \in Nat, NEW k \in Nat
  PROVE  ShareIs(P, T, p, k, (p * P * P) \div (T * P))
<1>1. PICK q : q = (p * P * P) \div (T * P)
  BY Zenon
<1>2. PICK a, b : a = p * P /\ b = T * P
  BY Zenon
<1>3. a \in Nat /\ b \in Nat /\ b > 0 /\ a * P \in Nat
  <2>1. a \in Nat /\ b \in Nat
    BY <1>2
  <2>2. b > 0
    BY <1>2
  <2>3. a * P \in Nat
    BY <2>1
  <2>4. QED
    BY <2>1, <2>2, <2>3, ZenonT(60)
<1>4. q = (a * P) \div b
  BY <1>2, <1>1, Zenon
<1>5. q \in Nat /\ q * b <= a * P /\ a * P < q * b + b
  BY <1>3, <1>4, Quotient, Zenon
<1>6. q * T <= a /\ a <= q * T + T
  <2>1. q * b = (q * T) * P /\ q * b + b = (q * T + T) * P
    BY <1>2, <1>5, SMTT(30)
  <2>2. q * T \in Int /\ q * T + T \in Int /\ a \in Int
    BY <1>3, <1>5
  <2>3. (q * T) * P <= a * P
    BY <2>1, <1>5, Zenon
  <2>4. a * P <= (q * T + T) * P
    <3>1. PICK x, y : x = a * P /\ y = q * b + b
      BY Zenon
    <3>2. x \in Int /\ y \in Int /\ x < y
      BY <3>1, <1>3, <1>5, SMTT(30)
    <3>3. x <= y
      BY <3>2
    <3>4. QED
      BY <3>1, <3>3, <2>1, ZenonT(60)
  <2>5. QED
    BY <1>3, <2>2, <2>3, <2>4, Cancel, ZenonT(60)
<1>7. k * q \in Nat /\ (k * P * q) = (k * q) * P
  BY <1>5
<1>8. (k * P * q) \div P = k * q
  BY <1>7, Exact, Zenon
<1>9. (q * T) * k <= a * k /\ a * k <= (q * T + T) * k
  <2>1. q * T \in Int /\ q * T + T \in Int /\ a \in Int
    BY <1>3, <1>5
  <2>2. QED
    BY <1>6, <2>1, Multiply, ZenonT(60)
<1>10. /\ T * (k * q) = (q * T) * k /\ (k * P) * p = a * k
      /\ T * (k * q) + T * k = (q * T + T) * k
  BY <1>2, <1>5, SMTT(30)
<1>11. QED
  BY <1>1, <1>5, <1>8, <1>9, <1>10, ZenonT(60) DEF ShareIs

\* What the validators, the proposer and the community pool get.
ValidatorsGet(fees, percentage, n, powers, first) ==
  LET coins == fees - first.fees
      shared == Dec(coins - first.community)
  IN  /\ ~first.ok => percentage > 100
      /\ first.fees \in Nat
      /\ first.ok =>
           /\ Dec(coins) = Dec(first.community) + Total(first.rewards) + first.rest
           /\ first.community >= 0
           /\ first.rest \in 0..(n * (coins + 1))
           /\ \A i \in DOMAIN first.rewards :
                first.rewards[i] * Total(powers) <= shared * powers[i]

\* What the members and the community pool get.
MembersGet(fees, percentage, tax, second) ==
  /\ ~second.ok => percentage > 100
  /\ second.ok =>
       /\ fees - second.fees = second.community + Total(second.rewards)
       /\ second.community >= 0
       /\ Dec(second.community) >= tax * (fees - second.fees)

\* AllocateTokens of x/oracle: the coins that are shared are k, so that a reward is a whole
\* number of fractions; summing the bounds of ShareIs gives those of the rest.
LEMMA ValidatorsShare ==
  ASSUME NEW fees \in Nat, NEW percentage \in Nat, NEW tax \in 0..Precision,
         NEW n \in Nat, NEW powers \in [1..n -> Nat]
  PROVE  ValidatorsGet(fees, percentage, n, powers,
                       AllocateToValidators(fees, percentage, tax, powers))
<1>1. PICK first : first = AllocateToValidators(fees, percentage, tax, powers)
  BY Zenon
<1>2. PICK P \in Nat : P = Precision /\ P > 0
  BY RewardsAssumption, Zenon
<1>3. PICK portion \in Nat : /\ portion = Portion(fees, percentage)
                             /\ percentage <= 100 => portion <= fees
  BY PortionIs, Zenon
<1>4. DOMAIN powers = 1..n /\ IsFiniteSet(1..n) /\ IsFiniteSet(DOMAIN powers)
  BY PositionsFinite, Zenon
<1>5. PICK T : T = Total(powers)
  BY Zenon
<1>6. T \in Nat
  BY <1>4, <1>5, SumNat, ZenonT(60) DEF Total
<1>7. PICK community : community = TruncateDecimal(MulTruncate(Dec(portion), tax))
  BY Zenon
<1>8. community \in Nat /\ community <= portion
  <2>1. tax \in Nat /\ tax <= P
    BY <1>2, SMTT(30)
  <2>2. portion * tax \in Nat /\ (portion * P) * tax = (portion * tax) * P
    BY <1>2, <2>1, SMTT(30)
  <2>3. ((portion * tax) * P) \div P = portion * tax
    BY <1>2, <2>2, Exact, ZenonT(60)
  <2>4. community = (portion * tax) \div P
    BY <1>2, <1>7, <2>2, <2>3, ZenonT(60) DEF TruncateDecimal, MulTruncate, Dec
  <2>5. community \in Nat /\ community * P <= portion * tax
    BY <1>2, <2>2, <2>4, Quotient, ZenonT(60)
  <2>6. tax * portion <= P * portion
    <3>1. tax \in Int /\ P \in Int
      BY <1>2, <2>1, SMTT(30)
    <3>2. QED
      BY <2>1, <3>1, Multiply, ZenonT(60)
  <2>7. community * P <= portion * P
    <3>1. PICK x, y, z : x = community * P /\ y = portion * tax /\ z = portion * P
      BY Zenon
    <3>2. x \in Int /\ y \in Int /\ z \in Int
      BY <3>1, <1>2, <2>1, <2>5, SMTT(30)
    <3>3. tax * portion = y /\ P * portion = z
      BY <3>1, <2>1, <1>2, SMTT(30)
    <3>4. x <= y /\ y <= z
      BY <3>1, <3>3, <2>5, <2>6, ZenonT(60)
    <3>5. x <= z
      BY <3>2, <3>4, SMTT(30)
    <3>6. QED
      BY <3>1, <3>5, ZenonT(60)
  <2>8. community \in Int /\ portion \in Int
    BY <2>5, SMTT(30)
  <2>9. QED
    BY <1>2, <2>5, <2>7, <2>8, Cancel, ZenonT(60)
<1>9. PICK k : k = portion - community
  BY Zenon
<1>10. k \in Nat /\ k <= portion
  BY <1>8, <1>9, SMTT(30)
<1>11. Dec(portion) - Dec(community) = k * P
  BY <1>2, <1>8, <1>9, SMTT(30) DEF Dec
<1>12. CASE T = 0
  <2>1. first = [ok |-> TRUE, fees |-> fees, community |-> 0, rewards |-> <<>>, rest |-> 0]
    <3>1. first = Nothing(fees)
      BY <1>1, <1>5, <1>12, ZenonT(60) DEF AllocateToValidators
    <3>2. QED
      BY <3>1, ZenonT(60) DEF Nothing, Error
  <2>2. /\ first.ok = TRUE /\ first.fees = fees /\ first.community = 0
        /\ first.rewards = <<>> /\ first.rest = 0
    BY <2>1, ZenonT(60)
  <2>3. DOMAIN first.rewards = {}
    BY <2>2
  <2>4. Total(first.rewards) = 0
    BY <2>3, SumEmpty, ZenonT(60) DEF Total
  <2>5. fees - first.fees = 0 /\ Dec(0) = 0 /\ 0 \in 0..(n * (0 + 1)) /\ 0 + 0 + 0 = 0 /\ 0 >= 0
    BY <1>2, <2>2, SMTT(30) DEF Dec
  <2>6. QED
    BY <1>1, <2>2, <2>3, <2>4, <2>5, ZenonT(60) DEF ValidatorsGet
<1>13. CASE T # 0 /\ portion > fees
  <2>1. first = Error(fees)
    BY <1>1, <1>3, <1>5, <1>13, ZenonT(60) DEF AllocateToValidators
  <2>2. first.ok = FALSE /\ first.fees = fees
    BY <2>1, ZenonT(60) DEF Error
  <2>3. percentage > 100
    BY <1>3, <1>13, SMTT(30)
  <2>4. QED
    BY <1>1, <1>3, <2>2, <2>3, ZenonT(60) DEF ValidatorsGet
<1>14. CASE T # 0 /\ ~(portion > fees)
  <2> DEFINE q(i) == (powers[i] * P * P) \div (T * P)
  <2>1. PICK rewards : rewards = [i \in DOMAIN powers |->
          MulTruncate(Dec(portion) - Dec(community), PowerFraction(powers[i], Total(powers)))]
    BY Zenon
  <2>2. first = [ok |-> TRUE, fees |-> fees - portion, community |-> community,
                 rewards |-> rewards, rest |-> Dec(portion) - Dec(community) - Total(rewards)]
    BY <1>1, <1>3, <1>5, <1>7, <1>14, <2>1, ZenonT(60) DEF AllocateToValidators
  <2>3. PICK R : R = Total(rewards)
    BY Zenon
  <2>4. /\ first.ok = TRUE /\ first.fees = fees - portion /\ first.community = community
        /\ first.rewards = rewards /\ first.rest = k * P - R
    BY <2>2, <2>3, <1>11, ZenonT(60)
  <2>5. T > 0
    BY <1>6, <1>14
  <2>6. ASSUME NEW i \in 1..n
        PROVE  /\ rewards[i] \in Nat /\ powers[i] \in Nat
               /\ T * rewards[i] <= (k * P) * powers[i]
               /\ (k * P) * powers[i] <= T * rewards[i] + T * k
    <3>1. powers[i] \in Nat
      BY Zenon
    <3>2. /\ q(i) \in Nat /\ (k * P * q(i)) \div P = k * q(i)
          /\ T * (k * q(i)) <= (k * P) * powers[i]
          /\ (k * P) * powers[i] <= T * (k * q(i)) + T * k
      <4>1. PICK p \in Nat : p = powers[i]
        BY <3>1, Zenon
      <4>2. PICK f : f = (p * P * P) \div (T * P)
        BY Zenon
      <4>3. ShareIs(P, T, p, k, (p * P * P) \div (T * P))
        BY <1>2, <1>6, <1>10, <2>5, ShareBounds, ZenonT(60)
      <4>4. ShareIs(P, T, p, k, f)
        BY <4>2, <4>3, Zenon
      <4>5. /\ f \in Nat /\ (k * P * f) \div P = k * f
            /\ T * (k * f) <= (k * P) * p /\ (k * P) * p <= T * (k * f) + T * k
        BY <4>4, Zenon DEF ShareIs
      <4>6. QED
        BY <4>1, <4>2, <4>5, Zenon
    <3>3. rewards[i] = (k * P * q(i)) \div P
      <4>1. rewards[i] = MulTruncate(k * P, PowerFraction(powers[i], T))
        BY <1>4, <1>5, <1>11, <2>1, ZenonT(60)
      <4>2. PowerFraction(powers[i], T) = q(i)
        BY <1>2, Zenon DEF PowerFraction, QuoTruncate, Dec
      <4>3. QED
        BY <1>2, <4>1, <4>2, Zenon DEF MulTruncate
    <3>4. rewards[i] = k * q(i)
      BY <3>2, <3>3, Zenon
    <3>5. k * q(i) \in Nat
      BY <1>10, <3>2, SMTT(30)
    <3>6. QED
      BY <3>1, <3>2, <3>4, <3>5, Zenon
  <2>7. R \in Nat
    <3>1. DOMAIN rewards = 1..n
      BY <1>4, <2>1, Zenon
    <3>2. R = SumFunctionOnSet(rewards, 1..n)
      BY <2>3, <3>1, Zenon DEF Total
    <3>3. \A i \in 1..n : rewards[i] \in Nat
      BY <2>6, Zenon
    <3>4. QED
      BY <1>4, <3>2, <3>3, SumNat, Zenon
  <2>8. T * R <= (k * P) * T /\ (k * P) * T <= T * R + (T * k) * n
    <3>1. PICK S : S = 1..n
      BY Zenon
    <3>2. DOMAIN rewards = S /\ DOMAIN powers = S
      BY <1>4, <2>1, <3>1, Zenon
    <3>3. IsFiniteSet(S) /\ Cardinality(S) = n
      <4>1. Cardinality(1..n) = IF 1 > n THEN 0 ELSE n - 1 + 1
        BY FS_Interval, SMTT(30)
      <4>2. QED
        BY <1>4, <3>1, <4>1, SMTT(30)
    <3>4. R = SumFunctionOnSet(rewards, S) /\ T = SumFunctionOnSet(powers, S)
      BY <1>5, <2>3, <3>2, Zenon DEF Total
    <3>5. PICK a, b, c : a = T /\ b = k * P /\ c = T * k
      BY Zenon
    <3>6. a \in Int /\ b \in Int /\ c \in Int
      BY <3>5, <1>2, <1>6, <1>10, SMTT(30)
    <3>7. \A i \in S : /\ rewards[i] \in Int /\ powers[i] \in Int
                       /\ a * rewards[i] <= b * powers[i] + 0
                       /\ b * powers[i] <= a * rewards[i] + c
      <4>1. ASSUME NEW i \in S
            PROVE  /\ rewards[i] \in Int /\ powers[i] \in Int
                   /\ a * rewards[i] <= b * powers[i] + 0
                   /\ b * powers[i] <= a * rewards[i] + c
        <5>1. PICK x, y : x = rewards[i] /\ y = powers[i]
          BY Zenon
        <5>2. x \in Nat /\ y \in Nat /\ a * x <= b * y /\ b * y <= a * x + c
          BY <2>6, <3>1, <3>5, <5>1, ZenonT(60)
        <5>3. x \in Int /\ y \in Int /\ a * x <= b * y + 0 /\ b * y <= a * x + c
          BY <3>6, <5>2
        <5>4. QED
          BY <5>1, <5>3, Zenon
      <4>2. QED
        BY <4>1, Zenon
    <3>8. 0 \in Int
      OBVIOUS
    <3>9. a * R <= b * T + 0 * n
      BY <3>3, <3>4, <3>6, <3>7, <3>8, SumLinear, ZenonT(60)
    <3>10. b * T <= a * R + c * n
      BY <3>3, <3>4, <3>6, <3>7, SumLinear, ZenonT(60)
    <3>11. a * R <= b * T
      BY <3>6, <3>9, <1>6, SMTT(30)
    <3>12. QED
      BY <3>5, <3>10, <3>11, Zenon
  <2>9. R <= k * P /\ k * P <= R + k * n
    <3>1. R * T <= (k * P) * T /\ (k * P) * T <= (R + k * n) * T
      <4>1. T * R = R * T /\ T * R + (T * k) * n = (R + k * n) * T
        BY <1>6, <1>10, <2>7, SMTT(30)
      <4>2. QED
        BY <2>8, <4>1, Zenon
    <3>2. R \in Int /\ k * P \in Int /\ R + k * n \in Int
      BY <1>2, <1>10, <2>7, SMTT(30)
    <3>3. QED
      BY <1>6, <2>5, <3>1, <3>2, Cancel, ZenonT(60)
  <2>10. fees - first.fees = portion /\ first.fees \in Nat
    BY <1>14, <2>4, SMTT(30)
  <2>11. Dec(portion) = Dec(community) + R + (k * P - R)
    BY <1>2, <1>8, <1>10, <1>11, <2>7, SMTT(30) DEF Dec
  <2>12. k * P - R \in 0..(n * (portion + 1))
    <3>1. k * n <= n * (portion + 1)
      <4>1. k * n <= (portion + 1) * n
        <5>1. k \in Int /\ portion + 1 \in Int /\ k <= portion + 1
          BY <1>10, SMTT(30)
        <5>2. QED
          BY <5>1, Multiply, ZenonT(60)
      <4>2. (portion + 1) * n = n * (portion + 1)
        OBVIOUS
      <4>3. QED
        BY <4>1, <4>2, Zenon
    <3>2. PICK x, y, z : x = k * P /\ y = k * n /\ z = n * (portion + 1)
      BY Zenon
    <3>3. x \in Int /\ y \in Int /\ z \in Int
      BY <3>2, <1>2, <1>10, SMTT(30)
    <3>4. y <= z /\ R <= x /\ x <= R + y
      BY <3>1, <3>2, <2>9, ZenonT(60)
    <3>5. x - R \in 0..z
      BY <3>3, <3>4, <2>7, SMTT(30)
    <3>6. QED
      BY <3>2, <3>5, ZenonT(60)
  <2>13. Dec(portion - community) = k * P
    BY <1>2, <1>9, ZenonT(60) DEF Dec
  <2>14. ASSUME NEW i \in DOMAIN rewards
         PROVE  rewards[i] * T <= (k * P) * powers[i]
    <3>1. i \in 1..n
      BY <1>4, <2>1, <2>14, ZenonT(60)
    <3>2. rewards[i] * T = T * rewards[i]
      BY <1>6, <2>6, <3>1, SMTT(30)
    <3>3. QED
      BY <2>6, <3>1, <3>2, ZenonT(60)
  <2>15. community >= 0
    BY <1>8, SMTT(30)
  <2>16. QED
    BY <1>1, <1>5, <2>3, <2>4, <2>10, <2>11, <2>12, <2>13, <2>14, <2>15, ZenonT(60)
       DEF ValidatorsGet
<1>15. QED
  BY <1>12, <1>13, <1>14, Zenon

\* AllocateTokens of x/bandtss: n truncated parts are at most the portion without the tax.
LEMMA MembersShare ==
  ASSUME NEW fees \in Nat, NEW percentage \in Nat, NEW tax \in 0..Precision, NEW n \in Nat
  PROVE  MembersGet(fees, percentage, tax, AllocateToMembers(fees, percentage, tax, n))
<1>1. PICK second : second = AllocateToMembers(fees, percentage, tax, n)
  BY Zenon
<1>2. PICK P \in Nat : P = Precision /\ P > 0
  BY RewardsAssumption, Zenon
<1>3. PICK portion \in Nat : /\ portion = Portion(fees, percentage)
                             /\ percentage <= 100 => portion <= fees
  BY PortionIs, Zenon
<1>4. tax \in Nat /\ tax <= P
  BY <1>2
<1>5. CASE n = 0
  <2>1. second = [ok |-> TRUE, fees |-> fees, community |-> 0, rewards |-> <<>>, rest |-> 0]
    <3>1. second = Nothing(fees)
      BY <1>1, <1>5, Zenon DEF AllocateToMembers
    <3>2. QED
      BY <3>1, ZenonT(60) DEF Nothing, Error
  <2>2. /\ second.ok = TRUE /\ second.fees = fees /\ second.community = 0
        /\ second.rewards = <<>>
    BY <2>1, ZenonT(60)
  <2>3. DOMAIN second.rewards = {}
    BY <2>2
  <2>4. Total(second.rewards) = 0
    BY <2>3, SumEmpty, ZenonT(60) DEF Total
  <2>5. fees - second.fees = 0 /\ Dec(0) >= tax * 0 /\ 0 + 0 = 0 /\ 0 >= 0
    BY <1>2, <1>4, <2>2, SMTT(30) DEF Dec
  <2>6. QED
    BY <1>1, <2>2, <2>4, <2>5, ZenonT(60) DEF MembersGet
<1>6. CASE n # 0 /\ portion > fees
  <2>1. second = Error(fees)
    BY <1>1, <1>3, <1>6, ZenonT(60) DEF AllocateToMembers
  <2>2. second.ok = FALSE
    BY <2>1, ZenonT(60) DEF Error
  <2>3. percentage > 100
    BY <1>3, <1>6, SMTT(30)
  <2>4. QED
    BY <1>1, <2>2, <2>3, ZenonT(60) DEF MembersGet
<1>7. CASE n # 0 /\ ~(portion > fees)
  <2>1. PICK reward : reward = MemberReward(portion, tax, n)
    BY Zenon
  <2>2. PICK rewards : rewards = [i \in 1..n |-> reward]
    BY Zenon
  <2>3. second = [ok |-> TRUE, fees |-> fees - portion, community |-> portion - n * reward,
                  rewards |-> rewards, rest |-> 0]
    BY <1>1, <1>3, <1>7, <2>1, <2>2, ZenonT(60) DEF AllocateToMembers
  <2>4. /\ second.ok = TRUE /\ second.fees = fees - portion
        /\ second.community = portion - n * reward /\ second.rewards = rewards
    BY <2>3, ZenonT(60)
  <2>5. PICK u \in Nat : u = P - tax
    BY <1>2, <1>4, SMTT(30)
  <2>6. PICK M \in Nat : M = portion * u
    BY <2>5
  <2>7. PICK w : w = (P * P) \div (n * P)
    BY Zenon
  <2>8. w \in Nat /\ w * n <= P
    <3>1. PICK a, b : a = P * P /\ b = n * P
      BY Zenon
    <3>2. a \in Nat /\ b \in Nat /\ b > 0
      BY <3>1, <1>2, <1>7, SMTT(30)
    <3>3. w = a \div b
      BY <3>1, <2>7, Zenon
    <3>4. w \in Nat /\ w * b <= a
      BY <3>2, <3>3, Quotient, ZenonT(60)
    <3>5. (w * n) * P = w * b /\ w * n \in Int /\ P \in Int
      BY <3>1, <3>4, <1>2, SMTT(30)
    <3>6. (w * n) * P <= P * P
      BY <3>1, <3>4, <3>5, ZenonT(60)
    <3>7. QED
      BY <1>2, <3>4, <3>5, <3>6, Cancel, ZenonT(60)
  <2>9. PICK v : v = (M * w) \div P
    BY Zenon
  <2>10. reward = v \div P
    <3>1. MulTruncate(Dec(portion), Precision - tax) = M
      <4>1. (portion * P) * u = (portion * u) * P /\ portion * u \in Nat
        BY <2>5
      <4>2. ((portion * u) * P) \div P = portion * u
        BY <1>2, <4>1, Exact, ZenonT(60)
      <4>3. QED
        BY <1>2, <2>5, <2>6, <4>1, <4>2, ZenonT(60) DEF MulTruncate, Dec
    <3>2. QuoTruncate(Precision, Dec(n)) = w
      BY <1>2, <2>7, Zenon DEF QuoTruncate, Dec
    <3>3. reward = TruncateDecimal(MulTruncate(M, w))
      BY <2>1, <3>1, <3>2, ZenonT(60) DEF MemberReward
    <3>4. QED
      BY <1>2, <2>9, <3>3, ZenonT(60) DEF TruncateDecimal, MulTruncate
  <2>11. v \in Nat /\ v * P <= M * w
    <3>1. M * w \in Nat
      BY <2>8
    <3>2. QED
      BY <1>2, <2>9, <3>1, Quotient, ZenonT(60)
  <2>12. reward \in Nat /\ reward * P <= v
    BY <1>2, <2>10, <2>11, Quotient, ZenonT(60)
  <2>13. (n * reward) * P <= M
    <3>1. PICK x, y : x = reward * P /\ y = M * w
      BY Zenon
    <3>2. x \in Int /\ y \in Int /\ v \in Int /\ x <= v
      BY <3>1, <1>2, <2>8, <2>11, <2>12, SMTT(30)
    <3>3. x * P <= v * P
      BY <3>2, Multiply, Zenon
    <3>4. x * P <= y
      <4>1. PICK a, b : a = x * P /\ b = v * P
        BY Zenon
      <4>2. a \in Int /\ b \in Int /\ a <= b
        BY <4>1, <3>2, <3>3, SMTT(30)
      <4>3. b <= y
        BY <4>1, <2>11, <3>1, ZenonT(60)
      <4>4. a <= y
        BY <4>2, <4>3, <3>2, SMTT(30)
      <4>5. QED
        BY <4>1, <4>4, Zenon
    <3>5. (x * P) * n <= y * n
      <4>1. x * P \in Int
        BY <3>2
      <4>2. QED
        BY <3>2, <3>4, <4>1, Multiply, ZenonT(60)
    <3>6. (w * n) * M <= P * M
      <4>1. w * n \in Int /\ P \in Int
        BY <2>8, SMTT(30)
      <4>2. QED
        BY <2>8, <4>1, Multiply, ZenonT(60)
    <3>7. /\ (x * P) * n = ((n * reward) * P) * P
          /\ y * n = (w * n) * M /\ P * M = M * P
      BY <3>1, <2>8, <2>12, SMTT(30)
    <3>8. ((n * reward) * P) * P <= M * P
      <4>1. PICK a, b, c : a = ((n * reward) * P) * P /\ b = y * n /\ c = M * P
        BY Zenon
      <4>2. a \in Int /\ b \in Int /\ c \in Int
        BY <4>1, <2>12, <3>2, SMTT(30)
      <4>3. a <= b /\ b <= c
        BY <4>1, <3>5, <3>6, <3>7, ZenonT(60)
      <4>4. a <= c
        BY <4>2, <4>3, SMTT(30)
      <4>5. QED
        BY <4>1, <4>4, Zenon
    <3>9. (n * reward) * P \in Int /\ M \in Int
      BY <2>12
    <3>10. QED
      BY <1>2, <3>8, <3>9, Cancel, ZenonT(60)
  <2>14. PICK given : given = n * reward
    BY Zenon
  <2>15. given \in Nat /\ given * P <= portion * P - portion * tax
    <3>1. given \in Nat
      BY <2>12, <2>14, SMTT(30)
    <3>2. portion * u = portion * P - portion * tax
      BY <1>4, <2>5
    <3>3. QED
      BY <2>6, <2>13, <2>14, <3>1, <3>2, ZenonT(60)
  <2>16. Dec(portion - given) >= tax * portion
    <3>1. (portion - given) * P = portion * P - given * P /\ tax * portion = portion * tax
      BY <1>4, <2>15
    <3>2. PICK x, y, z : x = portion * P /\ y = given * P /\ z = portion * tax
      BY Zenon
    <3>3. x \in Int /\ y \in Int /\ z \in Int /\ y <= x - z
      BY <3>2, <1>4, <2>15, SMTT(30)
    <3>4. x - y >= z
      BY <3>3, SMTT(30)
    <3>5. QED
      BY <1>2, <3>1, <3>2, <3>4, ZenonT(60) DEF Dec
  <2>17. portion - given >= 0
    <3>1. given * P <= portion * P
      <4>1. PICK x, y, z : x = portion * P /\ y = given * P /\ z = portion * tax
        BY Zenon
      <4>2. x \in Int /\ y \in Int /\ z \in Nat /\ y <= x - z
        BY <4>1, <1>4, <2>15, SMTT(30)
      <4>3. y <= x
        BY <4>2
      <4>4. QED
        BY <4>1, <4>3, ZenonT(60)
    <3>2. given \in Int /\ portion \in Int
      BY <2>15
    <3>3. given <= portion
      BY <1>2, <3>1, <3>2, Cancel, ZenonT(60)
    <3>4. QED
      BY <3>2, <3>3, SMTT(30)
  <2>18. Total(rewards) = given
    <3>1. PICK S : S = 1..n
      BY Zenon
    <3>2. DOMAIN rewards = S /\ \A i \in S : rewards[i] = reward
      BY <2>2, <3>1, ZenonT(60)
    <3>3. IsFiniteSet(S) /\ Cardinality(S) = n
      <4>1. Cardinality(1..n) = IF 1 > n THEN 0 ELSE n - 1 + 1
        BY FS_Interval, SMTT(30)
      <4>2. QED
        BY PositionsFinite, <3>1, <4>1, SMTT(30)
    <3>4. PICK t, z : t = -reward /\ z = -1
      BY Zenon
    <3>5. t \in Int /\ z \in Int /\ 1 \in Int /\ 0 \in Int /\ reward \in Int
      BY <2>12, <3>4, SMTT(30)
    <3>6. \A i \in S : /\ rewards[i] \in Int
                       /\ 1 * rewards[i] <= 0 * rewards[i] + reward
                       /\ z * rewards[i] <= 0 * rewards[i] + t
      BY <3>2, <3>4, <3>5, SMTT(30)
    <3>7. PICK total : total = SumFunctionOnSet(rewards, S)
      BY Zenon
    <3>8. total \in Int
      BY <3>3, <3>6, <3>7, SumInt, ZenonT(60)
    <3>9. 1 * total <= 0 * total + reward * n
      BY <3>3, <3>5, <3>6, <3>7, SumLinear, ZenonT(60)
    <3>10. z * total <= 0 * total + t * n
      BY <3>3, <3>5, <3>6, <3>7, SumLinear, ZenonT(60)
    <3>11. total = n * reward
      <4>1. reward * n = n * reward /\ t * n = -(n * reward) /\ n * reward \in Int
        BY <2>12, <3>4, SMTT(30)
      <4>2. PICK y : y = n * reward
        BY Zenon
      <4>3. y \in Int /\ 1 * total <= 0 * total + y /\ (-1) * total <= 0 * total + (-y)
        BY <3>4, <3>9, <3>10, <4>1, <4>2, ZenonT(60)
      <4>4. total = y
        BY <3>8, <4>3, SMTT(30)
      <4>5. QED
        BY <4>2, <4>4, Zenon
    <3>12. QED
      BY <2>14, <3>2, <3>7, <3>11, ZenonT(60) DEF Total
  <2>19. fees - second.fees = portion
    BY <2>4
  <2>20. portion = (portion - given) + given
    BY <2>15
  <2>21. QED
    BY <1>1, <2>4, <2>14, <2>16, <2>17, <2>18, <2>19, <2>20, ZenonT(60) DEF MembersGet
<1>8. QED
  BY <1>5, <1>6, <1>7, ZenonT(60)

-----------------------------------------------------------------------------
\* What BlockNext makes of input.
InputInv ==
  /\ input.of = "feed" => input.infos \in Seq(ValidatorPriceInfo)
  /\ input.of = "block" =>
       /\ input.fees \in Nat /\ input.oracle \in Nat /\ input.tss \in Nat
       /\ input.tax \in 0..Precision /\ input.members \in Nat
       /\ \E n \in Nat : input.powers \in [1..n -> Nat]

\* The inputs are the ones that the code can meet.
LEMMA InputsTyped == BlockSpec => []InputInv
<1>1. BlockInit => InputInv
  <2>1. SUFFICES ASSUME BlockInit PROVE InputInv
    BY Zenon
  <2>2. input.of = "start"
    BY <2>1, ZenonT(60) DEF BlockInit
  <2>3. "start" # "feed" /\ "start" # "block"
    BY ZenonT(60)
  <2>4. QED
    BY <2>2, <2>3, Zenon DEF InputInv
<1>2. InputInv /\ [BlockNext]_input => InputInv'
  <2>1. SUFFICES ASSUME InputInv, [BlockNext]_input PROVE InputInv'
    BY Zenon
  <2>2. CASE UNCHANGED input
    BY <2>1, <2>2, Zenon DEF InputInv
  <2>3. CASE OpenFeed
    <3>1. input' = [of |-> "feed", infos |-> <<>>]
      BY <2>3, Zenon DEF OpenFeed
    <3>2. input'.of = "feed" /\ input'.infos = <<>>
      BY <3>1, ZenonT(60)
    <3>3. <<>> \in Seq(ValidatorPriceInfo) /\ "feed" # "block"
      OBVIOUS
    <3>4. QED
      BY <3>2, <3>3, Zenon DEF InputInv
  <2>4. CASE input.of = "feed" /\ \E info \in Infos : Collect(info)
    <3>1. PICK info \in Infos : Collect(info)
      BY <2>4, Zenon
    <3>2. info \in ValidatorPriceInfo
      BY BlockAssumption, ZenonT(60) DEF Infos, ValidatorPriceInfo
    <3>3. input' = [input EXCEPT !.infos = Append(input.infos, info)]
      BY <3>1, Zenon DEF Collect
    <3>4. PICK infos \in Seq(ValidatorPriceInfo) : infos = input.infos
      BY <2>1, <2>4, Zenon DEF InputInv
    <3>5. Append(infos, info) \in Seq(ValidatorPriceInfo)
      BY <3>2
    <3>6. input'.of = "feed" /\ input'.infos = Append(infos, info)
      BY <2>4, <3>3, <3>4, SMTT(30)
    <3>7. "feed" # "block"
      BY ZenonT(60)
    <3>8. QED
      BY <3>5, <3>6, <3>7, Zenon DEF InputInv
  <2>5. CASE Reward
    <3>1. PICK fees \in BlockFees, oracle \in Percentages, tss \in Percentages, tax \in Taxes,
               powers \in PowerLists(MaxChoice), members \in 0..MaxMembers :
             input' = [of |-> "block", fees |-> fees, oracle |-> oracle, tss |-> tss,
                       tax |-> tax, powers |-> powers, members |-> members]
      BY <2>5, Zenon DEF Reward
    <3>2. /\ input'.of = "block" /\ input'.fees = fees /\ input'.oracle = oracle
          /\ input'.tss = tss /\ input'.tax = tax /\ input'.powers = powers
          /\ input'.members = members
      BY <3>1, ZenonT(60)
    <3>3. /\ fees \in Nat /\ oracle \in Nat /\ tss \in Nat /\ tax \in 0..Precision
      BY BlockAssumption, Zenon
    <3>4. members \in Nat
      BY BlockAssumption
    <3>5. \E n \in Nat : powers \in [1..n -> Nat]
      <4>1. PICK n \in 1..MaxChoice : powers \in [1..n -> ValidatorPowers]
        BY Zenon DEF PowerLists
      <4>2. n \in Nat
        BY BlockAssumption
      <4>3. ValidatorPowers \subseteq Nat
        BY BlockAssumption, Zenon
      <4>4. powers \in [1..n -> Nat]
        BY <4>1, <4>3, Zenon
      <4>5. QED
        BY <4>2, <4>4, Zenon
    <3>6. "block" # "feed"
      BY ZenonT(60)
    <3>7. QED
      BY <3>2, <3>3, <3>4, <3>5, <3>6, ZenonT(60) DEF InputInv
  <2>6. QED
    BY <2>1, <2>2, <2>3, <2>4, <2>5, ZenonT(60) DEF BlockNext
<1>3. QED
  BY <1>1, <1>2, PTL DEF BlockSpec

\* MedianIsReference for any number of validators and any powers, prices and timestamps:
\* what the loops of MedianValidatorPriceInfos compute is the median by its definition.
THEOREM EveryMedianIsReference == BlockSpec => []MedianIsReference
<1>1. InputInv => MedianIsReference
  BY MedianIsByDefinition, Zenon DEF InputInv, MedianIsReference
<1>2. QED
  BY <1>1, InputsTyped, PTL

\* QuarterCannotMovePrice for any number of validators and any powers, prices and
\* timestamps: a quarter of the available power cannot move a price out of the range of the
\* other prices.
THEOREM NoQuarterMovesPrice == BlockSpec => []QuarterCannotMovePrice
<1>1. InputInv => QuarterCannotMovePrice
  BY QuarterNeverDecides, ZenonT(60) DEF InputInv, QuarterCannotMovePrice
<1>2. QED
  BY <1>1, InputsTyped, PTL

\* RewardsAddUp for any precision, fees, percentages, taxes, powers and numbers of members.
THEOREM EveryRewardAddsUp == BlockSpec => []RewardsAddUp
<1>1. InputInv => RewardsAddUp
  <2>1. SUFFICES ASSUME InputInv, input.of = "block" PROVE RewardsAddUp
    BY Zenon DEF RewardsAddUp
  <2>2. PICK n \in Nat : input.powers \in [1..n -> Nat]
    BY <2>1, Zenon DEF InputInv
  <2>3. /\ input.fees \in Nat /\ input.oracle \in Nat /\ input.tss \in Nat
        /\ input.tax \in 0..Precision /\ input.members \in Nat
    BY <2>1, Zenon DEF InputInv
  <2>4. PICK first : first = AllocateToValidators(input.fees, input.oracle, input.tax, input.powers)
    BY Zenon
  <2>5. ValidatorsGet(input.fees, input.oracle, n, input.powers, first)
    BY <2>2, <2>3, <2>4, ValidatorsShare, Zenon
  <2>6. PICK second : second = AllocateToMembers(first.fees, input.tss, input.tax, input.members)
    BY Zenon
  <2>7. MembersGet(first.fees, input.tss, input.tax, second)
    <3>1. first.fees \in Nat
      BY <2>5, Zenon DEF ValidatorsGet
    <3>2. QED
      BY <2>3, <2>6, <3>1, MembersShare, Zenon
  <2>8. Len(input.powers) = n
    BY <2>2
  <2>9. QED
    BY <2>4, <2>5, <2>6, <2>7, <2>8, ZenonT(60) DEF RewardsAddUp, ValidatorsGet, MembersGet
<1>2. QED
  BY <1>1, InputsTyped, PTL
=============================================================================
