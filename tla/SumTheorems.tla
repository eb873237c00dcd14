---------------------------- MODULE SumTheorems ----------------------------
(***************************************************************************)
(* Facts about sums over finite sets, SumFunctionOnSet of the community    *)
(* modules: that the order of the summands does not matter, what becomes   *)
(* of a sum when one summand changes, and bounds on sums.                  *)
(*                                                                         *)
(* The induction theorems of the library take the induction formula as an  *)
(* operator. The inductions here use its first-order form instead: a       *)
(* non-empty set of subsets of a finite set has a minimal element, so      *)
(* there is none that is a smallest counterexample.                        *)
(***************************************************************************)
EXTENDS Integers, Functions, FiniteSetsExt, FiniteSetTheorems, WellFoundedInduction, TLAPS

\* Every set of subsets of a finite set has a minimal element.
LEMMA MinimalSubset ==
  ASSUME NEW S, IsFiniteSet(S), NEW C \in SUBSET SUBSET S, C # {}
  PROVE  \E m \in C : \A s \in C : s \subseteq m => s = m
<1>1. IsWellFoundedOn(StrictSubsetOrdering(S), SUBSET S)
  BY FS_StrictSubsetOrderingWellFounded, FS_FiniteSubsetsOfFinite, Zenon
<1>2. \E m \in C : \A s \in C : <<s, m>> \notin StrictSubsetOrdering(S)
  BY <1>1, WFMin, Zenon
<1> QED
  BY <1>2 DEF StrictSubsetOrdering

-----------------------------------------------------------------------------
(* The function that SumFunctionOnSet chooses exists *)

\* The element with which a sum over s begins.
First(s) == CHOOSE x \in s : TRUE

Rest(s) == s \ {First(s)}

\* g is the function that the definition of SumFunctionOnSet(f, S) chooses.
IsIteration(g, f, S) ==
  g = [s \in SUBSET S |-> IF s = {} THEN 0 ELSE f[First(s)] + g[Rest(s)]]

\* First picks an element.
LEMMA FirstIsElement == ASSUME NEW s, s # {} PROVE First(s) \in s
BY DEF First

\* Two such functions agree where both are defined.
LEMMA IterationsAgree ==
  ASSUME NEW f, NEW S, NEW T, IsFiniteSet(S), NEW g, NEW h,
         IsIteration(g, f, S), IsIteration(h, f, T)
  PROVE  \A s \in SUBSET S : s \subseteq T => g[s] = h[s]
<1> DEFINE C == {s \in SUBSET S : s \subseteq T /\ g[s] # h[s]}
<1>1. SUFFICES ASSUME C # {} PROVE FALSE
  OBVIOUS
<1>2. PICK m \in C : \A s \in C : s \subseteq m => s = m
  <2>1. C \in SUBSET SUBSET S
    OBVIOUS
  <2> HIDE DEF C
  <2> QED
    BY ONLY <1>1, <2>1, IsFiniteSet(S), MinimalSubset
<1>3. m \in SUBSET S /\ m \in SUBSET T
  OBVIOUS
<1>4. m # {}
  <2>1. g[{}] = 0 /\ h[{}] = 0
    BY DEF IsIteration
  <2> QED
    BY <2>1
<1>5. First(m) \in m
  BY <1>4, FirstIsElement
<1>6. Rest(m) \subseteq m /\ Rest(m) # m
  BY <1>5 DEF Rest
<1>7. g[Rest(m)] = h[Rest(m)]
  BY <1>2, <1>3, <1>6
<1>8. g[m] = f[First(m)] + g[Rest(m)] /\ h[m] = f[First(m)] + h[Rest(m)]
  BY <1>3, <1>4 DEF IsIteration
<1> QED
  BY <1>7, <1>8

\* There is such a function for every finite set.
LEMMA IterationExists ==
  ASSUME NEW f, NEW S, IsFiniteSet(S)
  PROVE  \E g : IsIteration(g, f, S)
<1> DEFINE C == {s \in SUBSET S : ~\E g : IsIteration(g, f, s)}
<1>1. SUFFICES ASSUME C # {} PROVE FALSE
  OBVIOUS
<1>2. PICK m \in C : \A s \in C : s \subseteq m => s = m
  <2>1. C \in SUBSET SUBSET S
    OBVIOUS
  <2> HIDE DEF C
  <2> QED
    BY ONLY <1>1, <2>1, IsFiniteSet(S), MinimalSubset
<1> DEFINE Iter(s) == CHOOSE g : IsIteration(g, f, s)
           G == [s \in SUBSET m |-> IF s = {} THEN 0 ELSE f[First(s)] + Iter(Rest(s))[Rest(s)]]
<1>3. ASSUME NEW s \in SUBSET m, s # {}
      PROVE  IsIteration(Iter(Rest(s)), f, Rest(s)) /\ Rest(s) \in SUBSET m
  <2>1. First(s) \in s
    BY <1>3, FirstIsElement
  <2>2. Rest(s) \in SUBSET S /\ Rest(s) \subseteq m /\ Rest(s) # m
    BY <2>1 DEF Rest
  <2>3. \E g : IsIteration(g, f, Rest(s))
    BY <1>2, <2>2
  <2> QED
    BY <2>2, <2>3
<1>4. ASSUME NEW s \in SUBSET m, s # {}
      PROVE  G[Rest(s)] = Iter(Rest(s))[Rest(s)]
  <2> DEFINE r == Rest(s)
  <2>1. IsIteration(Iter(r), f, r) /\ r \in SUBSET m
    BY <1>3, <1>4
  <2>2. CASE r = {}
    <3>1. Iter(r)[r] = 0
      BY <2>1, <2>2 DEF IsIteration
    <3> QED
      BY <3>1, <2>2
  <2>3. CASE r # {}
    <3>1. IsIteration(Iter(Rest(r)), f, Rest(r))
      BY <1>3, <2>1, <2>3
    <3>2. Rest(r) \subseteq r
      BY DEF Rest
    <3>3. IsFiniteSet(r)
      BY <2>1, FS_Subset
    <3>4. Iter(r)[Rest(r)] = Iter(Rest(r))[Rest(r)]
      BY <2>1, <3>1, <3>2, <3>3, IterationsAgree
    <3>5. Iter(r)[r] = f[First(r)] + Iter(r)[Rest(r)]
      BY <2>1, <2>3 DEF IsIteration
    <3> QED
      BY <2>1, <2>3, <3>4, <3>5
  <2> QED
    BY <2>2, <2>3
<1>5. IsIteration(G, f, m)
  <2>1. G = [s \in SUBSET m |-> IF s = {} THEN 0 ELSE f[First(s)] + G[Rest(s)]]
    <3>1. \A s \in SUBSET m :
            G[s] = IF s = {} THEN 0 ELSE f[First(s)] + Iter(Rest(s))[Rest(s)]
      OBVIOUS
    <3>2. G = [s \in SUBSET m |-> G[s]]
      OBVIOUS
    <3> HIDE DEF G
    <3>3. \A s \in SUBSET m : G[s] = IF s = {} THEN 0 ELSE f[First(s)] + G[Rest(s)]
      BY <1>4, <3>1
    <3> QED
      BY <3>2, <3>3, Zenon
  <2> QED
    BY <2>1 DEF IsIteration
<1> QED
  BY <1>2, <1>5

\* The definition of SumFunctionOnSet, as an equation.
LEMMA SumDefined ==
  ASSUME NEW f, NEW S, IsFiniteSet(S)
  PROVE  \E g : IsIteration(g, f, S) /\ SumFunctionOnSet(f, S) = g[S]
<1> DEFINE Iteration == CHOOSE g : IsIteration(g, f, S)
<1>1. IsIteration(Iteration, f, S)
  BY IterationExists
<1>2. SumFunctionOnSet(f, S) = Iteration[S]
  BY DEF SumFunctionOnSet, FoldFunctionOnSet, MapThenFoldSet, IsIteration, First, Rest
<1> QED
  BY <1>1, <1>2

-----------------------------------------------------------------------------
(* Sums *)

\* The sum of nothing is 0.
THEOREM SumEmpty ==
  ASSUME NEW f
  PROVE  SumFunctionOnSet(f, {}) = 0
<1>1. IsFiniteSet({})
  BY FS_EmptySet
<1>2. PICK g : IsIteration(g, f, {}) /\ SumFunctionOnSet(f, {}) = g[{}]
  BY <1>1, SumDefined
<1> QED
  BY <1>2 DEF IsIteration

\* A sum is that of its first element and the rest.
LEMMA SumFirst ==
  ASSUME NEW f, NEW S, IsFiniteSet(S), S # {}
  PROVE  SumFunctionOnSet(f, S) = f[First(S)] + SumFunctionOnSet(f, Rest(S))
<1>1. PICK g : IsIteration(g, f, S) /\ SumFunctionOnSet(f, S) = g[S]
  BY SumDefined
<1>2. Rest(S) \in SUBSET S /\ IsFiniteSet(Rest(S))
  BY FS_Subset DEF Rest
<1>3. PICK h : IsIteration(h, f, Rest(S)) /\ SumFunctionOnSet(f, Rest(S)) = h[Rest(S)]
  BY <1>2, SumDefined
<1>4. g[Rest(S)] = h[Rest(S)]
  BY <1>1, <1>2, <1>3, IterationsAgree
<1>5. g[S] = f[First(S)] + g[Rest(S)]
  BY <1>1 DEF IsIteration
<1> QED
  BY <1>1, <1>3, <1>4, <1>5

\* A sum of integers is one.
THEOREM SumType ==
  ASSUME NEW f, NEW S, IsFiniteSet(S), \A x \in S : f[x] \in Int
  PROVE  SumFunctionOnSet(f, S) \in Int
<1> DEFINE C == {s \in SUBSET S : SumFunctionOnSet(f, s) \notin Int}
<1>1. SUFFICES ASSUME C # {} PROVE FALSE
  <2>1. S \in SUBSET S
    OBVIOUS
  <2> QED
    BY <2>1
<1>2. PICK m \in C : \A s \in C : s \subseteq m => s = m
  <2>1. C \in SUBSET SUBSET S
    OBVIOUS
  <2> HIDE DEF C
  <2> QED
    BY ONLY <1>1, <2>1, IsFiniteSet(S), MinimalSubset
<1>3. m # {}
  BY SumEmpty
<1>4. First(m) \in m /\ IsFiniteSet(m)
  BY <1>3, FirstIsElement, FS_Subset
<1>5. Rest(m) \subseteq m /\ Rest(m) # m
  BY <1>4 DEF Rest
<1>6. SumFunctionOnSet(f, Rest(m)) \in Int
  BY <1>2, <1>5
<1>7. SumFunctionOnSet(f, m) = f[First(m)] + SumFunctionOnSet(f, Rest(m))
  BY <1>3, <1>4, SumFirst
<1> QED
  BY <1>4, <1>6, <1>7

\* Any element may be taken out first.
THEOREM SumRemove ==
  ASSUME NEW f, NEW S, IsFiniteSet(S), \A x \in S : f[x] \in Int, NEW e \in S
  PROVE  SumFunctionOnSet(f, S) = f[e] + SumFunctionOnSet(f, S \ {e})
<1> DEFINE Removable(s, x) ==
             SumFunctionOnSet(f, s) = f[x] + SumFunctionOnSet(f, s \ {x})
           C == {s \in SUBSET S : \E x \in s : ~Removable(s, x)}
<1>1. SUFFICES ASSUME C # {} PROVE FALSE
  <2>1. S \in SUBSET S
    OBVIOUS
  <2> QED
    BY <2>1
<1>2. PICK m \in C : \A s \in C : s \subseteq m => s = m
  <2>1. C \in SUBSET SUBSET S
    OBVIOUS
  <2> HIDE DEF C
  <2> QED
    BY ONLY <1>1, <2>1, IsFiniteSet(S), MinimalSubset
<1>3. PICK x \in m : ~Removable(m, x)
  OBVIOUS
<1>4. PICK c \in m : c = First(m)
  BY FirstIsElement
<1>5. \A s \in SUBSET S : IsFiniteSet(s) /\ SumFunctionOnSet(f, s) \in Int
  BY FS_Subset, SumType
<1>6. SumFunctionOnSet(f, m) = f[c] + SumFunctionOnSet(f, m \ {c})
  BY <1>4, <1>5, SumFirst DEF Rest
<1>7. c # x
  BY <1>3, <1>6
<1>8. Removable(m \ {c}, x) /\ Removable(m \ {x}, c)
  <2>1. /\ m \ {c} \in SUBSET S /\ m \ {c} \notin C
        /\ m \ {x} \in SUBSET S /\ m \ {x} \notin C
    BY <1>2, <1>3, <1>4
  <2> QED
    BY <1>3, <1>4, <1>7, <2>1
<1>9. (m \ {c}) \ {x} = (m \ {x}) \ {c}
  OBVIOUS
<1> DEFINE rest == SumFunctionOnSet(f, (m \ {c}) \ {x})
<1>10. rest \in Int /\ f[c] \in Int /\ f[x] \in Int
  BY <1>5
<1>11. SumFunctionOnSet(f, m \ {c}) = f[x] + rest
  BY <1>8
<1>12. SumFunctionOnSet(f, m \ {x}) = f[c] + rest
  BY <1>8, <1>9, Zenon
<1>13. SumFunctionOnSet(f, m) # f[x] + SumFunctionOnSet(f, m \ {x})
  BY <1>3
<1> HIDE DEF rest, C
<1> QED
  BY <1>6, <1>10, <1>11, <1>12, <1>13

\* Any element may be added last.
THEOREM SumAdd ==
  ASSUME NEW f, NEW S, IsFiniteSet(S), NEW e, e \notin S,
         \A x \in S \cup {e} : f[x] \in Int
  PROVE  SumFunctionOnSet(f, S \cup {e}) = SumFunctionOnSet(f, S) + f[e]
<1>1. IsFiniteSet(S \cup {e}) /\ (S \cup {e}) \ {e} = S
  BY FS_AddElement
<1>2. SumFunctionOnSet(f, S) \in Int
  BY SumType
<1>3. SumFunctionOnSet(f, S \cup {e}) = f[e] + SumFunctionOnSet(f, (S \cup {e}) \ {e})
  BY <1>1, SumRemove
<1>4. SumFunctionOnSet(f, S \cup {e}) = f[e] + SumFunctionOnSet(f, S)
  BY <1>1, <1>3, Zenon
<1>5. f[e] \in Int
  OBVIOUS
<1> QED
  BY <1>2, <1>4, <1>5

\* A sum of differences is the difference of the sums.
THEOREM SumDifference ==
  ASSUME NEW f, NEW g, NEW h, NEW S, IsFiniteSet(S),
         \A x \in S : f[x] \in Int /\ g[x] \in Int /\ h[x] = f[x] - g[x]
  PROVE  SumFunctionOnSet(h, S) = SumFunctionOnSet(f, S) - SumFunctionOnSet(g, S)
<1> DEFINE C == {s \in SUBSET S : SumFunctionOnSet(h, s)
                                    # SumFunctionOnSet(f, s) - SumFunctionOnSet(g, s)}
<1>1. SUFFICES ASSUME C # {} PROVE FALSE
  <2>1. S \in SUBSET S
    OBVIOUS
  <2> QED
    BY <2>1
<1>2. PICK m \in C : \A s \in C : s \subseteq m => s = m
  <2>1. C \in SUBSET SUBSET S
    OBVIOUS
  <2> HIDE DEF C
  <2> QED
    BY ONLY <1>1, <2>1, IsFiniteSet(S), MinimalSubset
<1>3. m # {}
  <2>1. SumFunctionOnSet(f, {}) = 0 /\ SumFunctionOnSet(g, {}) = 0 /\ SumFunctionOnSet(h, {}) = 0
    BY SumEmpty
  <2>2. {} \notin C
    BY <2>1
  <2> HIDE DEF C
  <2> QED
    BY <2>2
<1>4. PICK c \in m : TRUE
  BY <1>3
<1>5. \A s \in SUBSET S : /\ IsFiniteSet(s) /\ SumFunctionOnSet(f, s) \in Int
                          /\ SumFunctionOnSet(g, s) \in Int
  BY FS_Subset, SumType
<1>6. /\ SumFunctionOnSet(f, m) = f[c] + SumFunctionOnSet(f, m \ {c})
      /\ SumFunctionOnSet(g, m) = g[c] + SumFunctionOnSet(g, m \ {c})
      /\ SumFunctionOnSet(h, m) = h[c] + SumFunctionOnSet(h, m \ {c})
  BY <1>5, SumRemove
<1>7. m \ {c} \in SUBSET S /\ m \ {c} \notin C
  BY <1>2
<1> QED
  BY <1>5, <1>6, <1>7

\* A sum of summands that are not negative is not negative.
THEOREM SumNat ==
  ASSUME NEW f, NEW S, IsFiniteSet(S), \A x \in S : f[x] \in Nat
  PROVE  SumFunctionOnSet(f, S) \in Nat
<1> DEFINE C == {s \in SUBSET S : SumFunctionOnSet(f, s) \notin Nat}
<1>1. SUFFICES ASSUME C # {} PROVE FALSE
  <2>1. S \in SUBSET S
    OBVIOUS
  <2> QED
    BY <2>1
<1>2. PICK m \in C : \A s \in C : s \subseteq m => s = m
  <2>1. C \in SUBSET SUBSET S
    OBVIOUS
  <2> HIDE DEF C
  <2> QED
    BY ONLY <1>1, <2>1, IsFiniteSet(S), MinimalSubset
<1>3. PICK c \in m : TRUE
  BY SumEmpty
<1>4. SumFunctionOnSet(f, m) = f[c] + SumFunctionOnSet(f, m \ {c})
  BY FS_Subset, SumRemove
<1>5. SumFunctionOnSet(f, m \ {c}) \in Nat
  BY <1>2
<1> QED
  BY <1>4, <1>5

\* Sums of the same summands are equal.
THEOREM SumSame ==
  ASSUME NEW f, NEW g, NEW S, IsFiniteSet(S), \A x \in S : f[x] \in Int /\ g[x] = f[x]
  PROVE  SumFunctionOnSet(g, S) = SumFunctionOnSet(f, S)
<1> DEFINE h == [x \in S |-> 0]
<1>1. SumFunctionOnSet(h, S) \in Nat
  BY SumNat
<1>2. /\ SumFunctionOnSet(h, S) = SumFunctionOnSet(f, S) - SumFunctionOnSet(g, S)
      /\ SumFunctionOnSet(h, S) = SumFunctionOnSet(g, S) - SumFunctionOnSet(f, S)
  <2>1. \A x \in S : h[x] = f[x] - g[x] /\ h[x] = g[x] - f[x]
    OBVIOUS
  <2> HIDE DEF h
  <2> QED
    BY <2>1, SumDifference
<1>3. SumFunctionOnSet(f, S) \in Int /\ SumFunctionOnSet(g, S) \in Int
  BY SumType
<1> QED
  BY <1>1, <1>2, <1>3

\* Larger summands, larger sum.
THEOREM SumMonotone ==
  ASSUME NEW f, NEW g, NEW S, IsFiniteSet(S),
         \A x \in S : f[x] \in Int /\ g[x] \in Int /\ f[x] <= g[x]
  PROVE  SumFunctionOnSet(f, S) <= SumFunctionOnSet(g, S)
<1> DEFINE h == [x \in S |-> g[x] - f[x]]
<1>1. \A x \in S : h[x] \in Nat /\ h[x] = g[x] - f[x]
  OBVIOUS
<1> HIDE DEF h
<1>2. SumFunctionOnSet(h, S) \in Nat
  BY <1>1, SumNat
<1>3. SumFunctionOnSet(h, S) = SumFunctionOnSet(g, S) - SumFunctionOnSet(f, S)
  BY <1>1, SumDifference
<1>4. SumFunctionOnSet(f, S) \in Int /\ SumFunctionOnSet(g, S) \in Int
  BY SumType
<1> QED
  BY <1>2, <1>3, <1>4

\* When one summand changes, the sum changes by as much.
THEOREM SumChange ==
  ASSUME NEW f, NEW g, NEW S, IsFiniteSet(S), NEW e \in S,
         \A x \in S : f[x] \in Int /\ g[x] \in Int,
         \A x \in S \ {e} : g[x] = f[x]
  PROVE  SumFunctionOnSet(g, S) = SumFunctionOnSet(f, S) + (g[e] - f[e])
<1> DEFINE T == S \ {e}
<1>1. IsFiniteSet(T) /\ \A x \in T : f[x] \in Int /\ g[x] = f[x]
  BY FS_RemoveElement
<1>2. SumFunctionOnSet(f, T) \in Int /\ SumFunctionOnSet(g, T) = SumFunctionOnSet(f, T)
  BY <1>1, SumType, SumSame
<1>3. /\ SumFunctionOnSet(f, S) = f[e] + SumFunctionOnSet(f, T)
      /\ SumFunctionOnSet(g, S) = g[e] + SumFunctionOnSet(g, T)
  BY SumRemove
<1> HIDE DEF T
<1> QED
  BY <1>2, <1>3

\* A sum of zeros and ones is the number of ones.
THEOREM SumOnes ==
  ASSUME NEW f, NEW S, IsFiniteSet(S), NEW T \in SUBSET S,
         \A x \in S : f[x] = IF x \in T THEN 1 ELSE 0
  PROVE  Cardinality(T) = SumFunctionOnSet(f, S)
<1> DEFINE C == {s \in SUBSET S : Cardinality(T \cap s) # SumFunctionOnSet(f, s)}
<1>1. SUFFICES ASSUME C # {} PROVE FALSE
  <2>1. S \in SUBSET S /\ T \cap S = T
    OBVIOUS
  <2> QED
    BY <2>1
<1>2. PICK m \in C : \A s \in C : s \subseteq m => s = m
  <2>1. C \in SUBSET SUBSET S
    OBVIOUS
  <2> HIDE DEF C
  <2> QED
    BY ONLY <1>1, <2>1, IsFiniteSet(S), MinimalSubset
<1>3. PICK c \in m : TRUE
  <2>1. SumFunctionOnSet(f, {}) = 0 /\ T \cap {} = {} /\ Cardinality({}) = 0
    BY SumEmpty, FS_EmptySet
  <2> QED
    BY <2>1
<1>4. IsFiniteSet(m) /\ m \in SUBSET S /\ \A x \in S : f[x] \in Int
  BY FS_Subset
<1>5. SumFunctionOnSet(f, m) = f[c] + SumFunctionOnSet(f, m \ {c})
  BY <1>4, SumRemove
<1>6. Cardinality(T \cap (m \ {c})) = SumFunctionOnSet(f, m \ {c})
  BY <1>2
<1>7. Cardinality(T \cap m) # SumFunctionOnSet(f, m)
  OBVIOUS
<1> HIDE DEF C
<1>8. IsFiniteSet(T \cap m) /\ Cardinality(T \cap m) \in Nat
  BY <1>4, FS_Subset, FS_CardinalityType
<1>9. CASE c \in T
  <2>1. T \cap (m \ {c}) = (T \cap m) \ {c} /\ c \in T \cap m
    BY <1>9
  <2>2. Cardinality((T \cap m) \ {c}) = Cardinality(T \cap m) - 1
    BY <1>8, <2>1, FS_RemoveElement
  <2>3. f[c] = 1
    BY <1>4, <1>9
  <2>4. SumFunctionOnSet(f, m \ {c}) = Cardinality(T \cap m) - 1
    BY <1>6, <2>1, <2>2, Zenon
  <2> QED
    BY <1>5, <1>7, <1>8, <2>3, <2>4
<1>10. CASE c \notin T
  <2>1. T \cap (m \ {c}) = T \cap m /\ f[c] = 0
    BY <1>4, <1>10
  <2> QED
    BY <1>5, <1>6, <1>7, <1>8, <2>1
<1> QED
  BY <1>9, <1>10

\* A sum of zeros is 0.
THEOREM SumZero ==
  ASSUME NEW f, NEW S, IsFiniteSet(S), \A x \in S : f[x] = 0
  PROVE  SumFunctionOnSet(f, S) = 0
<1>1. \A x \in S : f[x] = IF x \in {} THEN 1 ELSE 0
  OBVIOUS
<1>2. {} \in SUBSET S
  OBVIOUS
<1> QED
  BY <1>1, <1>2, SumOnes, FS_EmptySet

\* Zeros may be left out of a sum.
THEOREM SumSupport ==
  ASSUME NEW f, NEW S, IsFiniteSet(S), NEW T \in SUBSET S,
         \A x \in S : f[x] \in Int, \A x \in S \ T : f[x] = 0
  PROVE  SumFunctionOnSet(f, S) = SumFunctionOnSet(f, T)
<1> DEFINE C == {s \in SUBSET S : SumFunctionOnSet(f, s) # SumFunctionOnSet(f, s \cap T)}
<1>1. SUFFICES ASSUME C # {} PROVE FALSE
  <2>1. S \in SUBSET S /\ S \cap T = T
    OBVIOUS
  <2> QED
    BY <2>1
<1>2. PICK m \in C : \A s \in C : s \subseteq m => s = m
  <2>1. C \in SUBSET SUBSET S
    OBVIOUS
  <2> HIDE DEF C
  <2> QED
    BY ONLY <1>1, <2>1, IsFiniteSet(S), MinimalSubset
<1>3. /\ m \in SUBSET S /\ SumFunctionOnSet(f, m) # SumFunctionOnSet(f, m \cap T)
      /\ \A s \in SUBSET m : s = m \/ SumFunctionOnSet(f, s) = SumFunctionOnSet(f, s \cap T)
  BY <1>2
<1> HIDE DEF C
<1>4. PICK c \in m : c \notin T
  <2>1. m \cap T # m
    BY <1>3
  <2> QED
    BY <2>1
<1>5. IsFiniteSet(m) /\ \A x \in m : f[x] \in Int
  BY <1>3, FS_Subset
<1>6. SumFunctionOnSet(f, m) = f[c] + SumFunctionOnSet(f, m \ {c})
  BY <1>5, SumRemove
<1>7. SumFunctionOnSet(f, m \ {c}) = SumFunctionOnSet(f, m \cap T)
  <2>1. m \ {c} \in SUBSET m /\ m \ {c} # m /\ (m \ {c}) \cap T = m \cap T
    BY <1>4
  <2>2. SumFunctionOnSet(f, m \ {c}) = SumFunctionOnSet(f, (m \ {c}) \cap T)
    BY <1>3, <2>1
  <2> QED
    BY <2>1, <2>2, Zenon
<1>8. SumFunctionOnSet(f, m \ {c}) \in Int /\ f[c] = 0
  BY <1>3, <1>4, <1>5, FS_Subset, SumType
<1> QED
  BY <1>3, <1>6, <1>7, <1>8

\* A sum with one summand that is not 0.
THEOREM SumSingle ==
  ASSUME NEW f, NEW S, IsFiniteSet(S), NEW e \in S, f[e] \in Int, \A x \in S \ {e} : f[x] = 0
  PROVE  SumFunctionOnSet(f, S) = f[e]
<1>1. SumFunctionOnSet(f, S) = f[e] + SumFunctionOnSet(f, S \ {e})
  BY SumRemove
<1>2. SumFunctionOnSet(f, S \ {e}) = 0
  BY FS_RemoveElement, SumZero
<1> QED
  BY <1>1, <1>2

\* A sum of natural numbers is no less than any of them.
THEOREM SumAtLeast ==
  ASSUME NEW f, NEW S, IsFiniteSet(S), \A x \in S : f[x] \in Nat, NEW e \in S
  PROVE  SumFunctionOnSet(f, S) \in Nat /\ f[e] <= SumFunctionOnSet(f, S)
<1>1. SumFunctionOnSet(f, S) = f[e] + SumFunctionOnSet(f, S \ {e})
  BY SumRemove
<1>2. SumFunctionOnSet(f, S \ {e}) \in Nat
  BY FS_RemoveElement, SumNat
<1> QED
  BY <1>1, <1>2

\* A common factor of the summands is one of the sum.
THEOREM SumScaled ==
  ASSUME NEW f, NEW h, NEW S, IsFiniteSet(S), NEW k \in Int,
         \A x \in S : f[x] \in Int /\ h[x] = f[x] * k
  PROVE  SumFunctionOnSet(h, S) = SumFunctionOnSet(f, S) * k
<1> DEFINE C == {s \in SUBSET S : SumFunctionOnSet(h, s) # SumFunctionOnSet(f, s) * k}
<1>1. SUFFICES ASSUME C # {} PROVE FALSE
  <2>1. S \in SUBSET S
    OBVIOUS
  <2> QED
    BY <2>1
<1>2. PICK m \in C : \A s \in C : s \subseteq m => s = m
  <2>1. C \in SUBSET SUBSET S
    OBVIOUS
  <2> HIDE DEF C
  <2> QED
    BY ONLY <1>1, <2>1, IsFiniteSet(S), MinimalSubset
<1>3. m # {}
  <2>1. SumFunctionOnSet(f, {}) = 0 /\ SumFunctionOnSet(h, {}) = 0 /\ 0 * k = 0
    BY SumEmpty
  <2>2. {} \notin C
    BY <2>1
  <2> HIDE DEF C
  <2> QED
    BY <2>2
<1>4. PICK c \in m : TRUE
  BY <1>3
<1>5. \A x \in S : f[x] * k \in Int
  BY SMT
<1>6. \A s \in SUBSET S : IsFiniteSet(s) /\ SumFunctionOnSet(f, s) \in Int
  BY FS_Subset, SumType
<1>7. /\ SumFunctionOnSet(f, m) = f[c] + SumFunctionOnSet(f, m \ {c})
      /\ SumFunctionOnSet(h, m) = h[c] + SumFunctionOnSet(h, m \ {c})
  BY <1>5, <1>6, SumRemove
<1>8. m \ {c} \in SUBSET S /\ m \ {c} \notin C
  BY <1>2
<1> DEFINE a == SumFunctionOnSet(f, m \ {c})
<1>9. a \in Int /\ f[c] \in Int /\ h[c] = f[c] * k /\ SumFunctionOnSet(h, m \ {c}) = a * k
  BY <1>6, <1>8
<1> HIDE DEF a
<1>10. (f[c] + a) * k = f[c] * k + a * k
  BY <1>9, SMT
<1> QED
  BY <1>7, <1>9, <1>10 DEF a

\* A sum whose summands are at most k on T, and at most 0 elsewhere.
THEOREM SumUpTo ==
  ASSUME NEW f, NEW S, IsFiniteSet(S), NEW T \in SUBSET S, NEW k \in Int,
         \A x \in S : f[x] \in Int /\ f[x] <= IF x \in T THEN k ELSE 0
  PROVE  SumFunctionOnSet(f, S) <= Cardinality(T) * k
<1> DEFINE one == [x \in S |-> IF x \in T THEN 1 ELSE 0]
           most == [x \in S |-> IF x \in T THEN k ELSE 0]
<1>1. Cardinality(T) = SumFunctionOnSet(one, S)
  <2>1. \A x \in S : one[x] = IF x \in T THEN 1 ELSE 0
    OBVIOUS
  <2> HIDE DEF one
  <2> QED
    BY <2>1, SumOnes
<1>2. SumFunctionOnSet(most, S) = SumFunctionOnSet(one, S) * k
  <2>1. ASSUME NEW x \in S PROVE one[x] \in Int /\ most[x] = one[x] * k
    <3>1. CASE x \in T
      BY <3>1
    <3>2. CASE x \notin T
      BY <3>2
    <3> QED
      BY <3>1, <3>2
  <2> HIDE DEF one, most
  <2> QED
    BY <2>1, SumScaled
<1>3. SumFunctionOnSet(f, S) <= SumFunctionOnSet(most, S)
  <2>1. \A x \in S : f[x] \in Int /\ most[x] \in Int /\ f[x] <= most[x]
    OBVIOUS
  <2> HIDE DEF most
  <2> QED
    BY <2>1, SumMonotone
<1> QED
  BY <1>1, <1>2, <1>3

-----------------------------------------------------------------------------
(* The largest element *)

\* A finite set of integers that is not empty has a largest element, and Max is it.
THEOREM MaxOfSet ==
  ASSUME NEW S, IsFiniteSet(S), S \subseteq Int, S # {}
  PROVE  Max(S) \in S /\ \A x \in S : x <= Max(S)
<1> DEFINE Above(x) == {y \in S : y > x}
           C == {Above(x) : x \in S}
<1>1. C # {} /\ C \in SUBSET SUBSET S
  OBVIOUS
<1>2. PICK m \in C : \A s \in C : s \subseteq m => s = m
  <2> HIDE DEF C
  <2> QED
    BY ONLY <1>1, IsFiniteSet(S), MinimalSubset
<1>3. PICK x \in S : m = Above(x)
  OBVIOUS
<1>4. ASSUME NEW y \in S PROVE y <= x
  <2>1. SUFFICES ASSUME y > x PROVE FALSE
    OBVIOUS
  <2>2. Above(y) \subseteq m
    <3>1. ASSUME NEW z \in S, z > y PROVE z > x
      BY <2>1, <3>1
    <3> QED
      BY <1>3, <3>1
  <2>3. y \in m /\ y \notin Above(y)
    BY <1>3, <2>1
  <2> QED
    BY <1>2, <2>2, <2>3
<1>5. x \in S /\ \A y \in S : x >= y
  BY <1>4
<1> QED
  BY <1>5 DEF Max
=============================================================================
