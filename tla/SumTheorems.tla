----------------------------- MODULE SumTheorems ----------------------------
(***************************************************************************)
(* Facts about SumFunctionOnSet, for every function and every finite set,  *)
(* and the forms of induction they need.                                   *)
(*                                                                         *)
(* The provers cannot take a predicate as the parameter of an induction    *)
(* theorem. So induction is done on sets: the counterexamples are a set,   *)
(* which would have a least element (LeastNat, LeastSubset), or the        *)
(* numbers reached are a set (NatSteps). That the recursion behind a sum   *)
(* has a solution at all is proved the same way.                           *)
(***************************************************************************)
EXTENDS Functions, FiniteSetTheorems, TLAPS

(* Some element, the same one each time: the order of the fold.            *)
First(s) == CHOOSE x \in s : TRUE

(* g is the recursive function the sum is defined by, on the sets of D.    *)
Adds(g, f, D) == g = [s \in D |-> IF s = {} THEN 0 ELSE f[First(s)] + g[s \ {First(s)}]]

(* The library's definition, in these terms.                               *)
LEMMA SumIs ==
  ASSUME NEW f, NEW S
  PROVE  SumFunctionOnSet(f, S) = (CHOOSE g : Adds(g, f, SUBSET S))[S]
BY DEF SumFunctionOnSet, FoldFunctionOnSet, MapThenFoldSet, Adds, First

(* A set of numbers has a least one.                                       *)
LEMMA LeastNat ==
  ASSUME NEW B, B \subseteq Nat, B # {}
  PROVE  \E n \in B : \A m \in B : ~(m < n)
<1> DEFINE R == OpToRel(<, Nat)
<1>1. \E n \in B : \A m \in B : ~(<<m, n>> \in R)
  <2>1. IsWellFoundedOn(R, Nat)
    BY NatLessThanWellFounded
  <2> HIDE DEF R
  <2> QED
    BY <2>1, WFMin
<1>2. PICK n \in B : \A m \in B : ~(<<m, n>> \in R)
  BY <1>1
<1>3. ASSUME NEW m \in B, m < n PROVE FALSE
  <2>1. m \in Nat /\ n \in Nat
    OBVIOUS
  <2>2. <<m, n>> \in R
    BY <2>1, <1>3 DEF OpToRel
  <2> QED
    BY <2>2, <1>2
<1> QED
  BY <1>3

(* Induction on the natural numbers, in terms of sets.                     *)
LEMMA NatSteps ==
  ASSUME NEW G, 0 \in G, \A n \in Nat : n \in G => n + 1 \in G
  PROVE  Nat \subseteq G
<1> DEFINE B == Nat \ G
<1> SUFFICES ASSUME B # {} PROVE FALSE
  OBVIOUS
<1>1. PICK n \in B : \A m \in B : ~(m < n)
  <2>1. B \subseteq Nat
    OBVIOUS
  <2> HIDE DEF B
  <2> QED
    BY <2>1, LeastNat
<1>2. n # 0
  OBVIOUS
<1>3. n - 1 \in Nat /\ n - 1 < n /\ (n - 1) + 1 = n
  BY <1>2
<1>4. n - 1 \in G
  BY <1>1, <1>3
<1> QED
  BY <1>3, <1>4

(* A set of subsets of a finite set has a minimal one.                     *)
LEMMA LeastSubset ==
  ASSUME NEW S, IsFiniteSet(S), NEW B, B \subseteq SUBSET S, B # {}
  PROVE  \E T \in B : \A U \in B : U \subseteq T => U = T
<1> DEFINE R == StrictSubsetOrdering(S)
<1>1. IsWellFoundedOn(R, SUBSET S)
  BY FS_StrictSubsetOrderingWellFounded, FS_FiniteSubsetsOfFinite
<1>2. \E T \in B : \A U \in B : ~(<<U, T>> \in R)
  <2> HIDE DEF R
  <2> QED
    BY <1>1, WFMin
<1>3. PICK T \in B : \A U \in B : ~(<<U, T>> \in R)
  BY <1>2
<1>4. ASSUME NEW U \in B, U \subseteq T, U # T PROVE FALSE
  <2>1. U \in SUBSET S /\ T \in SUBSET S
    OBVIOUS
  <2>2. <<U, T>> \in R
    BY <2>1, <1>4 DEF StrictSubsetOrdering
  <2> QED
    BY <2>2, <1>3
<1> QED
  BY <1>4

(* There is a first element where there is one.                            *)
LEMMA FirstIn ==
  ASSUME NEW s, s # {}
  PROVE  First(s) \in s
BY DEF First

(* The function satisfies its equation at every set.                       *)
LEMMA AddsStep ==
  ASSUME NEW g, NEW f, NEW D, Adds(g, f, D)
  PROVE  \A s \in D : g[s] = IF s = {} THEN 0 ELSE f[First(s)] + g[s \ {First(s)}]
<1>1. DOMAIN g = D /\ g = [s \in D |-> IF s = {} THEN 0 ELSE f[First(s)] + g[s \ {First(s)}]]
  BY DEF Adds
<1> QED
  BY <1>1

(* The recursion has a solution: one for the sets of n elements gives one  *)
(* for those of n + 1.                                                     *)
LEMMA AddsExists ==
  ASSUME NEW f, NEW S, IsFiniteSet(S)
  PROVE  \E g : Adds(g, f, SUBSET S)
<1> DEFINE D(n) == {s \in SUBSET S : Cardinality(s) <= n}
           Good == {n \in Nat : \E g : Adds(g, f, D(n))}
<1>1. \A s \in SUBSET S : IsFiniteSet(s) /\ Cardinality(s) \in Nat
  BY FS_Subset, FS_CardinalityType
<1>2. 0 \in Good
  <2> DEFINE g == [s \in D(0) |-> 0]
  <2>1. \A s \in D(0) : s = {}
    <3> SUFFICES ASSUME NEW s \in D(0) PROVE s = {}
      OBVIOUS
    <3>1. Cardinality(s) = 0
      BY <1>1
    <3> QED
      BY <1>1, <3>1, FS_EmptySet
  <2>2. g = [s \in D(0) |-> IF s = {} THEN 0 ELSE f[First(s)] + g[s \ {First(s)}]]
    BY <2>1
  <2>3. Adds(g, f, D(0))
    BY <2>2 DEF Adds
  <2> QED
    BY <2>3
<1>3. ASSUME NEW n \in Nat, n \in Good PROVE n + 1 \in Good
  <2>1. PICK g : Adds(g, f, D(n))
    BY <1>3
  <2> DEFINE Val(s) == IF s = {} THEN 0 ELSE f[First(s)] + g[s \ {First(s)}]
             h == [s \in D(n + 1) |-> Val(s)]
  <2>2. \A s \in D(n) : g[s] = Val(s)
    BY <2>1, AddsStep
  <2>3. \A s \in D(n) : s \in D(n + 1)
    BY <1>1
  <2>4. \A s \in D(n) : h[s] = g[s]
    BY <2>2, <2>3
  <2>5. ASSUME NEW s \in D(n + 1), s # {} PROVE s \ {First(s)} \in D(n)
    <3>1. First(s) \in s
      BY <2>5, FirstIn
    <3>2. Cardinality(s \ {First(s)}) = Cardinality(s) - 1
      BY <1>1, <3>1, FS_RemoveElement
    <3>3. s \ {First(s)} \in SUBSET S
      OBVIOUS
    <3>4. Cardinality(s) <= n + 1 /\ Cardinality(s) \in Nat
      BY <1>1
    <3> QED
      BY <3>2, <3>3, <3>4
  <2>6. \A s \in D(n + 1) : Val(s) = IF s = {} THEN 0 ELSE f[First(s)] + h[s \ {First(s)}]
    <3> HIDE DEF h
    <3> QED
      BY <2>4, <2>5
  <2>7. h = [s \in D(n + 1) |-> IF s = {} THEN 0 ELSE f[First(s)] + h[s \ {First(s)}]]
    <3>1. h = [s \in D(n + 1) |-> Val(s)]
      OBVIOUS
    <3> HIDE DEF h
    <3> QED
      BY <2>6, <3>1
  <2>8. Adds(h, f, D(n + 1))
    <3> HIDE DEF h
    <3> QED
      BY <2>7 DEF Adds
  <2>9. n + 1 \in Nat
    OBVIOUS
  <2> HIDE DEF h, D
  <2> QED
    BY <2>8, <2>9
<1>4. Cardinality(S) \in Good
  <2> SUFFICES ASSUME Cardinality(S) \notin Good PROVE FALSE
    OBVIOUS
  <2> DEFINE B == Nat \ Good
  <2>1. Cardinality(S) \in B
    BY FS_CardinalityType
  <2> HIDE DEF Good
  <2>2. PICK n \in B : \A m \in B : ~(m < n)
    BY <2>1, LeastNat
  <2>3. n # 0
    BY <1>2
  <2>4. n - 1 \in Nat /\ n - 1 < n
    BY <2>3
  <2>5. n - 1 \in Good
    BY <2>2, <2>4
  <2>6. (n - 1) + 1 \in Good
    BY <1>3, <2>4, <2>5
  <2>7. (n - 1) + 1 = n
    OBVIOUS
  <2> QED
    BY <2>6, <2>7
<1>5. D(Cardinality(S)) = SUBSET S
  BY FS_Subset
<1> QED
  BY <1>4, <1>5

(* Two solutions agree where both are defined.                             *)
LEMMA AddsUnique ==
  ASSUME NEW f, NEW S, NEW T, IsFiniteSet(S), T \subseteq S,
         NEW g, Adds(g, f, SUBSET S), NEW h, Adds(h, f, SUBSET T)
  PROVE  h[T] = g[T]
<1> SUFFICES ASSUME h[T] # g[T] PROVE FALSE
  OBVIOUS
<1> DEFINE B == {U \in SUBSET T : h[U] # g[U]}
<1>1. IsFiniteSet(T)
  BY FS_Subset
<1>2. T \in B
  OBVIOUS
<1>3. PICK U \in B : \A V \in B : V \subseteq U => V = U
  <2>1. B \subseteq SUBSET T /\ B # {}
    BY <1>2
  <2> HIDE DEF B
  <2> QED
    BY <1>1, <2>1, LeastSubset
<1>4. h[U] = IF U = {} THEN 0 ELSE f[First(U)] + h[U \ {First(U)}]
  BY AddsStep
<1>5. g[U] = IF U = {} THEN 0 ELSE f[First(U)] + g[U \ {First(U)}]
  BY AddsStep
<1>6. U # {}
  BY <1>4, <1>5
<1>7. First(U) \in U
  BY <1>6, FirstIn
<1>8. U \ {First(U)} \notin B
  BY <1>3, <1>7
<1>9. h[U \ {First(U)}] = g[U \ {First(U)}]
  BY <1>8
<1> QED
  BY <1>4, <1>5, <1>9

(* So the sum is what its recursion says.                                  *)
LEMMA SumFirst ==
  ASSUME NEW f, NEW S, IsFiniteSet(S)
  PROVE  SumFunctionOnSet(f, S) =
           IF S = {} THEN 0 ELSE f[First(S)] + SumFunctionOnSet(f, S \ {First(S)})
<1> DEFINE g == CHOOSE g : Adds(g, f, SUBSET S)
           T == S \ {First(S)}
           h == CHOOSE h : Adds(h, f, SUBSET T)
<1>1. Adds(g, f, SUBSET S) /\ SumFunctionOnSet(f, S) = g[S]
  BY AddsExists, SumIs
<1>2. IsFiniteSet(T)
  BY FS_Subset
<1>3. Adds(h, f, SUBSET T) /\ SumFunctionOnSet(f, T) = h[T]
  BY <1>2, AddsExists, SumIs
<1>4. g[S] = IF S = {} THEN 0 ELSE f[First(S)] + g[T]
  BY <1>1, AddsStep
<1>5. h[T] = g[T]
  <2>1. T \subseteq S
    OBVIOUS
  <2>2. Adds(g, f, SUBSET S) /\ Adds(h, f, SUBSET T)
    BY <1>1, <1>3
  <2> HIDE DEF g, h, T
  <2> QED
    BY <2>1, <2>2, AddsUnique, ZenonT(60)
<1> QED
  BY <1>1, <1>3, <1>4, <1>5

(* The empty sum.                                                          *)
LEMMA SumEmpty ==
  ASSUME NEW f
  PROVE  SumFunctionOnSet(f, {}) = 0
BY SumFirst, FS_EmptySet

(* A sum of natural numbers is one.                                        *)
LEMMA SumType ==
  ASSUME NEW f, NEW S, IsFiniteSet(S), \A x \in S : f[x] \in Nat
  PROVE  SumFunctionOnSet(f, S) \in Nat
<1> SUFFICES ASSUME SumFunctionOnSet(f, S) \notin Nat PROVE FALSE
  OBVIOUS
<1> DEFINE B == {U \in SUBSET S : SumFunctionOnSet(f, U) \notin Nat}
<1>1. B \subseteq SUBSET S /\ S \in B
  OBVIOUS
<1>2. PICK U \in B : \A V \in B : V \subseteq U => V = U
  <2> HIDE DEF B
  <2> QED
    BY <1>1, LeastSubset
<1>3. SumFunctionOnSet(f, U) =
        IF U = {} THEN 0 ELSE f[First(U)] + SumFunctionOnSet(f, U \ {First(U)})
  BY FS_Subset, SumFirst
<1>4. U # {}
  BY <1>3
<1>5. First(U) \in U
  BY <1>4, FirstIn
<1>6. SumFunctionOnSet(f, U \ {First(U)}) \in Nat
  BY <1>2, <1>5
<1>7. f[First(U)] \in Nat
  BY <1>5
<1> QED
  BY <1>3, <1>4, <1>6, <1>7

(* Any element may be taken out first, not only the one the fold takes.    *)
LEMMA SumRemove ==
  ASSUME NEW f, NEW S, IsFiniteSet(S), \A y \in S : f[y] \in Nat, NEW x \in S
  PROVE  SumFunctionOnSet(f, S) = f[x] + SumFunctionOnSet(f, S \ {x})
<1> DEFINE Sum(U) == SumFunctionOnSet(f, U)
           B == {U \in SUBSET S : \E y \in U : Sum(U) # f[y] + Sum(U \ {y})}
<1> SUFFICES ASSUME Sum(S) # f[x] + Sum(S \ {x}) PROVE FALSE
  OBVIOUS
<1>1. B \subseteq SUBSET S /\ S \in B
  OBVIOUS
<1>2. PICK U \in B : \A V \in B : V \subseteq U => V = U
  <2> HIDE DEF B
  <2> QED
    BY <1>1, LeastSubset
<1>3. PICK y \in U : Sum(U) # f[y] + Sum(U \ {y})
  OBVIOUS
<1>4. PICK c : c = First(U)
  OBVIOUS
<1>5. c \in U
  BY <1>3, <1>4, FirstIn
<1>6. Sum(U) = f[c] + Sum(U \ {c})
  BY <1>4, <1>5, FS_Subset, SumFirst
<1>7. y # c
  BY <1>3, <1>6
<1>8. U \ {c} \notin B /\ U \ {y} \notin B
  BY <1>2, <1>5
<1>9. Sum(U \ {c}) = f[y] + Sum((U \ {c}) \ {y})
  BY <1>7, <1>8
<1>10. Sum(U \ {y}) = f[c] + Sum((U \ {y}) \ {c})
  BY <1>5, <1>7, <1>8
<1>11. (U \ {c}) \ {y} = (U \ {y}) \ {c}
  OBVIOUS
<1>12. Sum((U \ {y}) \ {c}) \in Nat
  <2>1. IsFiniteSet((U \ {y}) \ {c}) /\ (U \ {y}) \ {c} \subseteq S
    BY FS_Subset
  <2> QED
    BY <2>1, SumType
<1>13. f[c] \in Nat /\ f[y] \in Nat
  BY <1>5
<1> HIDE DEF Sum
<1>14. Sum(U) = f[y] + Sum(U \ {y})
  <2>1. PICK n \in Nat : n = Sum((U \ {y}) \ {c})
    BY <1>12
  <2>2. Sum(U \ {c}) = f[y] + n
    BY <1>9, <1>11, <2>1
  <2>3. Sum(U \ {y}) = f[c] + n
    BY <1>10, <2>1
  <2> QED
    BY <1>6, <1>13, <2>2, <2>3
<1> QED
  BY <1>3, <1>14

(* The sum with one element more.                                          *)
LEMMA SumAdd ==
  ASSUME NEW f, NEW S, IsFiniteSet(S), NEW x, x \notin S,
         \A y \in S \cup {x} : f[y] \in Nat
  PROVE  SumFunctionOnSet(f, S \cup {x}) = f[x] + SumFunctionOnSet(f, S)
<1>1. IsFiniteSet(S \cup {x})
  BY FS_AddElement
<1>2. (S \cup {x}) \ {x} = S
  OBVIOUS
<1>3. x \in S \cup {x}
  OBVIOUS
<1>4. PICK T : T = S \cup {x}
  OBVIOUS
<1> QED
  BY <1>1, <1>2, <1>3, <1>4, SumRemove

(* The sum depends on the terms alone.                                     *)
LEMMA SumSame ==
  ASSUME NEW f, NEW g, NEW S, IsFiniteSet(S), \A x \in S : f[x] = g[x]
  PROVE  SumFunctionOnSet(f, S) = SumFunctionOnSet(g, S)
<1> DEFINE B == {U \in SUBSET S : SumFunctionOnSet(f, U) # SumFunctionOnSet(g, U)}
<1> SUFFICES ASSUME SumFunctionOnSet(f, S) # SumFunctionOnSet(g, S) PROVE FALSE
  OBVIOUS
<1>1. B \subseteq SUBSET S /\ S \in B
  OBVIOUS
<1>2. PICK U \in B : \A V \in B : V \subseteq U => V = U
  <2> HIDE DEF B
  <2> QED
    BY <1>1, LeastSubset
<1>3. PICK c : c = First(U)
  OBVIOUS
<1>4. /\ SumFunctionOnSet(f, U) = IF U = {} THEN 0 ELSE f[c] + SumFunctionOnSet(f, U \ {c})
      /\ SumFunctionOnSet(g, U) = IF U = {} THEN 0 ELSE g[c] + SumFunctionOnSet(g, U \ {c})
  BY <1>3, FS_Subset, SumFirst
<1>5. U # {}
  BY <1>4
<1>6. c \in U
  BY <1>3, <1>5, FirstIn
<1>7. U \ {c} \notin B /\ f[c] = g[c]
  BY <1>2, <1>6
<1>8. SumFunctionOnSet(f, U \ {c}) = SumFunctionOnSet(g, U \ {c})
  BY <1>7
<1>9. SumFunctionOnSet(f, U) = SumFunctionOnSet(g, U)
  BY <1>4, <1>7, <1>8
<1> QED
  BY <1>9

(* The sum over two parts of a set.                                        *)
LEMMA SumSplit ==
  ASSUME NEW f, NEW S, IsFiniteSet(S), \A x \in S : f[x] \in Nat,
         NEW T, T \subseteq S
  PROVE  SumFunctionOnSet(f, S) = SumFunctionOnSet(f, T) + SumFunctionOnSet(f, S \ T)
<1> DEFINE Sum(U) == SumFunctionOnSet(f, U)
           B == {U \in SUBSET T : Sum((S \ T) \cup U) # Sum(U) + Sum(S \ T)}
<1> SUFFICES ASSUME Sum(S) # Sum(T) + Sum(S \ T) PROVE FALSE
  OBVIOUS
<1>0. (S \ T) \cup T = S
  OBVIOUS
<1>1. B \subseteq SUBSET T /\ T \in B /\ IsFiniteSet(T)
  BY <1>0, FS_Subset
<1>2. PICK U \in B : \A V \in B : V \subseteq U => V = U
  <2> HIDE DEF B
  <2> QED
    BY <1>1, LeastSubset
<1>3. \A V \in SUBSET S : IsFiniteSet(V) /\ Sum(V) \in Nat
  BY FS_Subset, SumType
<1>4. U # {}
  <2>1. (S \ T) \cup {} = S \ T
    OBVIOUS
  <2>2. Sum({}) + Sum(S \ T) = Sum(S \ T)
    BY <1>3, SumEmpty
  <2> QED
    BY <2>1, <2>2
<1>5. PICK c : c \in U
  BY <1>4
<1>6. Sum(U) = f[c] + Sum(U \ {c})
  BY <1>3, <1>5, SumRemove
<1>7. Sum((S \ T) \cup U) = f[c] + Sum(((S \ T) \cup U) \ {c})
  <2>1. (S \ T) \cup U \in SUBSET S /\ c \in (S \ T) \cup U
    BY <1>5
  <2>2. PICK V : V = (S \ T) \cup U
    OBVIOUS
  <2> QED
    BY <1>3, <2>1, <2>2, SumRemove
<1>8. ((S \ T) \cup U) \ {c} = (S \ T) \cup (U \ {c})
  BY <1>5
<1>9. U \ {c} \notin B
  BY <1>2, <1>5
<1>10. Sum((S \ T) \cup (U \ {c})) = Sum(U \ {c}) + Sum(S \ T)
  BY <1>9
<1>11. f[c] \in Nat /\ Sum(U \ {c}) \in Nat /\ Sum(S \ T) \in Nat
  BY <1>3, <1>5
<1> HIDE DEF Sum
<1>12. Sum((S \ T) \cup U) = Sum(U) + Sum(S \ T)
  <2>1. PICK n \in Nat, m \in Nat : n = Sum(U \ {c}) /\ m = Sum(S \ T)
    BY <1>11
  <2>2. Sum((S \ T) \cup U) = f[c] + (n + m)
    BY <1>7, <1>8, <1>10, <2>1
  <2>3. Sum(U) = f[c] + n
    BY <1>6, <2>1
  <2> QED
    BY <1>11, <2>1, <2>2, <2>3
<1> QED
  BY <1>12

(* What is left of a sum when a part of its terms is taken away.           *)
LEMMA SumRest ==
  ASSUME NEW f, NEW S, IsFiniteSet(S), \A x \in S : f[x] \in Nat,
         NEW T, T \subseteq S,
         NEW g, \A x \in T : g[x] = f[x],
         NEW h, \A x \in S \ T : h[x] = f[x]
  PROVE  /\ SumFunctionOnSet(h, S \ T) = SumFunctionOnSet(f, S) - SumFunctionOnSet(g, T)
         /\ SumFunctionOnSet(h, S \ T) \in Nat /\ SumFunctionOnSet(f, S) \in Nat
         /\ SumFunctionOnSet(g, T) \in Nat
<1>1. IsFiniteSet(T) /\ IsFiniteSet(S \ T)
  BY FS_Subset
<1>2. SumFunctionOnSet(g, T) = SumFunctionOnSet(f, T)
  BY <1>1, SumSame
<1>3. SumFunctionOnSet(h, S \ T) = SumFunctionOnSet(f, S \ T)
  <2>1. PICK U : U = S \ T
    OBVIOUS
  <2>2. SumFunctionOnSet(h, U) = SumFunctionOnSet(f, U)
    BY <1>1, <2>1, SumSame
  <2> QED
    BY <2>1, <2>2
<1>4. SumFunctionOnSet(f, S) = SumFunctionOnSet(f, T) + SumFunctionOnSet(f, S \ T)
  BY SumSplit
<1>5. SumFunctionOnSet(f, S) \in Nat /\ SumFunctionOnSet(f, T) \in Nat
  BY <1>1, SumType
<1>6. SumFunctionOnSet(f, S \ T) \in Nat
  <2>1. PICK U : U = S \ T
    OBVIOUS
  <2>2. SumFunctionOnSet(f, U) \in Nat
    BY <1>1, <2>1, SumType
  <2> QED
    BY <2>1, <2>2
<1>7. PICK a \in Nat, b \in Nat, c \in Nat :
        a = SumFunctionOnSet(f, S) /\ b = SumFunctionOnSet(f, T) /\ c = SumFunctionOnSet(f, S \ T)
  BY <1>5, <1>6
<1>8. c = a - b
  BY <1>4, <1>7
<1> QED
  BY <1>2, <1>3, <1>7, <1>8

(* A sum with a new term beside the old ones.                              *)
LEMMA SumInsert ==
  ASSUME NEW f, NEW S, IsFiniteSet(S), \A x \in S : f[x] \in Nat,
         NEW x, x \notin S, NEW h, h[x] \in Nat, \A y \in S : h[y] = f[y]
  PROVE  SumFunctionOnSet(h, S \cup {x}) = SumFunctionOnSet(f, S) + h[x]
<1>1. SumFunctionOnSet(h, S \cup {x}) = h[x] + SumFunctionOnSet(h, S)
  BY SumAdd
<1>2. SumFunctionOnSet(h, S) = SumFunctionOnSet(f, S)
  BY SumSame
<1>3. SumFunctionOnSet(f, S) \in Nat
  BY SumType
<1>4. PICK a \in Nat : a = SumFunctionOnSet(f, S)
  BY <1>3
<1> QED
  BY <1>1, <1>2, <1>4

(* Larger terms have no smaller sum.                                       *)
LEMMA SumLeq ==
  ASSUME NEW f, NEW g, NEW S, IsFiniteSet(S),
         \A x \in S : f[x] \in Nat /\ g[x] \in Nat /\ f[x] <= g[x]
  PROVE  SumFunctionOnSet(f, S) <= SumFunctionOnSet(g, S)
<1> DEFINE F(U) == SumFunctionOnSet(f, U)
           G(U) == SumFunctionOnSet(g, U)
           B == {U \in SUBSET S : ~(F(U) <= G(U))}
<1> SUFFICES ASSUME ~(F(S) <= G(S)) PROVE FALSE
  OBVIOUS
<1>1. S \in B /\ B \subseteq SUBSET S
  OBVIOUS
<1>2. PICK U \in B : \A V \in B : V \subseteq U => V = U
  <2> HIDE DEF B
  <2> QED
    BY <1>1, LeastSubset
<1>3. U \subseteq S /\ IsFiniteSet(U) /\ ~(F(U) <= G(U))
  BY FS_Subset
<1>4. CASE U = {}
  BY <1>3, <1>4, SumEmpty
<1>5. CASE U # {}
  <2>1. PICK x \in U : TRUE
    BY <1>5
  <2>2. \A y \in U : f[y] \in Nat /\ g[y] \in Nat /\ f[y] <= g[y]
    BY <1>3
  <2>3. F(U) = f[x] + F(U \ {x}) /\ G(U) = g[x] + G(U \ {x})
    BY <1>3, <2>2, SumRemove
  <2>4. IsFiniteSet(U \ {x})
    BY <1>3, FS_RemoveElement
  <2>5. F(U \ {x}) \in Nat /\ G(U \ {x}) \in Nat
    BY <2>2, <2>4, SumType
  <2>6. U \ {x} \notin B
    BY <1>2, <2>1
  <2>7. F(U \ {x}) <= G(U \ {x})
    BY <2>6, <1>3
  <2> HIDE DEF F, G, B
  <2> QED
    BY <1>3, <2>2, <2>3, <2>5, <2>7
<1> QED
  BY <1>4, <1>5
=============================================================================
