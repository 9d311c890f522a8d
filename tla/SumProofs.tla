----------------------------- MODULE SumProofs -----------------------------
(***************************************************************************)
(* What SumFunctionOnSet computes on a finite set, whichever order the fold *)
(* takes the elements in. The induction that this needs is an argument from *)
(* a smallest counterexample.                                               *)
(***************************************************************************)
EXTENDS Integers, Functions, FiniteSets, FiniteSetTheorems, WellFoundedInduction, TLAPS

(* The element that the fold takes first. *)
Pick(s) == CHOOSE x \in s : TRUE

(* What the fold makes of set s, if g is what it makes of smaller sets. *)
Folded(g, f, s) == IF s = {} THEN 0 ELSE f[Pick(s)] + g[s \ {Pick(s)}]

(* g is the fold's recursive function. *)
IsFold(g, f, S) == g = [s \in SUBSET S |-> Folded(g, f, s)]

(* The definition of the sum. *)
LEMMA SumUnfold ==
  ASSUME NEW f, NEW S
  PROVE  SumFunctionOnSet(f, S) = (CHOOSE g : IsFold(g, f, S))[S]
  BY DEF SumFunctionOnSet, FoldFunctionOnSet, MapThenFoldSet, IsFold, Folded, Pick

(* A set of natural numbers that is not empty has a least one. *)
LEMMA Least ==
  ASSUME NEW N, N \subseteq Nat, N # {}
  PROVE  \E n \in N : \A m \in N : n <= m
  <1>1. PICK n \in N : \A m \in N : ~(<<m, n>> \in OpToRel(<, Nat))
    BY NatLessThanWellFounded, WFMin
  <1>2. \A m \in N : ~(m < n)
    BY Zenon, <1>1 DEF OpToRel
  <1> QED BY <1>2

(* A smallest one among some subsets of a finite set. *)
LEMMA Smallest ==
  ASSUME NEW S, IsFiniteSet(S), NEW B, B \subseteq SUBSET S, B # {}
  PROVE  \E s \in B : \A r \in B : Cardinality(s) <= Cardinality(r)
  <1> DEFINE N == {Cardinality(s) : s \in B}
  <1>1. N \subseteq Nat /\ N # {}
    BY FS_Subset, FS_CardinalityType
  <1>2. PICK n \in N : \A m \in N : n <= m
    BY Zenon, <1>1, Least
  <1> QED BY <1>2

(* Without the element taken first a set is smaller. *)
LEMMA Rest ==
  ASSUME NEW S, IsFiniteSet(S), NEW s \in SUBSET S, s # {}
  PROVE  /\ Pick(s) \in s /\ s \ {Pick(s)} \in SUBSET S
         /\ Cardinality(s) \in Nat /\ Cardinality(s \ {Pick(s)}) = Cardinality(s) - 1
         /\ Cardinality(s) # 0
  <1>1. Pick(s) \in s
    BY DEF Pick
  <1>2. IsFiniteSet(s) /\ Cardinality(s) \in Nat
    BY FS_Subset, FS_CardinalityType
  <1> QED BY <1>1, <1>2, FS_RemoveElement, FS_EmptySet

(* g is the fold on the subsets of at most n elements. *)
FoldUpTo(g, f, S, n) ==
    \A s \in SUBSET S : Cardinality(s) <= n => g[s] = Folded(g, f, s)

(* The fold exists. *)
LEMMA FoldExists ==
  ASSUME NEW S, IsFiniteSet(S), NEW f, \A x \in S : f[x] \in Int
  PROVE  \E g \in [SUBSET S -> Int] : IsFold(g, f, S)
  <1> DEFINE P(n) == \E g \in [SUBSET S -> Int] : FoldUpTo(g, f, S, n)
             Bad == {n \in Nat : ~P(n)}
  <1>1. \A s \in SUBSET S : Cardinality(s) \in Nat /\ (Cardinality(s) = 0 <=> s = {})
    BY FS_Subset, FS_CardinalityType, FS_EmptySet
  <1>2. P(0)
    <2>1. [s \in SUBSET S |-> 0] \in [SUBSET S -> Int]
      OBVIOUS
    <2>2. FoldUpTo([s \in SUBSET S |-> 0], f, S, 0)
      BY <1>1 DEF FoldUpTo, Folded
    <2> QED BY SMTT(30), <2>1, <2>2
  <1>3. ASSUME NEW n \in Nat, P(n) PROVE P(n + 1)
    <2>1. PICK g \in [SUBSET S -> Int] : FoldUpTo(g, f, S, n)
      BY <1>3
    <2> DEFINE h == [s \in SUBSET S |-> IF Cardinality(s) <= n THEN g[s] ELSE Folded(g, f, s)]
    <2>2. \A s \in SUBSET S : Folded(g, f, s) \in Int
      <3> TAKE s \in SUBSET S
      <3>1. s # {} => f[Pick(s)] \in Int /\ g[s \ {Pick(s)}] \in Int
        BY Zenon, Rest
      <3> QED BY <3>1 DEF Folded
    <2>3. h \in [SUBSET S -> Int]
      BY <2>2
    <2>4. ASSUME NEW s \in SUBSET S, Cardinality(s) <= n + 1 PROVE h[s] = Folded(h, f, s)
      <3>1. h[s] = Folded(g, f, s)
        BY <2>1 DEF FoldUpTo
      <3>2. s # {} => h[s \ {Pick(s)}] = g[s \ {Pick(s)}]
        BY <2>4, Rest
      <3> QED BY <3>1, <3>2 DEF Folded
    <2> QED BY Zenon, <2>3, <2>4 DEF FoldUpTo
  <1> HIDE DEF P
  <1>4. Bad = {}
    <2> SUFFICES ASSUME Bad # {} PROVE FALSE
      OBVIOUS
    <2>1. PICK n \in Bad : \A m \in Bad : n <= m
      BY Zenon, Least
    <2>2. n # 0 /\ n \in Nat
      BY <1>2
    <2>3. n - 1 \in Nat /\ n - 1 \notin Bad
      BY <2>1, <2>2
    <2> QED BY <1>3, <2>2, <2>3
  <1>5. P(Cardinality(S))
    BY <1>1, <1>4
  <1>6. PICK g \in [SUBSET S -> Int] : FoldUpTo(g, f, S, Cardinality(S))
    BY <1>5 DEF P
  <1>7. \A s \in SUBSET S : Cardinality(s) <= Cardinality(S)
    BY FS_Subset
  <1>8. IsFold(g, f, S)
    BY <1>6, <1>7 DEF FoldUpTo, IsFold
  <1> QED BY <1>8

(* The sum over a subset is the fold's value there. *)
LEMMA SumIsFold ==
  ASSUME NEW S, IsFiniteSet(S), NEW f, NEW g \in [SUBSET S -> Int], IsFold(g, f, S), NEW T \in SUBSET S
  PROVE  SumFunctionOnSet(f, T) = g[T]
  <1> DEFINE h == CHOOSE h : IsFold(h, f, T)
  <1>1. IsFold([s \in SUBSET T |-> g[s]], f, T)
    <2> DEFINE k == [s \in SUBSET T |-> g[s]]
    <2>1. ASSUME NEW s \in SUBSET T PROVE k[s] = Folded(k, f, s)
      <3>1. k[s] = Folded(g, f, s)
        BY DEF IsFold
      <3>2. s # {} => k[s \ {Pick(s)}] = g[s \ {Pick(s)}]
        OBVIOUS
      <3> QED BY <3>1, <3>2 DEF Folded
    <2> QED BY Zenon, <2>1 DEF IsFold
  <1>2. IsFold(h, f, T)
    BY <1>1
  <1> HIDE DEF h
  <1> DEFINE Bad == {s \in SUBSET T : h[s] # g[s]}
  <1>3. Bad = {}
    <2> SUFFICES ASSUME Bad # {} PROVE FALSE
      OBVIOUS
    <2>1. Bad \subseteq SUBSET S /\ IsFiniteSet(T)
      BY FS_Subset
    <2>2. PICK s \in Bad : \A r \in Bad : Cardinality(s) <= Cardinality(r)
      <3> HIDE DEF Bad
      <3> QED BY <2>1, Smallest
    <2>3. h[s] = Folded(h, f, s) /\ g[s] = Folded(g, f, s)
      BY <1>2 DEF IsFold
    <2>4. s # {}
      BY <2>3 DEF Folded
    <2>5. s \ {Pick(s)} \notin Bad
      BY <2>1, <2>2, <2>4, Rest
    <2> QED BY <2>3, <2>4, <2>5 DEF Folded
  <1> QED BY <1>3, SumUnfold DEF h

(* The fold takes any element of a set first. *)
Adds(g, f, S) == \A T \in SUBSET S : \A x \in T : g[T] = f[x] + g[T \ {x}]

(* The fold does not depend on which element comes first. *)
LEMMA FoldAdds ==
  ASSUME NEW S, IsFiniteSet(S), NEW f, \A x \in S : f[x] \in Int,
         NEW g \in [SUBSET S -> Int], IsFold(g, f, S)
  PROVE  Adds(g, f, S)
  <1> DEFINE Bad == {s \in SUBSET S : \E y \in s : g[s] # f[y] + g[s \ {y}]}
  <1>1. Bad = {}
    <2> SUFFICES ASSUME Bad # {} PROVE FALSE
      OBVIOUS
    <2>1. Bad \subseteq SUBSET S
      OBVIOUS
    <2>2. PICK s \in Bad : \A r \in Bad : Cardinality(s) <= Cardinality(r)
      <3> HIDE DEF Bad
      <3> QED BY <2>1, Smallest
    <2>3. PICK y \in s : g[s] # f[y] + g[s \ {y}]
      OBVIOUS
    <2>4. PICK z : z = Pick(s)
      OBVIOUS
    <2>5. /\ z \in s /\ s \ {z} \in SUBSET S /\ s \ {y} \in SUBSET S
          /\ (s \ {y}) \ {z} \in SUBSET S
      BY Zenon, <2>4, Rest
    <2>6. g[s] = f[z] + g[s \ {z}]
      BY Zenon, <2>4 DEF IsFold, Folded
    <2>7. y # z
      BY Zenon, <2>3, <2>6
    <2>8. IsFiniteSet(s) /\ Cardinality(s) \in Nat
      BY FS_Subset, FS_CardinalityType
    <2>9. Cardinality(s \ {y}) = Cardinality(s) - 1 /\ Cardinality(s \ {z}) = Cardinality(s) - 1
      BY Zenon, <2>5, <2>8, FS_RemoveElement
    <2>10. s \ {y} \notin Bad /\ s \ {z} \notin Bad
      <3> HIDE DEF Bad
      <3> QED BY <2>2, <2>8, <2>9
    <2>11. g[s \ {y}] = f[z] + g[(s \ {y}) \ {z}]
      BY Zenon, <2>5, <2>7, <2>10
    <2>12. g[s \ {z}] = f[y] + g[(s \ {z}) \ {y}]
      BY Zenon, <2>5, <2>7, <2>10
    <2>13. PICK r : r = (s \ {y}) \ {z} /\ r = (s \ {z}) \ {y}
      BY Zenon
    <2>14. y \in S /\ z \in S
      BY <2>5
    <2>15. f[y] \in Int /\ f[z] \in Int
      BY <2>14
    <2>16. g[r] \in Int
      BY <2>5, <2>13
    <2>17. g[s] = f[z] + (f[y] + g[r])
      BY Zenon, <2>6, <2>12, <2>13
    <2>18. f[y] + g[s \ {y}] = f[y] + (f[z] + g[r])
      BY <2>11, <2>13
    <2>19. f[z] + (f[y] + g[r]) = f[y] + (f[z] + g[r])
      BY <2>15, <2>16
    <2> QED BY <2>3, <2>17, <2>18, <2>19
  <1> QED BY <1>1 DEF Adds

(* The sum over a set is that without one of its elements and that element. *)
LEMMA SumTake ==
  ASSUME NEW S, IsFiniteSet(S), NEW f, \A x \in S : f[x] \in Int, NEW x \in S
  PROVE  SumFunctionOnSet(f, S) = f[x] + SumFunctionOnSet(f, S \ {x})
  <1>1. PICK g \in [SUBSET S -> Int] : IsFold(g, f, S)
    BY Zenon, FoldExists
  <1>2. SumFunctionOnSet(f, S) = g[S] /\ SumFunctionOnSet(f, S \ {x}) = g[S \ {x}]
    BY ZenonT(30), <1>1, SumIsFold
  <1>3. g[S] = f[x] + g[S \ {x}]
    <2>1. S \in SUBSET S
      OBVIOUS
    <2>2. Adds(g, f, S)
      BY <1>1, FoldAdds
    <2> QED BY <2>1, <2>2, Zenon DEF Adds
  <1> QED BY <1>2, <1>3

(* The sum of integers is one. *)
LEMMA SumType ==
  ASSUME NEW S, IsFiniteSet(S), NEW f, \A x \in S : f[x] \in Int
  PROVE  SumFunctionOnSet(f, S) \in Int
  <1>1. PICK g \in [SUBSET S -> Int] : IsFold(g, f, S)
    BY Zenon, FoldExists
  <1>2. SumFunctionOnSet(f, S) = g[S]
    BY ZenonT(30), <1>1, SumIsFold
  <1>3. g[S] \in Int
    OBVIOUS
  <1> QED BY <1>2, <1>3

(* The sum over no elements. *)
LEMMA SumEmpty ==
  ASSUME NEW f
  PROVE  SumFunctionOnSet(f, {}) = 0
  <1>1. IsFiniteSet({})
    BY FS_EmptySet
  <1>2. PICK g \in [SUBSET {} -> Int] : IsFold(g, f, {})
    BY Zenon, <1>1, FoldExists
  <1>3. g[{}] = 0
    BY <1>2 DEF IsFold, Folded
  <1> QED BY Zenon, <1>1, <1>2, <1>3, SumIsFold

(* The sum over a set with one more element. *)
LEMMA SumAdd ==
  ASSUME NEW S, IsFiniteSet(S), NEW f, NEW x, x \notin S, \A y \in S \cup {x} : f[y] \in Int
  PROVE  SumFunctionOnSet(f, S \cup {x}) = f[x] + SumFunctionOnSet(f, S)
  <1>1. IsFiniteSet(S \cup {x})
    BY FS_AddElement
  <1>2. (S \cup {x}) \ {x} = S
    OBVIOUS
  <1> QED BY <1>1, <1>2, SumTake

(* Only the values on the set matter. *)
LEMMA SumSame ==
  ASSUME NEW S, IsFiniteSet(S), NEW f, NEW g, \A x \in S : f[x] \in Int /\ g[x] = f[x]
  PROVE  SumFunctionOnSet(g, S) = SumFunctionOnSet(f, S)
  <1> DEFINE Bad == {s \in SUBSET S : SumFunctionOnSet(g, s) # SumFunctionOnSet(f, s)}
  <1>1. Bad = {}
    <2> SUFFICES ASSUME Bad # {} PROVE FALSE
      OBVIOUS
    <2>1. Bad \subseteq SUBSET S
      OBVIOUS
    <2>2. PICK s \in Bad : \A r \in Bad : Cardinality(s) <= Cardinality(r)
      <3> HIDE DEF Bad
      <3> QED BY <2>1, Smallest
    <2>3. s # {}
      BY SumEmpty
    <2>4. Pick(s) \in s /\ s \ {Pick(s)} \notin Bad /\ s \ {Pick(s)} \in SUBSET S
      BY <2>2, <2>3, Rest
    <2>5. IsFiniteSet(s)
      BY FS_Subset
    <2>6. SumFunctionOnSet(f, s) = f[Pick(s)] + SumFunctionOnSet(f, s \ {Pick(s)})
      BY <2>4, <2>5, SumTake
    <2>7. SumFunctionOnSet(g, s) = g[Pick(s)] + SumFunctionOnSet(g, s \ {Pick(s)})
      BY <2>4, <2>5, SumTake
    <2> QED BY <2>4, <2>6, <2>7
  <1> QED BY <1>1

(* Functions f and g to the integers agree on S except at x. *)
SameExcept(f, g, S, x) ==
    \A y \in S : f[y] \in Int /\ g[y] \in Int /\ (y # x => g[y] = f[y])

(* Changing one value changes the sum by as much. *)
LEMMA SumChange ==
  ASSUME NEW S, IsFiniteSet(S), NEW f, NEW g, NEW x \in S, SameExcept(f, g, S, x)
  PROVE  SumFunctionOnSet(g, S) = SumFunctionOnSet(f, S) + (g[x] - f[x])
  <1> USE DEF SameExcept
  <1>1. IsFiniteSet(S \ {x})
    BY FS_RemoveElement
  <1>2. SumFunctionOnSet(g, S \ {x}) = SumFunctionOnSet(f, S \ {x})
    BY <1>1, SumSame
  <1>3. SumFunctionOnSet(f, S \ {x}) \in Int
    BY <1>1, SumType
  <1>4. /\ SumFunctionOnSet(f, S) = f[x] + SumFunctionOnSet(f, S \ {x})
        /\ SumFunctionOnSet(g, S) = g[x] + SumFunctionOnSet(g, S \ {x})
    BY SumTake
  <1> QED BY <1>2, <1>3, <1>4

(* A sum of zeros. *)
LEMMA SumZero ==
  ASSUME NEW S, IsFiniteSet(S), NEW f, \A x \in S : f[x] = 0
  PROVE  SumFunctionOnSet(f, S) = 0
  <1> DEFINE Bad == {s \in SUBSET S : SumFunctionOnSet(f, s) # 0}
  <1>1. Bad = {}
    <2> SUFFICES ASSUME Bad # {} PROVE FALSE
      OBVIOUS
    <2>1. Bad \subseteq SUBSET S
      OBVIOUS
    <2>2. PICK s \in Bad : \A r \in Bad : Cardinality(s) <= Cardinality(r)
      <3> HIDE DEF Bad
      <3> QED BY <2>1, Smallest
    <2>3. s # {}
      BY SumEmpty
    <2>4. Pick(s) \in s /\ s \ {Pick(s)} \notin Bad /\ s \ {Pick(s)} \in SUBSET S
      BY <2>2, <2>3, Rest
    <2>5. IsFiniteSet(s)
      BY FS_Subset
    <2>6. SumFunctionOnSet(f, s) = f[Pick(s)] + SumFunctionOnSet(f, s \ {Pick(s)})
      BY <2>4, <2>5, SumTake
    <2> QED BY <2>4, <2>6
  <1> QED BY <1>1

(* A sum of natural numbers is one, and no smaller than any of them. *)
LEMMA SumNat ==
  ASSUME NEW S, IsFiniteSet(S), NEW f, \A x \in S : f[x] \in Nat
  PROVE  /\ SumFunctionOnSet(f, S) \in Nat
         /\ \A x \in S : f[x] <= SumFunctionOnSet(f, S)
  <1> DEFINE Bad == {s \in SUBSET S : SumFunctionOnSet(f, s) \notin Nat}
  <1>1. Bad = {}
    <2> SUFFICES ASSUME Bad # {} PROVE FALSE
      OBVIOUS
    <2>1. Bad \subseteq SUBSET S
      OBVIOUS
    <2>2. PICK s \in Bad : \A r \in Bad : Cardinality(s) <= Cardinality(r)
      <3> HIDE DEF Bad
      <3> QED BY <2>1, Smallest
    <2>3. s # {}
      BY SumEmpty
    <2>4. Pick(s) \in s /\ s \ {Pick(s)} \notin Bad /\ s \ {Pick(s)} \in SUBSET S
      BY <2>2, <2>3, Rest
    <2>5. IsFiniteSet(s)
      BY FS_Subset
    <2>6. SumFunctionOnSet(f, s) = f[Pick(s)] + SumFunctionOnSet(f, s \ {Pick(s)})
      BY <2>4, <2>5, SumTake
    <2> QED BY <2>4, <2>6
  <1>2. ASSUME NEW x \in S PROVE f[x] <= SumFunctionOnSet(f, S)
    <2>1. SumFunctionOnSet(f, S) = f[x] + SumFunctionOnSet(f, S \ {x})
      BY SumTake
    <2>2. SumFunctionOnSet(f, S \ {x}) \in Nat
      BY <1>1
    <2> QED BY <2>1, <2>2
  <1> QED BY <1>1, <1>2
=============================================================================
