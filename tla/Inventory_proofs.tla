-------------------------- MODULE Inventory_proofs --------------------------
(***************************************************************************)
(* What the operations of module Inventory do to the slots and to the     *)
(* amount of every kind, for inventories of any size.  Amounts are sums,   *)
(* so the module starts with facts about SumFunction over finite sets.     *)
(* The induction theorems of the library take predicates as parameters;    *)
(* here the inductions are over sets of numbers and sets of subsets.       *)
(***************************************************************************)
EXTENDS Inventory, FiniteSetTheorems, WellFoundedInduction, TLAPS

LEMMA MinIsMember ==
  ASSUME NEW S, S \subseteq Nat, S # {}
  PROVE  Min(S) \in S /\ \A y \in S : Min(S) =< y
<1> DEFINE R == {p \in Nat \X Nat : p[1] < p[2]}
<1>1. R = OpToRel(<, Nat)
  BY DEF OpToRel
<1>2. IsWellFoundedOn(R, Nat)
  BY <1>1, NatLessThanWellFounded
<1> HIDE DEF R
<1>3. PICK x \in S : \A y \in S : ~ (<<y, x>> \in R)
  BY <1>2, WFMin
<1>4. ASSUME NEW y \in S PROVE x =< y
  <2>1. x \in Nat /\ y \in Nat
    OBVIOUS
  <2>2. <<y, x>> \in R <=> y < x
    BY <2>1 DEF R
  <2> QED
    BY <1>3, <2>1, <2>2
<1> QED
  BY <1>4 DEF Min

LEMMA Induct ==
  ASSUME NEW A, A \subseteq Nat, 0 \in A, \A n \in A : n + 1 \in A
  PROVE  A = Nat
<1> SUFFICES ASSUME Nat \ A # {} PROVE FALSE
  OBVIOUS
<1>1. PICK m \in Nat \ A : \A y \in Nat \ A : m =< y
  BY MinIsMember
<1>2. m - 1 \in Nat /\ m - 1 \notin Nat \ A
  BY <1>1
<1>3. (m - 1) + 1 = m
  BY <1>1
<1> QED
  BY <1>1, <1>2, <1>3

-----------------------------------------------------------------------------
Chosen(s) == CHOOSE x \in s : TRUE

(* What one step of the fold makes of the sums of smaller sets.            *)
Fold(f, S, g) == [s \in SUBSET S |-> IF s = {} THEN 0 ELSE f[Chosen(s)] + g[s \ {Chosen(s)}]]

LEMMA ChosenIn == \A s : s # {} => Chosen(s) \in s
  BY DEF Chosen

LEMMA SumIsFold ==
  ASSUME NEW S, NEW f
  PROVE  SumFunctionOnSet(f, S) = (CHOOSE g : g = Fold(f, S, g))[S]
<1>1. SumFunctionOnSet(f, S)
        = (CHOOSE iter : iter = [s \in SUBSET S |->
             IF s = {} THEN 0 ELSE LET x == CHOOSE x \in s : TRUE
                                   IN  f[x] + iter[s \ {x}]])[S]
  BY DEF SumFunctionOnSet, FoldFunctionOnSet, MapThenFoldSet
<1> QED
  BY <1>1 DEF Fold, Chosen

Small(S, n) == {s \in SUBSET S : Cardinality(s) <= n}

LEMMA FoldExists ==
  ASSUME NEW S, IsFiniteSet(S), NEW f
  PROVE  \E g : g = Fold(f, S, g)
<1> DEFINE Good(n) == \E g : \A s \in Small(S, n) :
                        g[s] = IF s = {} THEN 0 ELSE f[Chosen(s)] + g[s \ {Chosen(s)}]
           A == {n \in Nat : Good(n)}
<1>0. \A s \in SUBSET S : IsFiniteSet(s) /\ Cardinality(s) \in Nat
                          /\ Cardinality(s) <= Cardinality(S)
  BY FS_Subset, FS_CardinalityType
<1>1. 0 \in A
  <2>1. \A s \in Small(S, 0) : s = {}
    BY <1>0, FS_EmptySet DEF Small
  <2>2. \A s \in Small(S, 0) : [x \in SUBSET S |-> 0][s] = 0
    BY DEF Small
  <2> QED
    BY <2>1, <2>2
<1>2. ASSUME NEW n \in A PROVE n + 1 \in A
  <2>1. PICK g : \A s \in Small(S, n) :
                   g[s] = IF s = {} THEN 0 ELSE f[Chosen(s)] + g[s \ {Chosen(s)}]
    OBVIOUS
  <2> DEFINE h == [s \in SUBSET S |-> IF s \in Small(S, n) THEN g[s]
                                      ELSE f[Chosen(s)] + g[s \ {Chosen(s)}]]
  <2>2. \A s \in Small(S, n + 1) : s # {} => s \ {Chosen(s)} \in Small(S, n)
    <3> SUFFICES ASSUME NEW s \in Small(S, n + 1), s # {}
                 PROVE  s \ {Chosen(s)} \in Small(S, n)
      OBVIOUS
    <3>1. s \in SUBSET S /\ IsFiniteSet(s) /\ Chosen(s) \in s
          /\ Cardinality(s) \in Nat /\ Cardinality(s) <= n + 1
      BY <1>0, ChosenIn DEF Small
    <3>2. Cardinality(s \ {Chosen(s)}) = Cardinality(s) - 1
      BY <3>1, FS_RemoveElement
    <3> QED
      BY <3>1, <3>2 DEF Small
  <2>3. \A s \in Small(S, n) : h[s] = g[s]
    BY DEF Small
  <2>4. \A s \in SUBSET S : s \notin Small(S, n) => h[s] = f[Chosen(s)] + g[s \ {Chosen(s)}]
    OBVIOUS
  <2>5. {} \in Small(S, n)
    BY FS_EmptySet DEF Small
  <2> HIDE DEF h
  <2>6. ASSUME NEW s \in Small(S, n + 1)
        PROVE  h[s] = IF s = {} THEN 0 ELSE f[Chosen(s)] + h[s \ {Chosen(s)}]
    <3>1. s # {} => h[s \ {Chosen(s)}] = g[s \ {Chosen(s)}]
      BY <2>2, <2>3
    <3>2. CASE s \in Small(S, n)
      BY <2>1, <2>3, <3>1, <3>2
    <3>3. CASE s \notin Small(S, n)
      BY <2>4, <2>5, <3>1, <3>3 DEF Small
    <3> QED
      BY <3>2, <3>3
  <2>7. Good(n + 1)
    <3> WITNESS h
    <3> QED
      BY <2>6
  <2>8. n + 1 \in Nat
    OBVIOUS
  <2> HIDE DEF Good
  <2> QED
    BY <2>7, <2>8
<1>3. Cardinality(S) \in A
  BY <1>0, <1>1, <1>2, Induct
<1>4. PICK g : \A s \in Small(S, Cardinality(S)) :
                 g[s] = IF s = {} THEN 0 ELSE f[Chosen(s)] + g[s \ {Chosen(s)}]
  BY <1>3
<1>5. Small(S, Cardinality(S)) = SUBSET S
  BY <1>0 DEF Small
<1> DEFINE r == [s \in SUBSET S |-> g[s]]
<1>6. r = Fold(f, S, r)
  <2>1. ASSUME NEW s \in SUBSET S
        PROVE  g[s] = IF s = {} THEN 0 ELSE f[Chosen(s)] + r[s \ {Chosen(s)}]
    <3>1. s \ {Chosen(s)} \in SUBSET S
      OBVIOUS
    <3> QED
      BY <1>4, <1>5, <3>1
  <2> QED
    BY <2>1 DEF Fold
<1> QED
  BY <1>6

-----------------------------------------------------------------------------
(* Induction over the subsets of a finite set: P holds of the empty set and *)
(* of every set if it holds of all smaller ones.                            *)
LEMMA SubsetInduct ==
  ASSUME NEW S, IsFiniteSet(S), NEW P,
         \A s \in SUBSET S : (\A t \in SUBSET S : Cardinality(t) < Cardinality(s) => t \in P)
                               => s \in P
  PROVE  \A s \in SUBSET S : s \in P
<1>0. \A s \in SUBSET S : IsFiniteSet(s) /\ Cardinality(s) \in Nat
  BY FS_Subset, FS_CardinalityType
<1> DEFINE A == {n \in Nat : \A s \in SUBSET S : Cardinality(s) < n => s \in P}
<1>1. 0 \in A
  BY <1>0
<1>2. ASSUME NEW n \in A PROVE n + 1 \in A
  <2>1. n \in Nat /\ n + 1 \in Nat
    OBVIOUS
  <2>2. ASSUME NEW s \in SUBSET S, Cardinality(s) < n + 1
        PROVE  s \in P
    <3>1. \A t \in SUBSET S : Cardinality(t) < Cardinality(s) => Cardinality(t) < n
      BY <1>0, <2>1, <2>2
    <3>2. \A t \in SUBSET S : Cardinality(t) < Cardinality(s) => t \in P
      BY <3>1
    <3> QED
      BY <3>2
  <2> QED
    BY <2>1, <2>2
<1>3. A = Nat
  <2> HIDE DEF A
  <2>1. A \subseteq Nat
    BY DEF A
  <2> QED
    BY <1>1, <1>2, <2>1, Induct
<1>4. ASSUME NEW s \in SUBSET S PROVE s \in P
  <2>1. Cardinality(s) + 1 \in A
    BY <1>0, <1>3
  <2>2. Cardinality(s) < Cardinality(s) + 1
    BY <1>0
  <2> QED
    BY <2>1, <2>2
<1> QED
  BY <1>4

LEMMA Removed ==
  ASSUME NEW S, IsFiniteSet(S), NEW s \in SUBSET S, NEW x \in s
  PROVE  /\ IsFiniteSet(s) /\ s \ {x} \in SUBSET S
         /\ Cardinality(s) \in Nat /\ Cardinality(s \ {x}) \in Nat
         /\ Cardinality(s \ {x}) < Cardinality(s)
<1>1. IsFiniteSet(s) /\ IsFiniteSet(s \ {x})
  BY FS_Subset
<1>2. Cardinality(s) \in Nat /\ Cardinality(s \ {x}) \in Nat
  BY <1>1, FS_CardinalityType
<1>3. Cardinality(s \ {x}) = Cardinality(s) - 1
  BY <1>1, FS_RemoveElement
<1> QED
  BY <1>1, <1>2, <1>3

Sum(f, S) == SumFunctionOnSet(f, S)

LEMMA SumOfFunction == \A f : SumFunction(f) = Sum(f, DOMAIN f)
  BY DEF SumFunction, Sum

LEMMA SumEmpty == \A f : Sum(f, {}) = 0
<1> TAKE f
<1>1. PICK g : g = Fold(f, {}, g)
  BY FS_EmptySet, FoldExists
<1> DEFINE r == CHOOSE h : h = Fold(f, {}, h)
<1>2. r = Fold(f, {}, r)
  BY <1>1
<1> HIDE DEF r
<1>3. r[{}] = 0
  BY <1>2 DEF Fold
<1>4. Sum(f, {}) = r[{}]
  BY SumIsFold DEF r, Sum
<1> QED
  BY <1>3, <1>4

LEMMA FoldsAgree ==
  ASSUME NEW S, IsFiniteSet(S), NEW T \in SUBSET S, NEW f, NEW g, NEW h,
         g = Fold(f, S, g), h = Fold(f, T, h)
  PROVE  \A s \in SUBSET T : g[s] = h[s]
<1> DEFINE P == {s \in SUBSET T : g[s] = h[s]}
<1>0. IsFiniteSet(T)
  BY FS_Subset
<1>1. ASSUME NEW s \in SUBSET T,
             \A t \in SUBSET T : Cardinality(t) < Cardinality(s) => t \in P
      PROVE  s \in P
  <2>1. g[s] = IF s = {} THEN 0 ELSE f[Chosen(s)] + g[s \ {Chosen(s)}]
    BY DEF Fold
  <2>2. h[s] = IF s = {} THEN 0 ELSE f[Chosen(s)] + h[s \ {Chosen(s)}]
    BY DEF Fold
  <2>3. s # {} => s \ {Chosen(s)} \in P
    BY <1>0, <1>1, ChosenIn, Removed
  <2>4. g[s] = h[s]
    BY <2>1, <2>2, <2>3
  <2> QED
    BY <2>4
<1> HIDE DEF P
<1>2. \A s \in SUBSET T : s \in P
  BY <1>0, <1>1, SubsetInduct
<1> QED
  BY <1>2 DEF P

LEMMA SumStep ==
  ASSUME NEW S, IsFiniteSet(S), S # {}, NEW f
  PROVE  Sum(f, S) = f[Chosen(S)] + Sum(f, S \ {Chosen(S)})
<1> DEFINE T == S \ {Chosen(S)}
           g == CHOOSE i : i = Fold(f, S, i)
           h == CHOOSE i : i = Fold(f, T, i)
<1>1. IsFiniteSet(T) /\ T \in SUBSET S
  BY FS_Subset
<1>2. g = Fold(f, S, g)
  BY FoldExists
<1> HIDE DEF T
<1>3. h = Fold(f, T, h)
  BY <1>1, FoldExists
<1>4. Sum(f, S) = g[S] /\ Sum(f, T) = h[T]
  BY SumIsFold DEF Sum
<1> HIDE DEF g, h
<1>5. g[T] = h[T]
  BY <1>1, <1>2, <1>3, FoldsAgree
<1>6. g[S] = f[Chosen(S)] + g[T]
  BY <1>2 DEF Fold, T
<1> QED
  BY <1>4, <1>5, <1>6 DEF T

LEMMA SumType ==
  ASSUME NEW S, IsFiniteSet(S), NEW f, \A x \in S : f[x] \in Int
  PROVE  Sum(f, S) \in Int
<1> DEFINE P == {s \in SUBSET S : Sum(f, s) \in Int}
<1>1. ASSUME NEW s \in SUBSET S,
             \A t \in SUBSET S : Cardinality(t) < Cardinality(s) => t \in P
      PROVE  s \in P
  <2>1. CASE s = {}
    BY <2>1, SumEmpty
  <2>2. CASE s # {}
    <3>1. Chosen(s) \in s
      BY <2>2, ChosenIn
    <3>2. s \ {Chosen(s)} \in P /\ IsFiniteSet(s)
      BY <1>1, <3>1, Removed
    <3>3. Sum(f, s) = f[Chosen(s)] + Sum(f, s \ {Chosen(s)})
      BY <2>2, <3>2, SumStep
    <3>4. f[Chosen(s)] \in Int /\ Sum(f, s \ {Chosen(s)}) \in Int
      BY <3>1, <3>2
    <3> QED
      BY <3>3, <3>4
  <2> QED
    BY <2>1, <2>2
<1> HIDE DEF P
<1>2. \A s \in SUBSET S : s \in P
  BY <1>1, SubsetInduct
<1> QED
  BY <1>2 DEF P

(* One term can be taken out of a sum.                                     *)
LEMMA SumRemove ==
  ASSUME NEW S, IsFiniteSet(S), NEW f, \A x \in S : f[x] \in Int, NEW x \in S
  PROVE  Sum(f, S) = f[x] + Sum(f, S \ {x})
<1> DEFINE P == {s \in SUBSET S : \A y \in s : Sum(f, s) = f[y] + Sum(f, s \ {y})}
<1>0. \A s \in SUBSET S : IsFiniteSet(s) /\ Sum(f, s) \in Int
  BY FS_Subset, SumType
<1>1. ASSUME NEW s \in SUBSET S,
             \A t \in SUBSET S : Cardinality(t) < Cardinality(s) => t \in P
      PROVE  s \in P
  <2> SUFFICES ASSUME NEW y \in s PROVE Sum(f, s) = f[y] + Sum(f, s \ {y})
    OBVIOUS
  <2> DEFINE c == Chosen(s)
  <2>1. c \in s
    BY ChosenIn
  <2>2. Sum(f, s) = f[c] + Sum(f, s \ {c})
    BY <1>0, SumStep
  <2> HIDE DEF c
  <2>3. CASE y = c
    BY <2>2, <2>3
  <2>4. CASE y # c
    <3>1. s \ {c} \in P /\ s \ {y} \in P
      BY SMTT(60), <1>1, <2>1, Removed
    <3>2. Sum(f, s \ {c}) = f[y] + Sum(f, (s \ {c}) \ {y})
      BY <2>4, <3>1
    <3>3. Sum(f, s \ {y}) = f[c] + Sum(f, (s \ {y}) \ {c})
      BY <2>1, <2>4, <3>1
    <3>4. (s \ {c}) \ {y} = (s \ {y}) \ {c}
      OBVIOUS
    <3>5. f[y] \in Int /\ f[c] \in Int /\ Sum(f, (s \ {y}) \ {c}) \in Int
      BY <1>0, <2>1
    <3>6. Sum(f, (s \ {c}) \ {y}) = Sum(f, (s \ {y}) \ {c})
      BY <3>4
    <3> HIDE DEF P
    <3> QED
      BY <2>2, <3>2, <3>3, <3>5, <3>6
  <2> QED
    BY <2>3, <2>4
<1> HIDE DEF P
<1>2. \A s \in SUBSET S : s \in P
  BY <1>1, SubsetInduct
<1>3. S \in P
  BY <1>2
<1> QED
  BY <1>3 DEF P

(* A sum looks at the values only.                                         *)
LEMMA SumSame ==
  ASSUME NEW S, IsFiniteSet(S), NEW f, NEW g, \A x \in S : f[x] = g[x]
  PROVE  Sum(f, S) = Sum(g, S)
<1> DEFINE P == {s \in SUBSET S : Sum(f, s) = Sum(g, s)}
<1>1. ASSUME NEW s \in SUBSET S,
             \A t \in SUBSET S : Cardinality(t) < Cardinality(s) => t \in P
      PROVE  s \in P
  <2>1. CASE s = {}
    BY <2>1, SumEmpty
  <2>2. CASE s # {}
    <3>1. Chosen(s) \in s
      BY <2>2, ChosenIn
    <3>2. s \ {Chosen(s)} \in P /\ IsFiniteSet(s)
      BY <1>1, <3>1, Removed
    <3>3. Sum(f, s) = f[Chosen(s)] + Sum(f, s \ {Chosen(s)})
      BY <2>2, <3>2, SumStep
    <3>4. Sum(g, s) = g[Chosen(s)] + Sum(g, s \ {Chosen(s)})
      BY <2>2, <3>2, SumStep
    <3> QED
      BY <3>1, <3>2, <3>3, <3>4
  <2> QED
    BY <2>1, <2>2
<1> HIDE DEF P
<1>2. \A s \in SUBSET S : s \in P
  BY <1>1, SubsetInduct
<1> QED
  BY <1>2 DEF P

(* The sum of sums.                                                        *)
LEMMA SumPlus ==
  ASSUME NEW S, IsFiniteSet(S), NEW f, NEW g, NEW h,
         \A x \in S : f[x] \in Int /\ g[x] \in Int /\ h[x] = f[x] + g[x]
  PROVE  Sum(h, S) = Sum(f, S) + Sum(g, S)
<1> DEFINE P == {s \in SUBSET S : Sum(h, s) = Sum(f, s) + Sum(g, s)}
<1>0. \A s \in SUBSET S : IsFiniteSet(s) /\ Sum(f, s) \in Int /\ Sum(g, s) \in Int
  BY FS_Subset, SumType
<1>1. ASSUME NEW s \in SUBSET S,
             \A t \in SUBSET S : Cardinality(t) < Cardinality(s) => t \in P
      PROVE  s \in P
  <2>1. CASE s = {}
    BY <2>1, SumEmpty
  <2>2. CASE s # {}
    <3> DEFINE c == Chosen(s)
    <3>1. c \in s
      BY <2>2, ChosenIn
    <3>2. s \ {c} \in P
      BY <1>1, <3>1, Removed
    <3>3. /\ Sum(f, s) = f[c] + Sum(f, s \ {c}) /\ Sum(g, s) = g[c] + Sum(g, s \ {c})
          /\ Sum(h, s) = h[c] + Sum(h, s \ {c})
      BY <1>0, <2>2, SumStep
    <3> HIDE DEF c
    <3>4. f[c] \in Int /\ g[c] \in Int /\ h[c] = f[c] + g[c]
      BY <3>1
    <3>5. Sum(f, s \ {c}) \in Int /\ Sum(g, s \ {c}) \in Int
      BY <1>0
    <3>6. Sum(h, s \ {c}) = Sum(f, s \ {c}) + Sum(g, s \ {c})
      BY <3>2
    <3> QED
      BY <3>3, <3>4, <3>5, <3>6
  <2> QED
    BY <2>1, <2>2
<1> HIDE DEF P
<1>2. \A s \in SUBSET S : s \in P
  BY <1>1, SubsetInduct
<1> QED
  BY <1>2 DEF P

LEMMA SumNat ==
  ASSUME NEW S, IsFiniteSet(S), NEW f, \A x \in S : f[x] \in Nat
  PROVE  Sum(f, S) \in Nat
<1> DEFINE P == {s \in SUBSET S : Sum(f, s) \in Nat}
<1>1. ASSUME NEW s \in SUBSET S,
             \A t \in SUBSET S : Cardinality(t) < Cardinality(s) => t \in P
      PROVE  s \in P
  <2>1. CASE s = {}
    BY <2>1, SumEmpty
  <2>2. CASE s # {}
    <3>1. Chosen(s) \in s
      BY <2>2, ChosenIn
    <3>2. s \ {Chosen(s)} \in P /\ IsFiniteSet(s)
      BY <1>1, <3>1, Removed
    <3>3. Sum(f, s) = f[Chosen(s)] + Sum(f, s \ {Chosen(s)})
      BY <2>2, <3>2, SumStep
    <3>4. f[Chosen(s)] \in Nat /\ Sum(f, s \ {Chosen(s)}) \in Nat
      BY <3>1, <3>2
    <3> QED
      BY <3>3, <3>4
  <2> QED
    BY <2>1, <2>2
<1> HIDE DEF P
<1>2. \A s \in SUBSET S : s \in P
  BY <1>1, SubsetInduct
<1> QED
  BY <1>2 DEF P

(* One term changes.                                                       *)
LEMMA SumOneChange ==
  ASSUME NEW S, IsFiniteSet(S), NEW f, NEW g, NEW x \in S,
         \A y \in S : f[y] \in Int /\ g[y] \in Int,
         \A y \in S \ {x} : g[y] = f[y]
  PROVE  Sum(g, S) = Sum(f, S) - f[x] + g[x]
<1>1. IsFiniteSet(S \ {x})
  BY FS_Subset
<1>2. Sum(f, S) = f[x] + Sum(f, S \ {x}) /\ Sum(g, S) = g[x] + Sum(g, S \ {x})
  BY SumRemove
<1>3. Sum(g, S \ {x}) = Sum(f, S \ {x})
  BY <1>1, SumSame
<1>4. Sum(f, S \ {x}) \in Int /\ f[x] \in Int /\ g[x] \in Int
  BY <1>1, SumType
<1> QED
  BY <1>2, <1>3, <1>4

LEMMA SumZero ==
  ASSUME NEW S, IsFiniteSet(S), NEW f, \A x \in S : f[x] = 0
  PROVE  Sum(f, S) = 0
<1> DEFINE P == {s \in SUBSET S : Sum(f, s) = 0}
<1>1. ASSUME NEW s \in SUBSET S,
             \A t \in SUBSET S : Cardinality(t) < Cardinality(s) => t \in P
      PROVE  s \in P
  <2>1. CASE s = {}
    BY <2>1, SumEmpty
  <2>2. CASE s # {}
    <3>1. Chosen(s) \in s
      BY <2>2, ChosenIn
    <3>2. s \ {Chosen(s)} \in P /\ IsFiniteSet(s)
      BY <1>1, <3>1, Removed
    <3>3. Sum(f, s) = f[Chosen(s)] + Sum(f, s \ {Chosen(s)})
      BY <2>2, <3>2, SumStep
    <3>4. f[Chosen(s)] = 0 /\ Sum(f, s \ {Chosen(s)}) = 0
      BY <3>1, <3>2
    <3> QED
      BY <3>3, <3>4
  <2> QED
    BY <2>1, <2>2
<1> HIDE DEF P
<1>2. \A s \in SUBSET S : s \in P
  BY <1>1, SubsetInduct
<1> QED
  BY <1>2 DEF P

(* Terms may be numbered in another way.                                   *)
LEMMA SumRenumber ==
  ASSUME NEW S, IsFiniteSet(S), NEW T, IsFiniteSet(T), NEW f, NEW g, NEW r,
         \A x \in S : r[x] \in T /\ g[r[x]] \in Int /\ f[x] = g[r[x]],
         \A x, y \in S : x # y => r[x] # r[y],
         \A z \in T : \E x \in S : r[x] = z
  PROVE  Sum(f, S) = Sum(g, T)
<1> DEFINE Image(s) == {r[x] : x \in s}
           P == {s \in SUBSET S : Sum(f, s) = Sum(g, Image(s))}
<1>1. ASSUME NEW s \in SUBSET S,
             \A t \in SUBSET S : Cardinality(t) < Cardinality(s) => t \in P
      PROVE  s \in P
  <2>1. CASE s = {}
    <3>1. Image(s) = {}
      BY <2>1
    <3> QED
      BY <2>1, <3>1, SumEmpty
  <2>2. CASE s # {}
    <3> DEFINE c == Chosen(s)
    <3>1. c \in s /\ c \in S
      BY <2>2, ChosenIn
    <3>2. s \ {c} \in P /\ IsFiniteSet(s)
      BY <1>1, <3>1, Removed
    <3>3. Sum(f, s) = f[c] + Sum(f, s \ {c})
      BY <2>2, <3>2, SumStep
    <3> HIDE DEF c
    <3>4. Image(s \ {c}) = Image(s) \ {r[c]}
      BY <3>1
    <3>5. IsFiniteSet(Image(s)) /\ r[c] \in Image(s)
      <4>1. Image(s) \in SUBSET T /\ r[c] \in Image(s)
        BY <3>1
      <4> QED
        BY <4>1, FS_Subset
    <3>6. \A z \in Image(s) : g[z] \in Int
      OBVIOUS
    <3>7. Sum(g, Image(s)) = g[r[c]] + Sum(g, Image(s) \ {r[c]})
      <4> HIDE DEF Image
      <4> QED
        BY <3>5, <3>6, SumRemove
    <3>8. Sum(f, s \ {c}) = Sum(g, Image(s) \ {r[c]})
      BY <3>2, <3>4
    <3> QED
      BY <3>1, <3>3, <3>7, <3>8
  <2> QED
    BY <2>1, <2>2
<1>2. \A s \in SUBSET S : s \in P
  <2> HIDE DEF P
  <2> QED
    BY <1>1, SubsetInduct
<1>3. Image(S) = T
  OBVIOUS
<1>4. S \in P
  BY <1>2
<1> QED
  BY <1>3, <1>4

(* Fewer terms make no larger sum.                                         *)
LEMMA SumOfFewer ==
  ASSUME NEW S, IsFiniteSet(S), NEW T, NEW f, \A x \in S : f[x] \in Nat
  PROVE  Sum(f, S \cap T) <= Sum(f, S)
<1> DEFINE P == {s \in SUBSET S : Sum(f, s \cap T) <= Sum(f, s)}
<1>0. \A s \in SUBSET S : IsFiniteSet(s) /\ Sum(f, s) \in Nat
  BY FS_Subset, SumNat
<1>1. ASSUME NEW s \in SUBSET S,
             \A t \in SUBSET S : Cardinality(t) < Cardinality(s) => t \in P
      PROVE  s \in P
  <2>1. CASE s = {}
    <3>1. s \cap T = s
      BY <2>1
    <3> QED
      BY <3>1, <1>0
  <2>2. CASE s # {}
    <3>1. PICK c \in s : TRUE
      BY <2>2
    <3>2. s \ {c} \in P
      BY <1>1, Removed
    <3>3. Sum(f, s) = f[c] + Sum(f, s \ {c})
      BY <1>0, SumRemove
    <3>4. Sum(f, s) \in Nat /\ Sum(f, s \ {c}) \in Nat /\ f[c] \in Nat
          /\ Sum(f, (s \ {c}) \cap T) \in Nat
      BY <1>0
    <3>5. Sum(f, (s \ {c}) \cap T) <= Sum(f, s \ {c})
      BY <3>2
    <3>6. CASE c \in T
      <4>1. (s \cap T) \ {c} = (s \ {c}) \cap T /\ s \cap T \in SUBSET S /\ c \in s \cap T
        BY <3>6
      <4>2. Sum(f, s \cap T) = f[c] + Sum(f, (s \cap T) \ {c})
        BY <1>0, <4>1, SumRemove
      <4>3. Sum(f, s \cap T) = f[c] + Sum(f, (s \ {c}) \cap T)
        BY <4>1, <4>2
      <4>4. Sum(f, s \cap T) <= Sum(f, s)
        BY <3>3, <3>4, <3>5, <4>3
      <4> QED
        BY <4>4
    <3>7. CASE c \notin T
      <4>1. s \cap T = (s \ {c}) \cap T
        BY <3>7
      <4>2. Sum(f, s \cap T) = Sum(f, (s \ {c}) \cap T)
        BY <4>1
      <4>3. Sum(f, s \cap T) <= Sum(f, s)
        BY <3>3, <3>4, <3>5, <4>2
      <4> QED
        BY <4>3
    <3> QED
      BY <3>6, <3>7
  <2> QED
    BY <2>1, <2>2
<1> HIDE DEF P
<1>2. \A s \in SUBSET S : s \in P
  BY <1>1, SubsetInduct
<1> QED
  BY <1>2 DEF P

(* A sum from 0 on, its last term first.                                   *)
LEMMA SumLast ==
  ASSUME NEW n \in Nat, NEW f, \A i \in 0 .. n : f[i] \in Int
  PROVE  Sum(f, 0 .. n) = f[n] + Sum(f, 0 .. n - 1)
<1> DEFINE S == 0 .. n
<1>1. IsFiniteSet(S) /\ n \in S
  BY FS_Interval
<1>2. S \ {n} = 0 .. n - 1
  OBVIOUS
<1>3. \A i \in S : f[i] \in Int
  OBVIOUS
<1> HIDE DEF S
<1>4. Sum(f, S) = f[n] + Sum(f, S \ {n})
  BY <1>1, <1>3, SumRemove
<1> QED
  BY <1>2, <1>4 DEF S

(* A function defined by recursion along 0 .. N exists.                    *)
StepFunctions(N, X)   == [(0 .. N - 1) \X X -> X]
Runs(N, X, v, step) == {F \in [0 .. N -> X] :
                          F[0] = v /\ \A n \in 1 .. N : F[n] = step[<<n - 1, F[n - 1]>>]}

LEMMA RecursionExists ==
  ASSUME NEW N \in Nat, NEW X, NEW v \in X, NEW step \in StepFunctions(N, X)
  PROVE  Runs(N, X, v, step) # {}
<1> USE DEF StepFunctions, Runs
<1> DEFINE Along(m, g) == /\ g \in [0 .. m -> X]
                          /\ g[0] = v /\ \A n \in 1 .. m : g[n] = step[<<n - 1, g[n - 1]>>]
           A == {m \in Nat : m <= N => \E g : Along(m, g)}
<1>1. 0 \in A
  <2>1. Along(0, [n \in 0 .. 0 |-> v])
    OBVIOUS
  <2> QED
    BY <2>1
<1>2. ASSUME NEW m \in A PROVE m + 1 \in A
  <2>1. m \in Nat /\ m + 1 \in Nat
    OBVIOUS
  <2>2. ASSUME m + 1 <= N PROVE \E g : Along(m + 1, g)
    <3>1. m <= N
      BY <2>1, <2>2
    <3>2. PICK g : Along(m, g)
      BY <3>1
    <3> DEFINE h == [n \in 0 .. m + 1 |-> IF n = m + 1 THEN step[<<m, g[m]>>] ELSE g[n]]
    <3>3. <<m, g[m]>> \in (0 .. N - 1) \X X
      BY <2>1, <2>2, <3>2
    <3>4. step[<<m, g[m]>>] \in X
      BY <3>3
    <3>5. \A n \in 0 .. m : h[n] = g[n] /\ n \in 0 .. m + 1
      BY <2>1
    <3>6. h[m + 1] = step[<<m, g[m]>>]
      BY <2>1
    <3>7. h \in [0 .. m + 1 -> X]
      BY <2>1, <3>2, <3>4
    <3> HIDE DEF h
    <3>8. h[0] = v
      BY <2>1, <3>2, <3>5
    <3>9. ASSUME NEW n \in 1 .. m + 1 PROVE h[n] = step[<<n - 1, h[n - 1]>>]
      <4>1. CASE n = m + 1
        <5>1. n - 1 = m /\ m \in 0 .. m
          BY <2>1, <4>1
        <5> QED
          BY <3>5, <3>6, <4>1, <5>1
      <4>2. CASE n # m + 1
        <5>1. n \in 1 .. m /\ n \in 0 .. m /\ n - 1 \in 0 .. m
          BY <2>1, <4>2
        <5> QED
          BY <3>2, <3>5, <5>1
      <4> QED
        BY <4>1, <4>2
    <3>10. Along(m + 1, h)
      BY <3>7, <3>8, <3>9
    <3> QED
      BY <3>10
  <2> HIDE DEF Along
  <2> QED
    BY <2>1, <2>2
<1>3. N \in A
  <2>1. A \subseteq Nat
    OBVIOUS
  <2> HIDE DEF A
  <2> QED
    BY <1>1, <1>2, <2>1, Induct
<1> QED
  BY <1>3

-----------------------------------------------------------------------------
(* Slots and items.                                                         *)

LEMMA LargerOfTwo == \A a, b \in Int : Max({a, b}) = IF a >= b THEN a ELSE b
<1> TAKE a, b \in Int
<1>1. Max({a, b}) = CHOOSE x \in {a, b} : \A y \in {a, b} : x >= y
  BY DEF Max
<1>2. CASE a >= b
  BY <1>1, <1>2
<1>3. CASE ~ (a >= b)
  BY <1>1, <1>3
<1> QED
  BY <1>2, <1>3

LEMMA SmallerOfTwo == \A a, b \in Int : Min({a, b}) = IF a =< b THEN a ELSE b
<1> TAKE a, b \in Int
<1>1. Min({a, b}) = CHOOSE x \in {a, b} : \A y \in {a, b} : x =< y
  BY DEF Min
<1>2. CASE a =< b
  BY <1>1, <1>2
<1>3. CASE ~ (a =< b)
  BY <1>1, <1>3
<1> QED
  BY <1>2, <1>3

LEMMA SlotFacts ==
  /\ BagSize \in Nat /\ BagSize <= 100
  /\ Bag = 0 .. BagSize - 1 /\ Slots = Bag \cup {Weapon, Armor}
  /\ Weapon = 100 /\ Armor = 101 /\ Weapon \notin Bag /\ Armor \notin Bag /\ Weapon # Armor
  /\ IsFiniteSet(Bag) /\ IsFiniteSet(Slots)
<1>1. BagSize \in Nat /\ BagSize <= 100
  BY InventoryAssumption DEF Weapon
<1>2. IsFiniteSet(Bag)
  BY <1>1, FS_Interval DEF Bag
<1>3. IsFiniteSet({Weapon, Armor})
  <2>1. {Weapon, Armor} = {Weapon} \cup {Armor}
    OBVIOUS
  <2>2. IsFiniteSet({Weapon}) /\ IsFiniteSet({Armor})
    BY FS_Singleton
  <2>3. IsFiniteSet({Weapon} \cup {Armor})
    BY <2>2, FS_Union
  <2> QED
    BY <2>1, <2>3
<1>4. IsFiniteSet(Slots)
  BY <1>2, <1>3, FS_Union DEF Slots
<1> QED
  BY <1>1, <1>2, <1>4 DEF Bag, Slots, Weapon, Armor

LEMMA ItemFacts ==
  \A i \in Item : /\ i.quantity \in Nat /\ i = [kind |-> i.kind, quantity |-> i.quantity]
                  /\ i.quantity = 0 => i = NoItem
                  /\ i.quantity # 0 => i.kind \in Kinds
  BY DEF Item, NoItem

LEMMA MadeItem ==
  \A k \in Kinds, q \in Nat \ {0} : /\ [kind |-> k, quantity |-> q] \in Item
                                    /\ [kind |-> k, quantity |-> q].kind = k
                                    /\ [kind |-> k, quantity |-> q].quantity = q
  BY DEF Item

LEMMA NoItemFacts == NoItem \in Item /\ NoItem.kind = None /\ NoItem.quantity = 0 /\ None \notin Kinds
  BY InventoryAssumption DEF Item, NoItem

LEMMA OfKindType == \A i \in Item : \A k : OfKind(i, k) \in Nat
  BY ItemFacts DEF OfKind

Inventories == [Slots -> Item]
Valid(v)    == v \in Inventories /\ WithinLimits(v)

LEMMA AmountIsSum ==
  ASSUME NEW v \in Inventories, NEW k
  PROVE  /\ Amount(v, k) = Sum([s \in Slots |-> OfKind(v[s], k)], Slots)
         /\ Amount(v, k) \in Nat
<1> DEFINE f == [s \in Slots |-> OfKind(v[s], k)]
<1>1. Amount(v, k) = Sum(f, Slots)
  BY SumOfFunction DEF Amount
<1>2. \A s \in Slots : f[s] \in Nat
  BY OfKindType DEF Inventories
<1> HIDE DEF f
<1>3. Sum(f, Slots) \in Nat
  BY <1>2, SlotFacts, SumNat
<1> QED
  BY <1>1, <1>3 DEF f

(* One slot changes.                                                       *)
LEMMA AmountOneSlot ==
  ASSUME NEW v \in Inventories, NEW w \in Inventories, NEW x \in Slots,
         \A s \in Slots \ {x} : w[s] = v[s], NEW k
  PROVE  Amount(w, k) = Amount(v, k) - OfKind(v[x], k) + OfKind(w[x], k)
<1>0. PICK f, g : f = [s \in Slots |-> OfKind(v[s], k)] /\ g = [s \in Slots |-> OfKind(w[s], k)]
  OBVIOUS
<1>1. Amount(v, k) = Sum(f, Slots) /\ Amount(w, k) = Sum(g, Slots)
  BY <1>0, AmountIsSum
<1>2. \A s \in Slots : f[s] \in Int /\ g[s] \in Int
  BY <1>0, OfKindType DEF Inventories
<1>3. \A s \in Slots \ {x} : g[s] = f[s]
  BY <1>0
<1>4. f[x] = OfKind(v[x], k) /\ g[x] = OfKind(w[x], k)
  BY <1>0
<1>6. IsFiniteSet(Slots)
  BY SlotFacts
<1>5. Sum(g, Slots) = Sum(f, Slots) - f[x] + g[x]
  BY <1>2, <1>3, <1>6, SumOneChange
<1> QED
  BY <1>1, <1>4, <1>5

(* Two slots change.                                                       *)
SameBut(v, w, x, y) == \A s \in Slots : s # x /\ s # y => w[s] = v[s]

LEMMA AmountTwoSlots ==
  ASSUME NEW v \in Inventories, NEW w \in Inventories, NEW x \in Slots, NEW y \in Slots, x # y,
         SameBut(v, w, x, y), NEW k
  PROVE  Amount(w, k) = Amount(v, k) - OfKind(v[x], k) - OfKind(v[y], k)
                        + OfKind(w[x], k) + OfKind(w[y], k)
<1>0. PICK u : u = [v EXCEPT ![x] = w[x]]
  OBVIOUS
<1>1. u \in Inventories /\ u[x] = w[x] /\ \A s \in Slots \ {x} : u[s] = v[s]
  BY <1>0 DEF Inventories
<1>2. \A s \in Slots \ {y} : w[s] = u[s]
  BY <1>1 DEF SameBut
<1>3. Amount(u, k) = Amount(v, k) - OfKind(v[x], k) + OfKind(u[x], k)
  BY <1>1, AmountOneSlot
<1>4. Amount(w, k) = Amount(u, k) - OfKind(u[y], k) + OfKind(w[y], k)
  BY <1>1, <1>2, AmountOneSlot
<1>5. Amount(v, k) \in Nat
  BY AmountIsSum
<1>6. \A s \in Slots : OfKind(v[s], k) \in Nat /\ OfKind(w[s], k) \in Nat
  BY OfKindType DEF Inventories
<1>7. u[y] = v[y]
  BY <1>1
<1> QED
  BY <1>1, <1>3, <1>4, <1>5, <1>6, <1>7

-----------------------------------------------------------------------------
(* RemoveAt takes what it is asked for out of one slot.                     *)
LEMMA RemoveTakes ==
  ASSUME NEW v, Valid(v), NEW s \in Slots, NEW q \in Nat, CanRemove(v, s, q)
  PROVE  LET w == Remove(v, s, q)
         IN  /\ Valid(w)
             /\ \A t \in Slots \ {s} : w[t] = v[t]
             /\ w[s].quantity = v[s].quantity - q
             /\ w[s].quantity > 0 => w[s].kind = v[s].kind
             /\ \A k \in Kinds : Amount(w, k) = Amount(v, k) - (IF v[s].kind = k THEN q ELSE 0)
<1> DEFINE w == Remove(v, s, q)
<1>1. v \in Inventories /\ v[s] \in Item /\ q > 0 /\ q <= v[s].quantity
  BY DEF Valid, CanRemove, Inventories
<1>2. v[s].quantity \in Nat /\ v[s].kind \in Kinds /\ v[s] = [kind |-> v[s].kind, quantity |-> v[s].quantity]
  BY <1>1, ItemFacts
<1>3. w[s] = IF v[s].quantity = q THEN NoItem ELSE [kind |-> v[s].kind, quantity |-> v[s].quantity - q]
  BY <1>1 DEF Remove, Inventories
<1>4. \A t \in Slots \ {s} : w[t] = v[t]
  BY <1>1 DEF Remove, Inventories
<1>5. w[s] \in Item /\ w[s].quantity = v[s].quantity - q /\ (w[s].quantity > 0 => w[s].kind = v[s].kind)
  <2>1. CASE v[s].quantity = q
    BY <1>1, <1>2, <1>3, <2>1, NoItemFacts
  <2>2. CASE v[s].quantity # q
    <3>1. v[s].quantity - q \in Nat \ {0}
      BY <1>1, <1>2, <2>2
    <3> QED
      BY <1>2, <1>3, <2>2, <3>1, MadeItem
  <2> QED
    BY <2>1, <2>2
<1>6. w \in Inventories
  <2>1. DOMAIN w = Slots /\ w = [t \in Slots |-> w[t]]
    BY <1>1 DEF Remove, Inventories
  <2>2. \A t \in Slots : w[t] \in Item
    BY <1>1, <1>4, <1>5 DEF Inventories
  <2> HIDE DEF w
  <2> QED
    BY <2>1, <2>2 DEF Inventories
<1> HIDE DEF w
<1>7. WithinLimits(w)
  <2>1. \A t \in Slots : w[t].quantity \in Nat
    BY <1>6, ItemFacts DEF Inventories
  <2>2. \A t \in Slots : w[t].quantity # 0 =>
           v[t].quantity # 0 /\ w[t].kind = v[t].kind /\ w[t].quantity <= v[t].quantity
    BY <1>1, <1>2, <1>4, <1>5, <2>1 
  <2>3. WithinLimits(v)
    BY DEF Valid
  <2>4. \A t \in Slots : w[t].quantity # 0 => w[t].quantity <= StackMax[w[t].kind]
    <3> TAKE t \in Slots
    <3> HAVE w[t].quantity # 0
    <3>1. v[t].quantity <= StackMax[v[t].kind] /\ w[t].kind = v[t].kind /\ w[t].quantity <= v[t].quantity
      BY <2>2, <2>3 DEF WithinLimits, IsEmpty
    <3>2. v[t] \in Item
      BY <1>1 DEF Inventories
    <3>3. v[t].kind \in Kinds /\ v[t].quantity \in Nat
      BY <2>2, <3>2, ItemFacts
    <3>4. StackMax[v[t].kind] \in Nat
      BY <3>3, InventoryAssumption
    <3> QED
      BY <2>1, <3>1, <3>3, <3>4
  <2> QED
    BY <2>2, <2>3, <2>4, SlotFacts DEF WithinLimits, IsEmpty
<1>8. ASSUME NEW k \in Kinds PROVE Amount(w, k) = Amount(v, k) - (IF v[s].kind = k THEN q ELSE 0)
  <2>1. Amount(w, k) = Amount(v, k) - OfKind(v[s], k) + OfKind(w[s], k)
    BY <1>1, <1>4, <1>6, AmountOneSlot
  <2>2. Amount(v, k) \in Nat
    BY <1>1, AmountIsSum
  <2>3. CASE w[s].quantity = 0
    <3>1. OfKind(w[s], k) = 0 /\ v[s].quantity = q
      BY <1>1, <1>2, <1>5, <2>3 DEF OfKind
    <3> QED
      BY <2>1, <2>2, <3>1 DEF OfKind
  <2>4. CASE w[s].quantity # 0
    <3>1. w[s].kind = v[s].kind
      BY <1>1, <1>2, <1>5, <2>4
    <3> QED
      BY <1>2, <1>5, <2>1, <2>2, <3>1 DEF OfKind
  <2> QED
    BY <2>3, <2>4
<1> QED
  BY <1>4, <1>5, <1>6, <1>7, <1>8 DEF Valid, w

-----------------------------------------------------------------------------
(* Add pours exactly what fits into the stacks: summed up to any slot, that *)
(* is the smaller of what is asked for and what the stacks spare.           *)

LEMMA SpareType ==
  ASSUME NEW v \in Inventories, NEW k \in Kinds, NEW s \in Slots
  PROVE  Spare(v, k, s) \in Nat
<1>1. v[s].quantity \in Nat /\ StackMax[k] \in Nat
  BY ItemFacts, InventoryAssumption DEF Inventories
<1> QED
  BY <1>1 DEF Spare

LEMMA SpareBelowSteps ==
  ASSUME NEW v \in Inventories, NEW k \in Kinds
  PROVE  /\ SpareBelow(v, k, 0) = 0
         /\ \A n \in 0 .. BagSize : SpareBelow(v, k, n) \in Nat
         /\ \A n \in Bag : SpareBelow(v, k, n + 1) = SpareBelow(v, k, n) + Spare(v, k, n)
<1>1. PICK sp : sp = [s \in Bag |-> Spare(v, k, s)]
  OBVIOUS
<1>2. \A s \in Bag : sp[s] = Spare(v, k, s) /\ sp[s] \in Nat
  BY <1>1, SpareType, SlotFacts
<1>3. ASSUME NEW n \in 0 .. BagSize
      PROVE  SpareBelow(v, k, n) = Sum(sp, 0 .. n - 1) /\ IsFiniteSet(0 .. n - 1)
             /\ \A s \in 0 .. n - 1 : s \in Bag
  <2>1. \A s \in 0 .. n - 1 : s \in Bag
    BY SlotFacts
  <2>2. PICK f : f = [s \in 0 .. n - 1 |-> Spare(v, k, s)]
    OBVIOUS
  <2>3. SpareBelow(v, k, n) = Sum(f, 0 .. n - 1)
    BY <2>2, SumOfFunction DEF SpareBelow
  <2>4. IsFiniteSet(0 .. n - 1)
    BY SlotFacts, FS_Interval
  <2>5. \A s \in 0 .. n - 1 : f[s] = sp[s]
    BY <1>2, <2>1, <2>2
  <2>6. Sum(f, 0 .. n - 1) = Sum(sp, 0 .. n - 1)
    BY <2>4, <2>5, SumSame
  <2> QED
    BY <2>1, <2>3, <2>4, <2>6
<1>4. 0 \in 0 .. BagSize /\ 0 .. (0 - 1) = {}
  BY SlotFacts
<1>5. SpareBelow(v, k, 0) = 0
  BY <1>3, <1>4, SumEmpty
<1>6. ASSUME NEW n \in 0 .. BagSize PROVE SpareBelow(v, k, n) \in Nat
  <2>1. PICK S : S = 0 .. n - 1
    OBVIOUS
  <2>2. Sum(sp, S) \in Nat
    BY <1>2, <1>3, <2>1, SumNat
  <2> QED
    BY <1>3, <2>1, <2>2
<1>7. ASSUME NEW n \in Bag
      PROVE  SpareBelow(v, k, n + 1) = SpareBelow(v, k, n) + Spare(v, k, n)
  <2>1. n \in Nat /\ n \in 0 .. BagSize /\ n + 1 \in 0 .. BagSize /\ (n + 1) - 1 = n
    BY SlotFacts
  <2>2. \A i \in 0 .. n : sp[i] \in Int
    BY <1>2, <1>3, <2>1
  <2>3. Sum(sp, 0 .. n) = sp[n] + Sum(sp, 0 .. n - 1)
    BY <2>1, <2>2, SumLast
  <2>4. SpareBelow(v, k, n + 1) = Sum(sp, 0 .. n)
    BY <1>3, <2>1
  <2>5. SpareBelow(v, k, n) = Sum(sp, 0 .. n - 1) /\ SpareBelow(v, k, n) \in Nat
    BY <1>3, <1>6, <2>1
  <2> QED
    BY <1>2, <2>3, <2>4, <2>5
<1> QED
  BY <1>5, <1>6, <1>7

LEMMA PouredIs ==
  ASSUME NEW v \in Inventories, NEW k \in Kinds, NEW q \in Nat, NEW s \in Bag
  PROVE  /\ Poured(v, k, q, s) \in Nat /\ Poured(v, k, q, s) <= Spare(v, k, s)
         /\ LET left == IF SpareBelow(v, k, s) < q THEN q - SpareBelow(v, k, s) ELSE 0
            IN  Poured(v, k, q, s) = IF Spare(v, k, s) <= left THEN Spare(v, k, s) ELSE left
<1>1. SpareBelow(v, k, s) \in Nat /\ Spare(v, k, s) \in Nat
  BY SpareBelowSteps, SpareType, SlotFacts
<1>2. Max({0, q - SpareBelow(v, k, s)})
        = IF SpareBelow(v, k, s) < q THEN q - SpareBelow(v, k, s) ELSE 0
  BY <1>1, LargerOfTwo
<1>3. Max({0, q - SpareBelow(v, k, s)}) \in Nat
  BY <1>1, <1>2
<1>4. PICK left \in Nat : left = Max({0, q - SpareBelow(v, k, s)})
  BY <1>3
<1>5. Poured(v, k, q, s) = IF Spare(v, k, s) <= left THEN Spare(v, k, s) ELSE left
  BY <1>1, <1>4, SmallerOfTwo DEF Poured
<1> QED
  BY <1>1, <1>2, <1>4, <1>5

LEMMA PouredSum ==
  ASSUME NEW v \in Inventories, NEW k \in Kinds, NEW q \in Nat,
         NEW d, \A s \in Bag : d[s] = Poured(v, k, q, s)
  PROVE  Sum(d, Bag) = IF SpareBelow(v, k, BagSize) <= q THEN SpareBelow(v, k, BagSize) ELSE q
<1> DEFINE Below(n) == SpareBelow(v, k, n)
           A == {n \in Nat : n <= BagSize =>
                   Sum(d, 0 .. n - 1) = IF Below(n) <= q THEN Below(n) ELSE q}
<1>1. 0 \in A
  <2>1. 0 .. (0 - 1) = {} /\ Below(0) = 0
    BY SpareBelowSteps
  <2> QED
    BY <2>1, SumEmpty
<1>2. ASSUME NEW n \in A PROVE n + 1 \in A
  <2>1. n \in Nat /\ n + 1 \in Nat /\ (n + 1) - 1 = n
    OBVIOUS
  <2>2. ASSUME n + 1 <= BagSize
        PROVE  Sum(d, 0 .. (n + 1) - 1) = IF Below(n + 1) <= q THEN Below(n + 1) ELSE q
    <3>1. n \in Bag /\ n \in 0 .. BagSize /\ n + 1 \in 0 .. BagSize /\ \A i \in 0 .. n : i \in Bag
      BY <2>1, <2>2, SlotFacts
    <3>2. \A i \in 0 .. n : d[i] \in Int
      <4> TAKE i \in 0 .. n
      <4>1. i \in Bag
        BY <3>1
      <4>2. Poured(v, k, q, i) \in Nat
        BY <4>1, PouredIs
      <4> QED
        BY <4>1, <4>2
    <3>3. Sum(d, 0 .. n) = d[n] + Sum(d, 0 .. n - 1)
      BY <2>1, <3>2, SumLast
    <3>4. Sum(d, 0 .. n - 1) = IF Below(n) <= q THEN Below(n) ELSE q
      BY <2>1, <2>2, SlotFacts
    <3>5. Below(n + 1) = Below(n) + Spare(v, k, n) /\ Below(n) \in Nat /\ Spare(v, k, n) \in Nat
      BY <3>1, SpareBelowSteps, SpareType, SlotFacts
    <3>6. d[n] = IF Spare(v, k, n) <= (IF Below(n) < q THEN q - Below(n) ELSE 0)
                   THEN Spare(v, k, n) ELSE (IF Below(n) < q THEN q - Below(n) ELSE 0)
      BY <3>1, PouredIs
    <3> HIDE DEF Below, A
    <3>7. d[n] + Sum(d, 0 .. n - 1) = IF Below(n + 1) <= q THEN Below(n + 1) ELSE q
      BY <3>4, <3>5, <3>6
    <3> QED
      BY <2>1, <3>3, <3>7
  <2> HIDE DEF Below
  <2> QED
    BY <2>1, <2>2
<1>3. BagSize \in A
  <2>1. A \subseteq Nat
    OBVIOUS
  <2> HIDE DEF A
  <2> QED
    BY <1>1, <1>2, <2>1, Induct, SlotFacts
<1> QED
  BY <1>3, SlotFacts

LEMMA RestIs ==
  ASSUME NEW v \in Inventories, NEW k \in Kinds, NEW q \in Nat
  PROVE  /\ Rest(v, k, q) \in Nat
         /\ Rest(v, k, q) = IF SpareBelow(v, k, BagSize) <= q THEN q - SpareBelow(v, k, BagSize) ELSE 0
<1>1. SpareBelow(v, k, BagSize) \in Nat
  BY SpareBelowSteps, SlotFacts
<1>2. Rest(v, k, q) = IF 0 >= q - SpareBelow(v, k, BagSize) THEN 0 ELSE q - SpareBelow(v, k, BagSize)
  BY <1>1, LargerOfTwo DEF Rest
<1> QED
  BY <1>1, <1>2

LEMMA FirstEmpty ==
  ASSUME NEW v \in Inventories, EmptyBag(v) # {}
  PROVE  /\ Min(EmptyBag(v)) \in Bag /\ Min(EmptyBag(v)) \in Slots /\ v[Min(EmptyBag(v))] = NoItem
<1>1. EmptyBag(v) \subseteq Nat
  BY SlotFacts DEF EmptyBag
<1>2. Min(EmptyBag(v)) \in EmptyBag(v)
  BY <1>1, MinIsMember
<1>3. Min(EmptyBag(v)) \in Bag /\ v[Min(EmptyBag(v))].quantity = 0
  BY <1>2 DEF EmptyBag, IsEmpty
<1> QED
  BY <1>3, SlotFacts, ItemFacts DEF Inventories

(* What an addition makes of each slot.                                    *)
LEMMA AddSlots ==
  ASSUME NEW v \in Inventories, NEW k \in Kinds, NEW q \in Nat, CanAdd(v, k, q)
  PROVE  LET w == Add(v, k, q)
             e == Min(EmptyBag(v))
         IN  /\ w \in Inventories
             /\ \A s \in Bag : Holds(v, s, k) =>
                  /\ w[s].kind = k /\ w[s].quantity = v[s].quantity + Poured(v, k, q, s)
             /\ Rest(v, k, q) > 0 => /\ e \in Bag /\ v[e] = NoItem
                                     /\ w[e].kind = k /\ w[e].quantity = Rest(v, k, q)
             /\ \A s \in Slots : ~ (s \in Bag /\ Holds(v, s, k)) /\ ~ (Rest(v, k, q) > 0 /\ s = e)
                                   => w[s] = v[s]
<1> DEFINE w == Add(v, k, q)
           e == Min(EmptyBag(v))
<1>1. Rest(v, k, q) \in Nat
  BY RestIs
<1>2. Rest(v, k, q) > 0 => e \in Bag /\ e \in Slots /\ v[e] = NoItem
  BY <1>1, FirstEmpty DEF CanAdd
<1>3. \A s \in Slots : w[s] = IF s \in Bag /\ Holds(v, s, k)
                                THEN [kind |-> k, quantity |-> v[s].quantity + Poured(v, k, q, s)]
                              ELSE IF Rest(v, k, q) > 0 /\ s = e
                                THEN [kind |-> k, quantity |-> Rest(v, k, q)]
                              ELSE v[s]
  BY DEF Add
<1>4. w = [s \in Slots |-> w[s]]
  BY DEF Add
<1> HIDE DEF w, e
<1>5. ASSUME NEW s \in Bag, Holds(v, s, k)
      PROVE  /\ w[s] \in Item
             /\ w[s].kind = k /\ w[s].quantity = v[s].quantity + Poured(v, k, q, s)
  <2>1. s \in Slots /\ v[s] \in Item
    BY SlotFacts DEF Inventories
  <2>2. v[s].quantity \in Nat /\ v[s].quantity # 0
    BY <1>5, <2>1, ItemFacts DEF Holds, IsEmpty
  <2>3. v[s].quantity + Poured(v, k, q, s) \in Nat \ {0}
    BY <2>2, PouredIs
  <2>4. w[s] = [kind |-> k, quantity |-> v[s].quantity + Poured(v, k, q, s)]
    BY <1>3, <1>5, <2>1
  <2> QED
    BY <2>3, <2>4, MadeItem
<1>6. ~ Holds(v, e, k) \/ ~ Rest(v, k, q) > 0
  BY <1>2, NoItemFacts DEF Holds
<1>7. ASSUME Rest(v, k, q) > 0
      PROVE  w[e] \in Item /\ w[e].kind = k /\ w[e].quantity = Rest(v, k, q)
  <2>1. w[e] = [kind |-> k, quantity |-> Rest(v, k, q)]
    BY <1>2, <1>3, <1>6, <1>7
  <2>2. Rest(v, k, q) \in Nat \ {0}
    BY <1>1, <1>7
  <2> QED
    BY <2>1, <2>2, MadeItem
<1>8. \A s \in Slots : ~ (s \in Bag /\ Holds(v, s, k)) /\ ~ (Rest(v, k, q) > 0 /\ s = e) => w[s] = v[s]
  BY <1>3
<1>9. w \in Inventories
  <2>1. \A s \in Slots : w[s] \in Item
    BY <1>5, <1>7, <1>8 DEF Inventories
  <2> QED
    BY <1>4, <2>1 DEF Inventories
<1> QED
  BY <1>2, <1>5, <1>7, <1>8, <1>9 DEF w, e

LEMMA AddValid ==
  ASSUME NEW v, Valid(v), NEW k \in Kinds, NEW q \in Nat, CanAdd(v, k, q)
  PROVE  Valid(Add(v, k, q))
<1> DEFINE w == Add(v, k, q)
           e == Min(EmptyBag(v))
<1>0. v \in Inventories /\ WithinLimits(v)
  BY DEF Valid
<1>1. /\ w \in Inventories
      /\ \A s \in Bag : Holds(v, s, k) =>
           /\ w[s].kind = k /\ w[s].quantity = v[s].quantity + Poured(v, k, q, s)
      /\ Rest(v, k, q) > 0 => /\ e \in Bag /\ v[e] = NoItem
                              /\ w[e].kind = k /\ w[e].quantity = Rest(v, k, q)
      /\ \A s \in Slots : ~ (s \in Bag /\ Holds(v, s, k)) /\ ~ (Rest(v, k, q) > 0 /\ s = e)
                            => w[s] = v[s]
  BY <1>0, AddSlots
<1> HIDE DEF w, e
<1>2. StackMax[k] \in Nat
  BY InventoryAssumption
<1>3. ASSUME NEW s \in Bag, Holds(v, s, k) PROVE w[s].quantity <= StackMax[w[s].kind]
  <2>1. s \in Slots /\ v[s].quantity \in Nat /\ ~ IsEmpty(v, s) /\ v[s].kind = k
    BY <1>0, <1>3, SlotFacts, ItemFacts DEF Inventories, Holds
  <2>2. v[s].quantity <= StackMax[k]
    BY <1>0, <2>1 DEF WithinLimits
  <2>3. Poured(v, k, q, s) \in Nat /\ Poured(v, k, q, s) <= Spare(v, k, s)
    BY <1>0, PouredIs
  <2>4. Spare(v, k, s) = StackMax[k] - v[s].quantity
    BY <1>2, <1>3, <2>1, <2>2 DEF Spare
  <2> QED
    BY <1>1, <1>2, <1>3, <2>1, <2>2, <2>3, <2>4
<1>4. ASSUME Rest(v, k, q) > 0 PROVE w[e].quantity <= StackMax[w[e].kind]
  <2>1. Rest(v, k, q) <= StackMax[k] /\ Rest(v, k, q) \in Nat
    BY <1>0, <1>4, RestIs DEF CanAdd
  <2> QED
    BY <1>1, <1>4, <2>1
<1>5. ASSUME NEW s \in Slots, w[s].quantity # 0 PROVE w[s].quantity <= StackMax[w[s].kind]
  <2>1. CASE w[s] = v[s]
    BY <1>0, <1>5, <2>1 DEF WithinLimits, IsEmpty
  <2> QED
    BY <1>1, <1>3, <1>4, <2>1
<1>6. w[Weapon] = v[Weapon] /\ w[Armor] = v[Armor]
  BY <1>1, SlotFacts
<1> QED
  BY <1>0, <1>1, <1>5, <1>6 DEF Valid, WithinLimits, IsEmpty, w

LEMMA AddAmount ==
  ASSUME NEW v \in Inventories, NEW k \in Kinds, NEW q \in Nat, CanAdd(v, k, q), NEW j \in Kinds
  PROVE  Amount(Add(v, k, q), j) = Amount(v, j) + (IF j = k THEN q ELSE 0)
<1> DEFINE w == Add(v, k, q)
           e == Min(EmptyBag(v))
           rest == Rest(v, k, q)
<1>1. /\ w \in Inventories
      /\ \A s \in Bag : Holds(v, s, k) =>
           /\ w[s].kind = k /\ w[s].quantity = v[s].quantity + Poured(v, k, q, s)
      /\ rest > 0 => /\ e \in Bag /\ v[e] = NoItem /\ w[e].kind = k /\ w[e].quantity = rest
      /\ \A s \in Slots : ~ (s \in Bag /\ Holds(v, s, k)) /\ ~ (rest > 0 /\ s = e) => w[s] = v[s]
  BY AddSlots
<1>2. rest \in Nat /\ rest = IF SpareBelow(v, k, BagSize) <= q THEN q - SpareBelow(v, k, BagSize) ELSE 0
  BY RestIs
<1> HIDE DEF w, e, rest
<1>3. PICK f : f = [s \in Slots |-> OfKind(v[s], j)]
  OBVIOUS
<1>4. PICK g : g = [s \in Slots |-> OfKind(w[s], j)]
  OBVIOUS
<1>5. Amount(v, j) = Sum(f, Slots) /\ Amount(w, j) = Sum(g, Slots)
  BY <1>1, <1>3, <1>4, AmountIsSum
<1>6. \A s \in Slots : f[s] = OfKind(v[s], j) /\ g[s] = OfKind(w[s], j) /\ f[s] \in Nat /\ g[s] \in Nat
  BY <1>1, <1>3, <1>4, OfKindType DEF Inventories
<1>7. CASE j # k
  <2>1. ASSUME NEW s \in Slots PROVE f[s] = g[s]
    <3>1. CASE s \in Bag /\ Holds(v, s, k)
      BY <1>1, <1>6, <1>7, <3>1 DEF OfKind, Holds
    <3>2. CASE rest > 0 /\ s = e
      <4>1. f[s] = 0
        BY <1>1, <1>6, <3>2, NoItemFacts DEF OfKind
      <4> QED
        BY <1>1, <1>6, <1>7, <3>2, <4>1 DEF OfKind
    <3> QED
      BY <1>1, <1>6, <3>1, <3>2
  <2>2. Sum(f, Slots) = Sum(g, Slots)
    BY <2>1, SlotFacts, SumSame
  <2>3. Amount(v, j) \in Nat
    BY AmountIsSum
  <2> QED
    BY <1>5, <1>7, <2>2, <2>3 DEF w
<1>8. CASE j = k
  <2>1. PICK d : d = [s \in Slots |-> IF s \in Bag THEN Poured(v, k, q, s) ELSE 0]
    OBVIOUS
  <2>2. PICK h : h = [s \in Slots |-> IF rest > 0 /\ s = e THEN rest ELSE 0]
    OBVIOUS
  <2>3. PICK fd : fd = [s \in Slots |-> f[s] + d[s]]
    OBVIOUS
  <2>4. \A s \in Slots : d[s] \in Nat /\ (s \notin Bag => d[s] = 0)
                         /\ (s \in Bag => d[s] = Poured(v, k, q, s))
    BY <2>1, PouredIs
  <2>5. \A s \in Slots : h[s] \in Nat /\ h[s] = IF rest > 0 /\ s = e THEN rest ELSE 0
    BY <1>2, <2>2
  <2>6. \A s \in Slots : fd[s] = f[s] + d[s] /\ fd[s] \in Nat
    BY <1>6, <2>3, <2>4
  <2>7. ASSUME NEW s \in Slots PROVE g[s] = fd[s] + h[s]
    <3>1. v[s] \in Item /\ v[s].quantity \in Nat
      BY ItemFacts DEF Inventories
    <3>2. CASE s \in Bag /\ Holds(v, s, k)
      <4>1. h[s] = 0
        BY <1>1, <2>5, <3>2, NoItemFacts DEF Holds
      <4>2. f[s] = v[s].quantity /\ g[s] = v[s].quantity + d[s]
        BY <1>1, <1>6, <1>8, <2>4, <3>2 DEF OfKind, Holds
      <4> QED
        BY <2>4, <2>6, <3>1, <4>1, <4>2
    <3>3. ASSUME ~ (s \in Bag /\ Holds(v, s, k)) PROVE d[s] = 0
      <4>1. CASE s \in Bag
        <5>1. Spare(v, k, s) = 0
          BY <3>3, <4>1 DEF Spare
        <5>2. Poured(v, k, q, s) \in Nat /\ Poured(v, k, q, s) <= Spare(v, k, s)
          BY <4>1, PouredIs
        <5> QED
          BY <2>4, <4>1, <5>1, <5>2
      <4>2. CASE s \notin Bag
        BY <2>4, <4>2
      <4> QED
        BY <4>1, <4>2
    <3>4. CASE rest > 0 /\ s = e
      <4>1. f[s] = 0 /\ ~ Holds(v, s, k)
        BY <1>1, <1>6, <3>4, NoItemFacts DEF OfKind, Holds, IsEmpty
      <4>2. g[s] = rest
        BY <1>1, <1>6, <1>8, <3>4 DEF OfKind
      <4> QED
        BY <1>2, <2>5, <2>6, <3>3, <3>4, <4>1, <4>2
    <3>5. CASE ~ (s \in Bag /\ Holds(v, s, k)) /\ ~ (rest > 0 /\ s = e)
      <4>1. g[s] = f[s] /\ h[s] = 0 /\ d[s] = 0
        BY <1>1, <1>6, <2>5, <3>3, <3>5
      <4> QED
        BY <1>6, <2>6, <4>1
    <3> QED
      BY <3>2, <3>4, <3>5
  <2>8. Sum(g, Slots) = Sum(fd, Slots) + Sum(h, Slots)
    BY SMTT(60), <2>5, <2>6, <2>7, SlotFacts, SumPlus
  <2>9. Sum(fd, Slots) = Sum(f, Slots) + Sum(d, Slots)
    <3>1. \A s \in Slots : f[s] \in Int /\ d[s] \in Int /\ fd[s] = f[s] + d[s]
      BY <1>6, <2>4, <2>6
    <3>2. IsFiniteSet(Slots)
      BY SlotFacts
    <3> QED
      BY <3>1, <3>2, SumPlus
  <2>10. Sum(d, Slots) = Sum(d, Bag)
    <3>1. IsFiniteSet(Slots) /\ IsFiniteSet(Slots \ {Weapon}) /\ Weapon \in Slots
          /\ Armor \in Slots \ {Weapon} /\ (Slots \ {Weapon}) \ {Armor} = Bag
      BY SlotFacts, FS_Subset
    <3>2. Sum(d, Slots) = d[Weapon] + Sum(d, Slots \ {Weapon})
      BY <2>4, <3>1, SumRemove
    <3>3. Sum(d, Slots \ {Weapon}) = d[Armor] + Sum(d, Bag)
      BY <2>4, <3>1, SumRemove
    <3>4. d[Weapon] = 0 /\ d[Armor] = 0
      BY <2>4, SlotFacts
    <3>5. Sum(d, Bag) \in Nat
      BY <2>4, SlotFacts, SumNat
    <3> QED
      BY <3>2, <3>3, <3>4, <3>5
  <2>11. Sum(d, Bag) = IF SpareBelow(v, k, BagSize) <= q THEN SpareBelow(v, k, BagSize) ELSE q
    BY <2>4, SlotFacts, PouredSum
  <2>12. Sum(h, Slots) = rest
    <3>1. CASE rest > 0
      <4>1. e \in Slots /\ IsFiniteSet(Slots) /\ IsFiniteSet(Slots \ {e})
        BY <1>1, <3>1, SlotFacts, FS_Subset
      <4>2. Sum(h, Slots) = h[e] + Sum(h, Slots \ {e})
        BY <2>5, <4>1, SumRemove
      <4>3. Sum(h, Slots \ {e}) = 0
        BY <2>5, <4>1, SumZero
      <4> QED
        BY <1>2, <2>5, <3>1, <4>1, <4>2, <4>3
    <3>2. CASE ~ rest > 0
      <4>1. Sum(h, Slots) = 0
        BY <2>5, <3>2, SlotFacts, SumZero
      <4> QED
        BY <1>2, <3>2, <4>1
    <3> QED
      BY <3>1, <3>2
  <2>13. SpareBelow(v, k, BagSize) \in Nat /\ Amount(v, j) \in Nat
    <3>1. BagSize \in 0 .. BagSize
      BY SlotFacts
    <3> QED
      BY <3>1, SpareBelowSteps, AmountIsSum
  <2> QED
    BY <1>2, <1>5, <1>8, <2>8, <2>9, <2>10, <2>11, <2>12, <2>13 DEF w
<1> QED
  BY <1>7, <1>8

-----------------------------------------------------------------------------
(* Move, Equip and Unequip only rearrange.                                  *)

Swapped(v, x, y) == [v EXCEPT ![x] = v[y], ![y] = v[x]]

LEMMA SwapKeeps ==
  ASSUME NEW v \in Inventories, NEW x \in Slots, NEW y \in Slots, x # y
  PROVE  LET w == Swapped(v, x, y)
         IN  /\ w \in Inventories /\ w[x] = v[y] /\ w[y] = v[x] /\ SameBut(v, w, x, y)
             /\ \A k : Amount(w, k) = Amount(v, k)
<1>0. PICK w : w = Swapped(v, x, y)
  OBVIOUS
<1>1. w \in Inventories /\ w[x] = v[y] /\ w[y] = v[x] /\ SameBut(v, w, x, y)
  BY <1>0 DEF Inventories, Swapped, SameBut
<1>2. ASSUME NEW k PROVE Amount(w, k) = Amount(v, k)
  <2>1. Amount(w, k) = Amount(v, k) - OfKind(v[x], k) - OfKind(v[y], k)
                       + OfKind(w[x], k) + OfKind(w[y], k)
    BY <1>1, AmountTwoSlots
  <2>2. Amount(v, k) \in Nat
    BY AmountIsSum
  <2>3. OfKind(v[x], k) \in Nat /\ OfKind(v[y], k) \in Nat
    BY OfKindType DEF Inventories
  <2>4. OfKind(w[x], k) = OfKind(v[y], k) /\ OfKind(w[y], k) = OfKind(v[x], k)
    BY <1>1
  <2> QED
    BY <2>1, <2>2, <2>3, <2>4
<1> QED
  BY <1>0, <1>1, <1>2

LEMMA SwapValid ==
  ASSUME NEW v, Valid(v), NEW x \in Slots, NEW y \in Slots, x # y,
         Swapped(v, x, y)[Weapon].quantity # 0 => Swapped(v, x, y)[Weapon].kind \in Weapons,
         Swapped(v, x, y)[Armor].quantity # 0 => Swapped(v, x, y)[Armor].kind \in Armors
  PROVE  Valid(Swapped(v, x, y))
<1>0. PICK w : w = Swapped(v, x, y)
  OBVIOUS
<1>1. v \in Inventories /\ WithinLimits(v)
  BY DEF Valid
<1>2. w \in Inventories /\ w[x] = v[y] /\ w[y] = v[x] /\ SameBut(v, w, x, y)
  BY <1>0, <1>1, SwapKeeps
<1>3. ASSUME NEW s \in Slots, w[s].quantity # 0 PROVE w[s].quantity <= StackMax[w[s].kind]
  <2>1. PICK t \in Slots : w[s] = v[t]
    BY <1>2 DEF SameBut
  <2> QED
    BY <1>1, <1>3, <2>1 DEF WithinLimits, IsEmpty
<1> QED
  BY <1>0, <1>2, <1>3 DEF Valid, WithinLimits, IsEmpty

LEMMA MoveRearranges ==
  ASSUME NEW v, Valid(v), NEW s, NEW t, CanMove(v, s, t)
  PROVE  Valid(Move(v, s, t)) /\ \A k \in Kinds : Amount(Move(v, s, t), k) = Amount(v, k)
<1>1. v \in Inventories /\ WithinLimits(v) /\ s \in Bag /\ t \in Bag /\ s # t
      /\ s \in Slots /\ t \in Slots /\ ~ IsEmpty(v, s)
  BY SlotFacts DEF Valid, CanMove
<1>2. v[s] \in Item /\ v[t] \in Item /\ v[s].quantity \in Nat \ {0} /\ v[t].quantity \in Nat
      /\ v[s].kind \in Kinds
  BY <1>1, ItemFacts DEF Inventories, IsEmpty
<1>3. CASE Holds(v, t, v[s].kind)
  <2> DEFINE j == v[s].kind
             pour == Min({v[s].quantity, Spare(v, j, t)})
             r == Remove(v, s, pour)
             w == Move(v, s, t)
  <2>1. v[t].kind = j /\ v[t].quantity # 0 /\ v[t].quantity < StackMax[j] /\ StackMax[j] \in Nat
        /\ j \in Kinds
    BY <1>1, <1>2, <1>3, InventoryAssumption DEF Holds, IsEmpty, CanMove
  <2>2. Spare(v, j, t) = StackMax[j] - v[t].quantity
    BY <1>3, <2>1 DEF Spare
  <2>3. pour \in Nat /\ pour > 0 /\ pour <= v[s].quantity /\ pour <= StackMax[j] - v[t].quantity
    BY <1>2, <2>1, <2>2, SmallerOfTwo
  <2>4. w = [r EXCEPT ![t].quantity = r[t].quantity + pour]
    BY <1>3 DEF Move
  <2> HIDE DEF pour, w
  <2>5. CanRemove(v, s, pour)
    BY <1>1, <1>2, <2>3 DEF CanRemove
  <2>6. /\ Valid(r)
        /\ \A x \in Slots \ {s} : r[x] = v[x]
        /\ \A k \in Kinds : Amount(r, k) = Amount(v, k) - (IF v[s].kind = k THEN pour ELSE 0)
    BY <1>1, <2>3, <2>5, RemoveTakes
  <2> HIDE DEF r
  <2>7. r[t] = v[t] /\ r \in Inventories /\ WithinLimits(r)
    BY <1>1, <2>6 DEF Valid
  <2>8. w[t] = [r[t] EXCEPT !.quantity = r[t].quantity + pour] /\ \A x \in Slots \ {t} : w[x] = r[x]
    BY <1>1, <2>4, <2>7 DEF Inventories
  <2>9. w[t].kind = j /\ w[t].quantity = v[t].quantity + pour /\ w[t] \in Item
    <3>1. v[t] \in [kind : Kinds, quantity : Nat \ {0}]
      BY <1>2, <2>1 DEF Item, NoItem
    <3>2. v[t].quantity + pour \in Nat \ {0}
      BY <2>1, <2>3, <1>2
    <3>3. w[t] = [kind |-> j, quantity |-> v[t].quantity + pour]
      BY <2>1, <2>7, <2>8, <3>1
    <3> QED
      BY <2>1, <3>2, <3>3, MadeItem
  <2>10. w \in Inventories
    BY <1>1, <2>4, <2>7, <2>8, <2>9 DEF Inventories
  <2>11. WithinLimits(w)
    <3>1. w[t].quantity <= StackMax[w[t].kind]
      BY <1>2, <2>1, <2>3, <2>9
    <3>2. t # Weapon /\ t # Armor
      BY <1>1, SlotFacts
    <3>3. w[Weapon] = r[Weapon] /\ w[Armor] = r[Armor]
      BY <2>8, <3>2, SlotFacts
    <3>4. ASSUME NEW x \in Slots, w[x].quantity # 0 PROVE w[x].quantity <= StackMax[w[x].kind]
      BY <2>7, <2>8, <3>1, <3>4 DEF WithinLimits, IsEmpty
    <3> HIDE DEF w
    <3> QED
      BY <2>7, <3>3, <3>4 DEF WithinLimits, IsEmpty
  <2>12. ASSUME NEW k \in Kinds PROVE Amount(w, k) = Amount(v, k)
    <3>1. Amount(w, k) = Amount(r, k) - OfKind(r[t], k) + OfKind(w[t], k)
      BY <1>1, <2>7, <2>8, <2>10, AmountOneSlot
    <3>2. Amount(v, k) \in Nat /\ Amount(r, k) = Amount(v, k) - (IF j = k THEN pour ELSE 0)
      BY <1>1, <2>6, AmountIsSum
    <3>3. OfKind(r[t], k) = IF j = k THEN v[t].quantity ELSE 0
      BY <2>1, <2>7 DEF OfKind
    <3>4. OfKind(w[t], k) = IF j = k THEN v[t].quantity + pour ELSE 0
      BY <2>9 DEF OfKind
    <3> QED
      BY <1>2, <2>3, <3>1, <3>2, <3>3, <3>4
  <2> QED
    BY <2>10, <2>11, <2>12 DEF Valid, w
<1>4. CASE ~ Holds(v, t, v[s].kind)
  <2>1. PICK w : w = Swapped(v, s, t)
    OBVIOUS
  <2>2. Move(v, s, t) = w
    BY <1>4, <2>1 DEF Move, Swapped
  <2>3. w \in Inventories /\ SameBut(v, w, s, t) /\ \A k : Amount(w, k) = Amount(v, k)
    BY <1>1, <2>1, SwapKeeps
  <2>4. w[Weapon] = v[Weapon] /\ w[Armor] = v[Armor]
    BY <1>1, <2>3, SlotFacts DEF SameBut
  <2>5. Valid(w)
    BY <1>1, <2>1, <2>4, SwapValid DEF WithinLimits, IsEmpty
  <2> QED
    BY <2>2, <2>3, <2>5
<1> QED
  BY <1>3, <1>4

LEMMA EquipRearranges ==
  ASSUME NEW v, Valid(v), NEW s, CanEquip(v, s)
  PROVE  Valid(Equip(v, s)) /\ \A k \in Kinds : Amount(Equip(v, s), k) = Amount(v, k)
<1>1. PICK e : e = EquipSlot(v[s].kind)
  OBVIOUS
<1>2. PICK w : w = Swapped(v, s, e)
  OBVIOUS
<1>3. Equip(v, s) = w
  BY <1>1, <1>2 DEF Equip, Swapped
<1>4. s \in Bag /\ s \in Slots /\ e \in {Weapon, Armor} /\ e \in Slots /\ s # e
      /\ v \in Inventories /\ WithinLimits(v)
  BY <1>1, SlotFacts DEF CanEquip, EquipSlot, Valid
<1>5. w[s] = v[e] /\ w[e] = v[s] /\ SameBut(v, w, s, e) /\ \A k : Amount(w, k) = Amount(v, k)
  BY <1>2, <1>4, SwapKeeps
<1>6. e = Weapon => v[s].kind \in Weapons
  BY <1>1, SlotFacts DEF EquipSlot
<1>7. e = Armor => v[s].kind \in Armors
  BY <1>1, SlotFacts DEF EquipSlot, CanEquip
<1>8. Valid(w)
  <2>1. w[Weapon].quantity # 0 => w[Weapon].kind \in Weapons
    BY <1>4, <1>5, <1>6, SlotFacts DEF WithinLimits, IsEmpty, SameBut
  <2>2. w[Armor].quantity # 0 => w[Armor].kind \in Armors
    BY <1>4, <1>5, <1>7, SlotFacts DEF WithinLimits, IsEmpty, SameBut
  <2> QED
    BY <1>2, <1>4, <2>1, <2>2, SwapValid
<1> QED
  BY <1>3, <1>5, <1>8

LEMMA UnequipRearranges ==
  ASSUME NEW v, Valid(v), NEW e, CanUnequip(v, e)
  PROVE  Valid(Unequip(v, e)) /\ \A k \in Kinds : Amount(Unequip(v, e), k) = Amount(v, k)
<1>1. PICK s : s = Min(EmptyBag(v))
  OBVIOUS
<1>2. v \in Inventories /\ WithinLimits(v) /\ e \in {Weapon, Armor} /\ e \in Slots
  BY SlotFacts DEF CanUnequip, Valid
<1>3. s \in Bag /\ s \in Slots /\ v[s] = NoItem /\ s # e
  BY <1>1, <1>2, FirstEmpty, SlotFacts DEF CanUnequip
<1>4. PICK w : w = Swapped(v, s, e)
  OBVIOUS
<1>5. Unequip(v, e) = w
  BY <1>1, <1>3, <1>4 DEF Unequip, Swapped
<1>6. w[e] = NoItem /\ SameBut(v, w, s, e) /\ \A k : Amount(w, k) = Amount(v, k)
  BY <1>2, <1>3, <1>4, SwapKeeps
<1>7. Valid(w)
  <2>1. w[Weapon].quantity # 0 => w[Weapon].kind \in Weapons
    BY <1>2, <1>3, <1>6, SlotFacts, NoItemFacts DEF WithinLimits, IsEmpty, SameBut
  <2>2. w[Armor].quantity # 0 => w[Armor].kind \in Armors
    BY <1>2, <1>3, <1>6, SlotFacts, NoItemFacts DEF WithinLimits, IsEmpty, SameBut
  <2> QED
    BY <1>2, <1>3, <1>4, <2>1, <2>2, SwapValid
<1> QED
  BY <1>5, <1>6, <1>7
===============================================================================
