------------------------------- MODULE SumLemmas -------------------------------
(***************************************************************************)
(* What SumFunctionOnSet of the community modules computes, for every      *)
(* finite set: the facts about sums of money that the proofs about the     *)
(* runners' books need.  A sum is folded over an arbitrary order of its    *)
(* elements; these lemmas show that the order does not matter.             *)
(***************************************************************************)
EXTENDS Integers, FiniteSets, Functions, FiniteSetTheorems, WellFoundedInduction, TLAPS

\* One unfolding of the fold: what iter[s] is, in terms of iter below s.
Unfold(g, iter, s) ==
  IF s = {} THEN 0 ELSE LET x == CHOOSE x \in s : TRUE IN g[x] + iter[s \ {x}]

Solves(g, S, iter) == iter = [s \in SUBSET S |-> Unfold(g, iter, s)]

-----------------------------------------------------------------------------
(* Induction. *)

\* A set of natural numbers that contains 0 and is closed under successor
\* contains all of them.
LEMMA NatInductionOnSet ==
  ASSUME NEW P, 0 \in P, \A n \in Nat : n \in P => n + 1 \in P
  PROVE  Nat \subseteq P
<1> DEFINE Q == Nat \ P
<1> SUFFICES ASSUME Q # {}
             PROVE  FALSE
  OBVIOUS
<1>1. PICK n \in Q : \A m \in Q : ~(<<m, n>> \in OpToRel(<, Nat))
  BY WFMin, NatLessThanWellFounded
<1>2. n \in Nat /\ n # 0
  OBVIOUS
<1>a. n - 1 \in Nat /\ n - 1 < n
  BY <1>2
<1>3. n - 1 \in P
  BY <1>1, <1>2, <1>a DEF OpToRel
<1>4. n - 1 + 1 \in P /\ n - 1 + 1 = n
  BY <1>2, <1>a, <1>3
<1> QED BY <1>1, <1>4

\* A family of subsets of a finite set that contains a subset as soon as it
\* contains all its proper subsets contains the whole set.
LEMMA SubsetInduction ==
  ASSUME NEW S, IsFiniteSet(S), NEW P,
         \A T \in SUBSET S : (\A U \in SUBSET T : U # T => U \in P) => T \in P
  PROVE  S \in P
<1> DEFINE N == {n \in Nat : \A T \in SUBSET S : Cardinality(T) <= n => T \in P}
<1>1. \A T \in SUBSET S : IsFiniteSet(T) /\ Cardinality(T) \in Nat
  BY FS_Subset, FS_CardinalityType
<1>2. 0 \in N
  <2>1. \A T \in SUBSET S : Cardinality(T) <= 0 => T = {}
    BY <1>1, FS_EmptySet
  <2> QED BY <2>1
<1>3. ASSUME NEW n \in Nat, n \in N
      PROVE  n + 1 \in N
  <2>1. ASSUME NEW T \in SUBSET S, Cardinality(T) <= n + 1
        PROVE  T \in P
    <3>1. ASSUME NEW U \in SUBSET T, U # T
          PROVE  U \in P
      <4>1. Cardinality(U) < Cardinality(T) /\ Cardinality(U) \in Nat /\ Cardinality(T) \in Nat
        BY <1>1, <3>1, FS_Subset
      <4> QED BY <1>3, <2>1, <4>1
    <3> QED BY <3>1
  <2> QED BY <1>3, <2>1
<1>4. Nat \subseteq N
  <2> HIDE DEF N
  <2> QED BY <1>2, <1>3, NatInductionOnSet
<1> QED BY <1>1, <1>4

\* A family of subsets of a finite set that contains the empty set, and with a
\* subset every one with one more element, contains the whole set.
LEMMA ElementInduction ==
  ASSUME NEW S, IsFiniteSet(S), NEW P, {} \in P,
         \A T \in SUBSET S : \A x \in S \ T : T \in P => T \cup {x} \in P
  PROVE  S \in P
<1>1. ASSUME NEW T \in SUBSET S, \A U \in SUBSET T : U # T => U \in P
      PROVE  T \in P
  <2>1. CASE T = {}
    BY <2>1
  <2>2. CASE T # {}
    <3>1. PICK x \in T : TRUE
      BY <2>2
    <3>2. T \ {x} \in P /\ (T \ {x}) \cup {x} = T
      BY <1>1, <3>1
    <3> QED BY <3>1, <3>2
  <2> QED BY <2>1, <2>2
<1> QED BY <1>1, SubsetInduction

-----------------------------------------------------------------------------
(* The fold exists and is one. *)

\* The recursive definition of the fold has a solution.
LEMMA FoldExists ==
  ASSUME NEW S, IsFiniteSet(S), NEW g
  PROVE  \E iter : Solves(g, S, iter)
<1> DEFINE Upto(n) == {s \in SUBSET S : Cardinality(s) <= n}
           N == {n \in Nat : \E iter : iter = [s \in Upto(n) |-> Unfold(g, iter, s)]}
<1>1. \A T \in SUBSET S : IsFiniteSet(T) /\ Cardinality(T) \in Nat
  BY FS_Subset, FS_CardinalityType
<1>2. 0 \in N
  <2>1. Upto(0) = {{}}
    BY <1>1, FS_EmptySet
  <2>2. DEFINE iter == [s \in {{}} |-> 0]
  <2>3. iter = [s \in Upto(0) |-> Unfold(g, iter, s)]
    BY <2>1 DEF Unfold
  <2> QED BY <2>3
<1>3. ASSUME NEW n \in Nat, n \in N
      PROVE  n + 1 \in N
  <2>1. PICK iter : iter = [s \in Upto(n) |-> Unfold(g, iter, s)]
    BY <1>3
  <2> DEFINE next == [s \in Upto(n + 1) |-> Unfold(g, iter, s)]
  <2>2. ASSUME NEW s \in Upto(n + 1)
        PROVE  Unfold(g, next, s) = Unfold(g, iter, s)
    <3>1. CASE s = {}
      BY <3>1 DEF Unfold
    <3>2. CASE s # {}
      <4> DEFINE x == CHOOSE x \in s : TRUE
      <4>1. x \in s
        BY <3>2
      <4>2. Cardinality(s \ {x}) = Cardinality(s) - 1
        BY <1>1, <4>1, FS_RemoveElement
      <4>3. s \ {x} \in Upto(n) /\ s \ {x} \in Upto(n + 1)
        BY <1>1, <4>2
      <4>4. next[s \ {x}] = iter[s \ {x}]
        BY <2>1, <4>3
      <4> QED BY <3>2, <4>4 DEF Unfold
    <3> QED BY <3>1, <3>2
  <2>3. next = [s \in Upto(n + 1) |-> Unfold(g, next, s)]
    BY <2>2
  <2>4. \E it : it = [s \in Upto(n + 1) |-> Unfold(g, it, s)]
    <3> HIDE DEF next, Upto
    <3> QED BY <2>3
  <2> QED BY <2>4
<1>4. Nat \subseteq N
  <2> HIDE DEF N
  <2> QED BY <1>2, <1>3, NatInductionOnSet
<1>5. Cardinality(S) \in Nat /\ Upto(Cardinality(S)) = SUBSET S
  BY <1>1, FS_Subset
<1> QED BY <1>4, <1>5 DEF Solves

\* Two solutions agree on the finite sets that both are defined for.
LEMMA FoldsAgree ==
  ASSUME NEW S, NEW T, NEW U \in (SUBSET S) \cap (SUBSET T), IsFiniteSet(U), NEW g, NEW i, NEW k,
         Solves(g, S, i), Solves(g, T, k)
  PROVE  i[U] = k[U]
<1> DEFINE N == {n \in Nat : \A s \in SUBSET U : Cardinality(s) = n => i[s] = k[s]}
<1>1. \A s \in SUBSET U : /\ IsFiniteSet(s) /\ Cardinality(s) \in Nat
                          /\ i[s] = Unfold(g, i, s) /\ k[s] = Unfold(g, k, s)
  BY FS_Subset, FS_CardinalityType DEF Solves
<1>2. 0 \in N
  <2>1. \A s \in SUBSET U : Cardinality(s) = 0 => s = {}
    BY <1>1, FS_EmptySet
  <2>2. i[{}] = k[{}]
    BY <1>1 DEF Unfold
  <2> QED BY <2>1, <2>2
<1>3. ASSUME NEW n \in Nat, n \in N
      PROVE  n + 1 \in N
  <2>1. ASSUME NEW s \in SUBSET U, Cardinality(s) = n + 1
        PROVE  i[s] = k[s]
    <3> DEFINE x == CHOOSE x \in s : TRUE
    <3>1. s # {} /\ x \in s
      BY <1>1, <1>3, <2>1, FS_EmptySet
    <3>2. Cardinality(s \ {x}) = n
      <4> HIDE DEF x
      <4>1. Cardinality(s \ {x}) = Cardinality(s) - 1
        BY <1>1, <3>1, FS_RemoveElement
      <4> QED BY <2>1, <4>1
    <3>3. i[s \ {x}] = k[s \ {x}]
      BY <1>3, <3>2
    <3> QED BY <1>1, <3>1, <3>3 DEF Unfold
  <2> QED BY <1>3, <2>1
<1>4. Nat \subseteq N
  <2> HIDE DEF N
  <2> QED BY <1>2, <1>3, NatInductionOnSet
<1> QED BY <1>1, <1>4

\* One unfolding of a sum.
LEMMA SumUnfolds ==
  ASSUME NEW S, IsFiniteSet(S), NEW g
  PROVE  SumFunctionOnSet(g, S) =
           IF S = {} THEN 0
           ELSE LET x == CHOOSE x \in S : TRUE IN g[x] + SumFunctionOnSet(g, S \ {x})
<1> DEFINE Iter(T) == CHOOSE iter : Solves(g, T, iter)
<1>1. \A T \in SUBSET S : IsFiniteSet(T) /\ Solves(g, T, Iter(T))
  BY FS_Subset, FoldExists
<1>2. \A T : SumFunctionOnSet(g, T) = Iter(T)[T]
  BY DEF SumFunctionOnSet, FoldFunctionOnSet, MapThenFoldSet, Solves, Unfold
<1>3. SumFunctionOnSet(g, S) = Unfold(g, Iter(S), S)
  <2>1. Solves(g, S, Iter(S)) /\ SumFunctionOnSet(g, S) = Iter(S)[S]
    BY <1>1, <1>2
  <2> HIDE DEF Iter
  <2> QED BY <2>1 DEF Solves
<1> DEFINE x == CHOOSE x \in S : TRUE
<1>4. Iter(S)[S \ {x}] = Iter(S \ {x})[S \ {x}]
  <2>1. IsFiniteSet(S \ {x}) /\ Solves(g, S \ {x}, Iter(S \ {x})) /\ Solves(g, S, Iter(S))
    BY <1>1
  <2> HIDE DEF Iter, x
  <2> QED BY <2>1, FoldsAgree
<1> QED BY <1>2, <1>3, <1>4 DEF Unfold

-----------------------------------------------------------------------------
(* Sums. *)

\* The empty sum.
LEMMA SumEmpty == \A g : SumFunctionOnSet(g, {}) = 0
  BY SumUnfolds, FS_EmptySet

\* A sum of integers is an integer.
LEMMA SumType ==
  ASSUME NEW S, IsFiniteSet(S), NEW g, \A x \in S : g[x] \in Int
  PROVE  SumFunctionOnSet(g, S) \in Int
<1> DEFINE P == {T \in SUBSET S : SumFunctionOnSet(g, T) \in Int}
<1>1. ASSUME NEW T \in SUBSET S, \A U \in SUBSET T : U # T => U \in P
      PROVE  T \in P
  <2>1. CASE T = {}
    BY <2>1, SumEmpty
  <2>2. CASE T # {}
    <3> DEFINE x == CHOOSE x \in T : TRUE
    <3>1. x \in T
      BY <2>2
    <3>2. SumFunctionOnSet(g, T) = g[x] + SumFunctionOnSet(g, T \ {x})
      BY <2>2, SumUnfolds, FS_Subset
    <3> HIDE DEF x
    <3>3. T \ {x} \in P
      BY <1>1, <3>1
    <3> QED BY <3>1, <3>2, <3>3
  <2> QED BY <2>1, <2>2
<1>2. S \in P
  <2> HIDE DEF P
  <2> QED BY <1>1, SubsetInduction
<1> QED BY <1>2

\* Any element may be taken out of a sum.
LEMMA SumRemove ==
  ASSUME NEW S, IsFiniteSet(S), NEW g, \A x \in S : g[x] \in Int, NEW e \in S
  PROVE  SumFunctionOnSet(g, S) = g[e] + SumFunctionOnSet(g, S \ {e})
<1> DEFINE Sum(T) == SumFunctionOnSet(g, T)
           P == {T \in SUBSET S : \A x \in T : Sum(T) = g[x] + Sum(T \ {x})}
<1>1. \A T \in SUBSET S : IsFiniteSet(T) /\ Sum(T) \in Int
  BY SumType, FS_Subset
<1>2. ASSUME NEW T \in SUBSET S, \A U \in SUBSET T : U # T => U \in P, NEW x \in T
      PROVE  Sum(T) = g[x] + Sum(T \ {x})
  <2> DEFINE c == CHOOSE y \in T : TRUE
  <2>1. c \in T /\ Sum(T) = g[c] + Sum(T \ {c})
    BY <1>1, SumUnfolds
  <2> HIDE DEF c
  <2>2. CASE c = x
    BY <2>1, <2>2
  <2>3. CASE c # x
    <3>1. T \ {c} \in P /\ T \ {x} \in P
      BY <1>2, <2>1
    <3>2. Sum(T \ {c}) = g[x] + Sum((T \ {c}) \ {x})
      BY <2>3, <3>1
    <3>3. Sum(T \ {x}) = g[c] + Sum((T \ {x}) \ {c})
      BY <2>1, <2>3, <3>1
    <3>4. (T \ {c}) \ {x} = (T \ {x}) \ {c}
      OBVIOUS
    <3>5. Sum((T \ {x}) \ {c}) \in Int /\ g[x] \in Int /\ g[c] \in Int
      BY <1>1, <2>1
    <3> DEFINE rest == Sum((T \ {x}) \ {c})
    <3>6. Sum(T) = g[c] + (g[x] + rest) /\ Sum(T \ {x}) = g[c] + rest
      BY <2>1, <3>2, <3>3, <3>4
    <3> HIDE DEF Sum, rest
    <3> QED BY <3>5, <3>6 DEF rest
  <2> QED BY <2>2, <2>3
<1>3. S \in P
  <2>1. \A T \in SUBSET S : (\A U \in SUBSET T : U # T => U \in P) => T \in P
    BY <1>2
  <2> HIDE DEF P
  <2> QED BY <2>1, SubsetInduction
<1> QED BY <1>3

\* An element that is not yet counted adds its value.
LEMMA SumAdd ==
  ASSUME NEW S, IsFiniteSet(S), NEW e, e \notin S, NEW g, \A x \in S \cup {e} : g[x] \in Int
  PROVE  SumFunctionOnSet(g, S \cup {e}) = g[e] + SumFunctionOnSet(g, S)
<1>1. IsFiniteSet(S \cup {e})
  BY FS_AddElement
<1>2. (S \cup {e}) \ {e} = S /\ e \in S \cup {e}
  OBVIOUS
<1>3. SumFunctionOnSet(g, S \cup {e}) = g[e] + SumFunctionOnSet(g, (S \cup {e}) \ {e})
  BY <1>1, <1>2, SumRemove
<1> QED BY <1>2, <1>3

\* A sum is bounded by the sum of bounds.
LEMMA SumBounded ==
  ASSUME NEW S, IsFiniteSet(S), NEW g, NEW h,
         \A x \in S : g[x] \in Int /\ h[x] \in Int /\ g[x] <= h[x]
  PROVE  SumFunctionOnSet(g, S) <= SumFunctionOnSet(h, S)
<1> DEFINE P == {T \in SUBSET S : SumFunctionOnSet(g, T) <= SumFunctionOnSet(h, T)}
<1>1. {} \in P
  BY SumEmpty
<1>2. ASSUME NEW T \in SUBSET S, NEW x \in S \ T, T \in P
      PROVE  T \cup {x} \in P
  <2>1. IsFiniteSet(T)
    BY FS_Subset
  <2>2. /\ SumFunctionOnSet(g, T) \in Int /\ SumFunctionOnSet(h, T) \in Int
    BY <2>1, SumType
  <2>3. /\ SumFunctionOnSet(g, T \cup {x}) = g[x] + SumFunctionOnSet(g, T)
        /\ SumFunctionOnSet(h, T \cup {x}) = h[x] + SumFunctionOnSet(h, T)
    BY <2>1, SumAdd
  <2>4. g[x] \in Int /\ h[x] \in Int /\ g[x] <= h[x]
    OBVIOUS
  <2>5. SumFunctionOnSet(g, T) <= SumFunctionOnSet(h, T)
    BY <1>2
  <2> QED BY <2>2, <2>3, <2>4, <2>5
<1>3. S \in P
  <2> HIDE DEF P
  <2> QED BY <1>1, <1>2, ElementInduction
<1> QED BY <1>3

\* Only the values at the counted elements matter.
LEMMA SumSame ==
  ASSUME NEW S, IsFiniteSet(S), NEW g, NEW h, \A x \in S : g[x] \in Int /\ g[x] = h[x]
  PROVE  SumFunctionOnSet(g, S) = SumFunctionOnSet(h, S)
<1>1. /\ SumFunctionOnSet(g, S) \in Int /\ SumFunctionOnSet(h, S) \in Int
      /\ SumFunctionOnSet(g, S) <= SumFunctionOnSet(h, S)
      /\ SumFunctionOnSet(h, S) <= SumFunctionOnSet(g, S)
  BY SumType, SumBounded
<1> QED BY <1>1

\* A constant is counted once per element.
LEMMA SumConstant ==
  ASSUME NEW S, IsFiniteSet(S), NEW c \in Int, NEW g, \A x \in S : g[x] = c
  PROVE  SumFunctionOnSet(g, S) = c * Cardinality(S)
<1> DEFINE P == {T \in SUBSET S : SumFunctionOnSet(g, T) = c * Cardinality(T)}
<1>1. {} \in P
  BY SumEmpty, FS_EmptySet
<1>2. ASSUME NEW T \in SUBSET S, NEW x \in S \ T, T \in P
      PROVE  T \cup {x} \in P
  <2>1. IsFiniteSet(T)
    BY FS_Subset
  <2>2. Cardinality(T) \in Nat /\ Cardinality(T \cup {x}) = Cardinality(T) + 1
    BY <2>1, FS_AddElement, FS_CardinalityType
  <2>3. SumFunctionOnSet(g, T \cup {x}) = g[x] + SumFunctionOnSet(g, T)
    BY <2>1, SumAdd, ZenonT(60)
  <2>a. g[x] = c /\ SumFunctionOnSet(g, T) = c * Cardinality(T)
    BY <1>2
  <2>4. c + c * Cardinality(T) = c * (Cardinality(T) + 1)
    BY <2>2
  <2> QED BY <2>2, <2>3, <2>a, <2>4
<1>3. S \in P
  <2> HIDE DEF P
  <2> QED BY <1>1, <1>2, ElementInduction
<1> QED BY <1>3

\* A sum is split into the sums over two parts.
LEMMA SumSplit ==
  ASSUME NEW S, IsFiniteSet(S), NEW g, \A x \in S : g[x] \in Int, NEW U \in SUBSET S
  PROVE  SumFunctionOnSet(g, S) = SumFunctionOnSet(g, U) + SumFunctionOnSet(g, S \ U)
<1> DEFINE P == {T \in SUBSET U : SumFunctionOnSet(g, S) =
                                  SumFunctionOnSet(g, T) + SumFunctionOnSet(g, S \ T)}
<1>1. {} \in P
  <2>1. SumFunctionOnSet(g, S) \in Int /\ S \ {} = S
    BY SumType
  <2> QED BY <2>1, SumEmpty
<1>2. ASSUME NEW T \in SUBSET U, NEW x \in U \ T, T \in P
      PROVE  T \cup {x} \in P
  <2>1. IsFiniteSet(T) /\ IsFiniteSet(S \ T) /\ x \in S \ T
    BY FS_Subset
  <2>2. (S \ T) \ {x} = S \ (T \cup {x}) /\ IsFiniteSet(S \ (T \cup {x}))
    BY FS_Subset
  <2>3. SumFunctionOnSet(g, T \cup {x}) = g[x] + SumFunctionOnSet(g, T)
    BY <2>1, SumAdd
  <2>4. SumFunctionOnSet(g, S \ T) = g[x] + SumFunctionOnSet(g, S \ (T \cup {x}))
    BY <2>1, <2>2, SumRemove
  <2>5. /\ SumFunctionOnSet(g, T) \in Int /\ SumFunctionOnSet(g, S \ (T \cup {x})) \in Int
        /\ g[x] \in Int
    BY <2>1, <2>2, SumType
  <2>6. SumFunctionOnSet(g, S) = SumFunctionOnSet(g, T) + SumFunctionOnSet(g, S \ T)
    BY <1>2
  <2> QED BY <2>3, <2>4, <2>5, <2>6
<1>3. U \in P
  <2>1. IsFiniteSet(U)
    BY FS_Subset
  <2> HIDE DEF P
  <2> QED BY <1>1, <1>2, <2>1, ElementInduction
<1> QED BY <1>3

\* A sum of natural numbers is one, and a part is no more than the whole.
LEMMA SumOfPart ==
  ASSUME NEW S, IsFiniteSet(S), NEW g, \A x \in S : g[x] \in Nat, NEW U \in SUBSET S
  PROVE  /\ SumFunctionOnSet(g, U) \in Nat
         /\ SumFunctionOnSet(g, S) \in Nat
         /\ SumFunctionOnSet(g, U) <= SumFunctionOnSet(g, S)
<1>1. ASSUME NEW T \in SUBSET S
      PROVE  SumFunctionOnSet(g, T) \in Nat
  <2> DEFINE zero == [x \in S |-> 0]
  <2>1. IsFiniteSet(T) /\ Cardinality(T) \in Nat
    BY FS_Subset, FS_CardinalityType
  <2>2. SumFunctionOnSet(zero, T) = 0 * Cardinality(T)
    BY <2>1, SumConstant
  <2>3. SumFunctionOnSet(zero, T) <= SumFunctionOnSet(g, T)
    BY <2>1, SumBounded
  <2>4. SumFunctionOnSet(g, T) \in Int
    BY <2>1, SumType
  <2> QED BY <2>1, <2>2, <2>3, <2>4
<1>2. SumFunctionOnSet(g, S) = SumFunctionOnSet(g, U) + SumFunctionOnSet(g, S \ U)
  BY SumSplit
<1>3. /\ SumFunctionOnSet(g, U) \in Nat /\ SumFunctionOnSet(g, S) \in Nat
      /\ SumFunctionOnSet(g, S \ U) \in Nat
  BY <1>1
<1> QED BY <1>2, <1>3

\* A budget g over S in which the elements of U count at an allowance c, those
\* of V at their value h, and the rest at nothing.
CountedAt(g, S, U, c, V, h) ==
  /\ IsFiniteSet(S) /\ U \subseteq S /\ V \subseteq S
  /\ c \in Nat /\ \A x \in S : h[x] \in Nat
  /\ \A x \in U : g[x] = c
  /\ \A x \in S \ U : g[x] = IF x \in V THEN h[x] ELSE 0

\* Such a budget is covered by the values and the allowances added up.
LEMMA SumCovered ==
  ASSUME NEW S, NEW U, NEW V, NEW c, NEW h, NEW g, CountedAt(g, S, U, c, V, h)
  PROVE  /\ SumFunctionOnSet(g, S) \in Nat /\ SumFunctionOnSet(h, V) \in Nat
         /\ c * Cardinality(U) \in Nat
         /\ SumFunctionOnSet(g, S) <= SumFunctionOnSet(h, V) + c * Cardinality(U)
<1> DEFINE R == S \ U
           W == V \ U
<1>a. /\ IsFiniteSet(S) /\ U \in SUBSET S /\ V \in SUBSET S
      /\ c \in Nat /\ \A x \in S : h[x] \in Nat
      /\ \A x \in U : g[x] = c
      /\ \A x \in S \ U : g[x] = IF x \in V THEN h[x] ELSE 0
  BY DEF CountedAt
<1>1. /\ IsFiniteSet(U) /\ IsFiniteSet(V) /\ IsFiniteSet(R) /\ IsFiniteSet(W)
      /\ IsFiniteSet(R \ W) /\ W \subseteq R /\ W \subseteq V
  BY <1>a, FS_Subset
<1>2. \A x \in S : g[x] \in Nat
  BY <1>a
<1>3. SumFunctionOnSet(g, S) = SumFunctionOnSet(g, U) + SumFunctionOnSet(g, R)
  BY <1>a, <1>2, SumSplit
<1>4. SumFunctionOnSet(g, U) = c * Cardinality(U)
  BY <1>a, <1>1, SumConstant
<1>5. SumFunctionOnSet(g, R) = SumFunctionOnSet(g, W) + SumFunctionOnSet(g, R \ W)
  BY <1>1, <1>2, SumSplit
<1>6. SumFunctionOnSet(g, R \ W) = 0 * Cardinality(R \ W) /\ Cardinality(R \ W) \in Nat
  <2>1. \A x \in R \ W : g[x] = 0
    BY <1>a
  <2> HIDE DEF R, W
  <2> QED BY <1>1, <2>1, SumConstant, FS_CardinalityType
<1>7. SumFunctionOnSet(g, W) = SumFunctionOnSet(h, W)
  BY <1>a, <1>1, SumSame
<1>8. SumFunctionOnSet(h, W) <= SumFunctionOnSet(h, V)
  BY <1>a, <1>1, SumOfPart
<1>9. /\ SumFunctionOnSet(g, S) \in Nat /\ SumFunctionOnSet(g, U) \in Nat
      /\ SumFunctionOnSet(h, W) \in Nat /\ SumFunctionOnSet(h, V) \in Nat
  BY <1>a, <1>1, <1>2, SumOfPart
<1> HIDE DEF R, W
<1> QED BY <1>3, <1>4, <1>5, <1>6, <1>7, <1>8, <1>9
=============================================================================
