------------------------------ MODULE Folding ------------------------------
(***************************************************************************)
(* Induction over finite sets and numbers, and what the folds of the       *)
(* community modules compute.  The induction theorems of the library have  *)
(* an operator as a parameter; here the property is a set, whose least     *)
(* counterexample does not exist.                                          *)
(***************************************************************************)
EXTENDS Integers, Sequences, FiniteSets, FiniteSetsExt, Functions, FiniteSetTheorems,
        SequenceTheorems, WellFoundedInduction, TLAPS

\* The numbers are well ordered: every set of them has a least one.
LEMMA LeastNumber ==
    ASSUME NEW T, T \subseteq Nat, T # {}
    PROVE  \E m \in T : \A k \in T : m <= k
<1> DEFINE R == OpToRel(<, Nat)
<1>1. IsWellFoundedOn(R, Nat)  BY NatLessThanWellFounded
<1> HIDE DEF R
<1>2. PICK m \in T : \A k \in T : ~(<<k, m>> \in R)  BY <1>1, WFMin, Zenon
<1>3. \A k \in T : ~(k < m)  BY <1>2 DEF R, OpToRel
<1> QED BY <1>2, <1>3

\* A finite set of numbers has a greatest one, which Max returns.
LEMMA GreatestNumber ==
    ASSUME NEW n \in Nat, NEW T \in SUBSET (1 .. n), T # {}
    PROVE  Max(T) \in T /\ \A y \in T : y <= Max(T)
<1> DEFINE D == {n - x : x \in T}
<1>0. \A x \in T : n - x \in Nat  OBVIOUS
<1>1. D \subseteq Nat /\ D # {}
  <2>1. PICK x : x \in T  OBVIOUS
  <2>2. n - x \in D  BY <2>1
  <2>3. D \subseteq Nat  BY <1>0
  <2> QED BY <2>2, <2>3
<1>2. PICK m \in D : \A k \in D : m <= k
  <2> HIDE DEF D
  <2> QED BY <1>1, LeastNumber
<1>3. PICK x \in T : m = n - x  BY <1>2
<1>4. \A y \in T : x >= y
  <2> TAKE y \in T
  <2>1. n - y \in D  OBVIOUS
  <2>2. n - x <= n - y  BY <1>2, <1>3, <2>1
  <2>3. x \in Nat /\ y \in Nat OBVIOUS
  <2> QED BY <2>2, <2>3
<1>5. x \in T /\ \A y \in T : y <= x
  BY <1>4
<1> QED BY <1>5 DEF Max

\* Induction over the subsets of a finite set: P is closed under putting back the
\* element that is taken out of a set first.
LEMMA SubsetInduction ==
    ASSUME NEW S, IsFiniteSet(S), NEW P,
           {} \in P,
           \A s \in SUBSET S : s # {} => \E x \in s : s \ {x} \in P => s \in P
    PROVE  SUBSET S \subseteq P
<1> SUFFICES ASSUME NEW w \in SUBSET S, w \notin P PROVE FALSE
  OBVIOUS
<1> DEFINE bad == {s \in SUBSET S : s \notin P}
           sizes == {Cardinality(s) : s \in bad}
<1>0. \A s \in SUBSET S : IsFiniteSet(s) /\ Cardinality(s) \in Nat
  BY FS_Subset, FS_CardinalityType
<1>1. sizes \subseteq Nat /\ sizes # {}  BY <1>0
<1> HIDE DEF sizes
<1>2. PICK m \in sizes : \A k \in sizes : m <= k  BY <1>1, LeastNumber
<1>3. PICK s \in bad : m = Cardinality(s)  BY <1>2 DEF sizes
<1>4a. s \in SUBSET S /\ s \notin P  BY <1>3
<1>4b. s # {}  BY <1>4a
<1>4. s # {} /\ s \in SUBSET S /\ s \notin P  BY <1>4a, <1>4b
<1>5. PICK x \in s : s \ {x} \in P => s \in P  BY <1>4
<1>6. s \ {x} \in bad  BY <1>4, <1>5
<1>7. Cardinality(s \ {x}) = Cardinality(s) - 1  BY <1>0, <1>4, <1>5, FS_RemoveElement
<1>8. Cardinality(s \ {x}) \in sizes  BY <1>6 DEF sizes
<1>9. m <= Cardinality(s \ {x}) /\ m \in Nat  BY <1>2, <1>8, <1>1
<1> QED BY <1>3, <1>7, <1>9

\* The same, from all smaller sets.
LEMMA SubsetStrongInduction ==
    ASSUME NEW S, IsFiniteSet(S), NEW P,
           \A s \in SUBSET S : (\A x \in s : SUBSET (s \ {x}) \subseteq P) => s \in P
    PROVE  SUBSET S \subseteq P
<1> DEFINE Q == {s \in SUBSET S : SUBSET s \subseteq P}
<1>1. SUBSET S \subseteq Q
  <2> SUFFICES ASSUME NEW w \in SUBSET S, w \notin Q PROVE FALSE
    OBVIOUS
  <2> DEFINE bad == {s \in SUBSET S : s \notin Q}
             sizes == {Cardinality(s) : s \in bad}
  <2>0. \A s \in SUBSET S : IsFiniteSet(s) /\ Cardinality(s) \in Nat
    BY FS_Subset, FS_CardinalityType
  <2> HIDE DEF Q
  <2>1. sizes \subseteq Nat /\ sizes # {}  BY <2>0
  <2> HIDE DEF sizes
  <2>2. PICK m \in sizes : \A k \in sizes : m <= k  BY <2>1, LeastNumber
  <2>3. PICK s \in bad : m = Cardinality(s)  BY <2>2 DEF sizes
  <2>4. s \in SUBSET S /\ s \notin Q  BY <2>3
  <2>5. \A x \in s : s \ {x} \in Q
    <3> SUFFICES ASSUME NEW x \in s, s \ {x} \notin Q PROVE FALSE
      OBVIOUS
    <3>1. s \ {x} \in bad  BY <2>4
    <3>2. Cardinality(s \ {x}) = Cardinality(s) - 1  BY <2>0, <2>4, FS_RemoveElement
    <3>3. Cardinality(s \ {x}) \in sizes  BY <3>1 DEF sizes
    <3>4. m <= Cardinality(s \ {x}) /\ m \in Nat  BY <2>2, <3>3, <2>1
    <3> QED BY <2>3, <3>2, <3>4
  <2>6. \A x \in s : SUBSET (s \ {x}) \subseteq P  BY <2>5 DEF Q
  <2>7. s \in P  BY <2>4, <2>6
  <2>8. ASSUME NEW t \in SUBSET s PROVE t \in P
    <3>1. CASE t = s  BY <3>1, <2>7
    <3>2. CASE t # s
      <4>1. PICK x \in s : x \notin t  BY <3>2
      <4>2. t \in SUBSET (s \ {x})  BY <4>1
      <4> QED BY <4>1, <4>2, <2>6
    <3> QED BY <3>1, <3>2
  <2>9. SUBSET s \subseteq P  BY <2>8
  <2> QED BY <2>4, <2>9 DEF Q
<1> QED BY <1>1

\* g folds the subsets of T: p chooses the element to take out, o puts its value on
\* what the rest gives, b is the value of nothing.
FoldsTo(T, g, V, b, o, p) ==
    /\ g \in [SUBSET T -> V]
    /\ \A s \in SUBSET T : g[s] = IF s = {} THEN b ELSE o[p[s], g[s \ {p[s]}]]

\* Two folds agree wherever both are defined.
LEMMA FoldsAgree ==
    ASSUME NEW S, IsFiniteSet(S), NEW V, NEW b, NEW o, NEW p,
           \A s \in SUBSET S : s # {} => p[s] \in s,
           NEW A \in SUBSET S, NEW B \in SUBSET S, NEW g, NEW h,
           FoldsTo(A, g, V, b, o, p), FoldsTo(B, h, V, b, o, p)
    PROVE  \A s \in SUBSET (A \cap B) : g[s] = h[s]
<1> DEFINE P == {s \in SUBSET (A \cap B) : g[s] = h[s]}
<1>1. IsFiniteSet(A \cap B)  BY FS_Subset
<1>2. {} \in P  BY DEF FoldsTo
<1>3. ASSUME NEW s \in SUBSET (A \cap B), s # {}
      PROVE  \E x \in s : s \ {x} \in P => s \in P
  <2>1. p[s] \in s  BY <1>3
  <2>2. g[s] = o[p[s], g[s \ {p[s]}]] /\ h[s] = o[p[s], h[s \ {p[s]}]]
    BY <1>3 DEF FoldsTo
  <2>3. s \ {p[s]} \in P => s \in P  BY <2>2
  <2> QED BY <2>1, <2>3
<1> DEFINE C == A \cap B
<1>4. IsFiniteSet(C) /\ {} \in P /\ \A s \in SUBSET C : s # {} => \E x \in s : s \ {x} \in P => s \in P
  BY <1>1, <1>2, <1>3
<1>5. SUBSET C \subseteq P
  <2> HIDE DEF C, P
  <2> QED BY <1>4, SubsetInduction
<1> QED BY <1>5

\* Every finite set can be folded.
LEMMA FoldExists ==
    ASSUME NEW S, IsFiniteSet(S), NEW V, NEW b \in V, NEW o \in [S \X V -> V], NEW p,
           \A s \in SUBSET S : s # {} => p[s] \in s
    PROVE  \E g : FoldsTo(S, g, V, b, o, p)
<1> DEFINE P == {T \in SUBSET S : \E g : FoldsTo(T, g, V, b, o, p)}
<1>1. ASSUME NEW T \in SUBSET S, \A x \in T : SUBSET (T \ {x}) \subseteq P
      PROVE  T \in P
  <2>1. CASE T = {}
    <3> DEFINE g == [s \in SUBSET T |-> b]
    <3>1. FoldsTo(T, g, V, b, o, p)  BY <2>1 DEF FoldsTo
    <3> QED BY <3>1
  <2>2. CASE T # {}
    <3> DEFINE G(U) == CHOOSE g : FoldsTo(U, g, V, b, o, p)
               x == p[T]
               f == [s \in SUBSET T |-> IF s = T THEN o[x, G(T \ {x})[T \ {x}]] ELSE G(s)[s]]
    <3>1. x \in T  BY <2>2
    <3>2. ASSUME NEW U \in SUBSET T, U # T PROVE FoldsTo(U, G(U), V, b, o, p)
      <4>1. PICK y \in T : y \notin U  BY <3>2
      <4>2. U \in SUBSET (T \ {y})  BY <4>1
      <4>3. U \in P  BY <4>1, <4>2, <1>1
      <4> QED BY <4>3
    <3>3. ASSUME NEW U \in SUBSET T, U # T, NEW W \in SUBSET U PROVE G(U)[W] = G(W)[W]
      <4>1. FoldsTo(U, G(U), V, b, o, p)  BY <3>2, <3>3
      <4>2. W # T /\ W \in SUBSET T  BY <3>3
      <4>3. FoldsTo(W, G(W), V, b, o, p)  BY <3>2, <4>2
      <4>4. U \in SUBSET S /\ W \in SUBSET S  OBVIOUS
      <4> HIDE DEF G
      <4>5. \A s \in SUBSET (U \cap W) : G(U)[s] = G(W)[s]  BY <4>1, <4>3, <4>4, FoldsAgree
      <4> QED BY <4>5
    <3> HIDE DEF G
    <3>4. ASSUME NEW s \in SUBSET T PROVE f[s] \in V
      <4>1. CASE s = T
        <5>1. T \ {x} \in SUBSET T /\ T \ {x} # T  BY <3>1
        <5>2. FoldsTo(T \ {x}, G(T \ {x}), V, b, o, p)  BY <5>1, <3>2
        <5>3. G(T \ {x})[T \ {x}] \in V  BY <5>2 DEF FoldsTo
        <5>4. x \in S  BY <3>1
        <5> QED BY <5>3, <5>4, <4>1
      <4>2. CASE s # T
        <5>1. FoldsTo(s, G(s), V, b, o, p)  BY <4>2, <3>2
        <5>2. G(s)[s] \in V  BY <5>1 DEF FoldsTo
        <5> QED BY <5>2, <4>2
      <4> QED BY <4>1, <4>2
    <3>5. ASSUME NEW s \in SUBSET T
          PROVE  f[s] = IF s = {} THEN b ELSE o[p[s], f[s \ {p[s]}]]
      <4>1. CASE s = T
        <5>1. T \ {x} \in SUBSET T /\ T \ {x} # T  BY <3>1
        <5>2. f[T \ {x}] = G(T \ {x})[T \ {x}]  BY <5>1
        <5> QED BY <4>1, <5>2, <2>2
      <4>2. CASE s # T /\ s = {}
        <5>1. FoldsTo(s, G(s), V, b, o, p)  BY <4>2, <3>2
        <5> QED BY <4>2, <5>1 DEF FoldsTo
      <4>3. CASE s # T /\ s # {}
        <5> DEFINE r == s \ {p[s]}
        <5>1. p[s] \in s  BY <4>3
        <5>2. FoldsTo(s, G(s), V, b, o, p)  BY <4>3, <3>2
        <5>3. G(s)[s] = o[p[s], G(s)[r]]  BY <5>2, <4>3 DEF FoldsTo
        <5>4. r \in SUBSET s /\ r \in SUBSET T /\ r # T  BY <5>1, <4>3
        <5>5. G(s)[r] = G(r)[r]  BY <4>3, <5>4, <3>3
        <5>6. f[r] = G(r)[r]  BY <5>4
        <5>7. f[s] = G(s)[s]  BY <4>3
        <5> QED BY <5>3, <5>5, <5>6, <5>7, <4>3
      <4> QED BY <4>1, <4>2, <4>3
    <3>6. f \in [SUBSET T -> V]  BY <3>4
    <3> HIDE DEF f
    <3>7. FoldsTo(T, f, V, b, o, p)  BY <3>5, <3>6 DEF FoldsTo
    <3> QED BY <3>7
  <2> QED BY <2>1, <2>2
<1> HIDE DEF P
<1>2. SUBSET S \subseteq P  BY <1>1, SubsetStrongInduction
<1> QED BY <1>2 DEF P

-----------------------------------------------------------------------------
(* Sums *)

\* The recursion that SumFunctionOnSet goes through.
Unfolding(g, w, S) ==
    /\ g \in [SUBSET S -> Int]
    /\ \A s \in SUBSET S : g[s] = IF s = {} THEN 0
                       ELSE w[CHOOSE x \in s : TRUE] + g[s \ {CHOOSE x \in s : TRUE}]

\* A sum is the value of its recursion.
LEMMA SumUnfolds ==
    ASSUME NEW S, IsFiniteSet(S), NEW w, \A x \in S : w[x] \in Int
    PROVE  \E g : Unfolding(g, w, S) /\ SumFunctionOnSet(w, S) = g[S]
<1> DEFINE o == [q \in S \X Int |-> w[q[1]] + q[2]]
           p == [s \in SUBSET S |-> CHOOSE x \in s : TRUE]
           Iter(g) == g = [s \in SUBSET S |-> IF s = {} THEN 0
                              ELSE w[CHOOSE x \in s : TRUE] + g[s \ {CHOOSE x \in s : TRUE}]]
<1>0. SumFunctionOnSet(w, S) = (CHOOSE g : Iter(g))[S]
  BY DEF SumFunctionOnSet, FoldFunctionOnSet, MapThenFoldSet
<1>1. \A s \in SUBSET S : s # {} => p[s] \in s  OBVIOUS
<1>2. o \in [S \X Int -> Int]  OBVIOUS
<1>o. \A x \in S, v \in Int : o[x, v] = w[x] + v  OBVIOUS
<1>p. \A s \in SUBSET S : p[s] = CHOOSE x \in s : TRUE  OBVIOUS
<1> HIDE DEF o, p
<1>3. PICK f : FoldsTo(S, f, Int, 0, o, p)
  <2> DEFINE V == Int
             z == 0
  <2>1. z \in V /\ o \in [S \X V -> V]  BY <1>2
  <2> HIDE DEF V, z
  <2>2. \E f : FoldsTo(S, f, V, z, o, p)  BY <1>1, <2>1, FoldExists
  <2> QED BY <2>2 DEF V, z
<1>4. f \in [SUBSET S -> Int]  BY <1>3 DEF FoldsTo
<1>5. ASSUME NEW s \in SUBSET S, s # {}
      PROVE  f[s] = w[CHOOSE x \in s : TRUE] + f[s \ {CHOOSE x \in s : TRUE}]
  <2>1. f[s] = o[p[s], f[s \ {p[s]}]]  BY <1>3, <1>5 DEF FoldsTo
  <2>2. p[s] \in S /\ f[s \ {p[s]}] \in Int  BY <1>1, <1>4, <1>5
  <2>3. o[p[s], f[s \ {p[s]}]] = w[p[s]] + f[s \ {p[s]}]  BY <1>o, <2>2
  <2> QED BY <2>1, <2>3, <1>p
<1>6. f[{}] = 0  BY <1>3 DEF FoldsTo
<1>7. Iter(f)  BY <1>4, <1>5, <1>6
<1> DEFINE it == CHOOSE g : Iter(g)
<1>8. Iter(it)  BY <1>7
<1> HIDE DEF it
<1>9. \A s \in SUBSET S : it[s] = IF s = {} THEN 0
                       ELSE w[CHOOSE x \in s : TRUE] + it[s \ {CHOOSE x \in s : TRUE}]
  BY <1>8
<1>10. SUBSET S \subseteq {s \in SUBSET S : it[s] \in Int}
  <2> DEFINE P == {s \in SUBSET S : it[s] \in Int}
  <2>0. {} \in SUBSET S /\ it[{}] = 0  BY <1>9
  <2>1. {} \in P  BY <2>0
  <2>2. ASSUME NEW s \in SUBSET S, s # {} PROVE \E x \in s : s \ {x} \in P => s \in P
    <3> DEFINE c == CHOOSE x \in s : TRUE
    <3>1. c \in s  BY <2>2
    <3>2. it[s] = w[c] + it[s \ {c}]  BY <2>2, <1>9
    <3> HIDE DEF c
    <3>3. s \ {c} \in P => s \in P  BY <3>1, <3>2
    <3> QED BY <3>1, <3>3
  <2> HIDE DEF P
  <2>3. SUBSET S \subseteq P  BY <2>1, <2>2, SubsetInduction
  <2> QED BY <2>3 DEF P
<1>11. it \in [SUBSET S -> Int]
  <2>1. it = [s \in SUBSET S |-> it[s]]  BY <1>8
  <2> QED BY <1>10, <2>1
<1>12. Unfolding(it, w, S)  BY <1>9, <1>11 DEF Unfolding
<1> QED BY <1>0, <1>12 DEF it

\* It depends on the summands only.
LEMMA UnfoldingsAgree ==
    ASSUME NEW S, IsFiniteSet(S), NEW A \in SUBSET S, NEW w, NEW v, \A x \in A : w[x] = v[x],
           NEW g, NEW h, Unfolding(g, w, S), Unfolding(h, v, A)
    PROVE  \A s \in SUBSET A : g[s] = h[s]
<1> DEFINE P == {s \in SUBSET A : g[s] = h[s]}
<1>1. IsFiniteSet(A)  BY FS_Subset
<1>2. {} \in P  BY DEF Unfolding
<1>3. ASSUME NEW s \in SUBSET A, s # {} PROVE \E x \in s : s \ {x} \in P => s \in P
  <2> DEFINE c == CHOOSE x \in s : TRUE
  <2>1. c \in s  BY <1>3
  <2>2. g[s] = w[c] + g[s \ {c}] /\ h[s] = v[c] + h[s \ {c}]  BY <1>3 DEF Unfolding
  <2> HIDE DEF c
  <2>3. s \ {c} \in P => s \in P  BY <2>1, <2>2
  <2> QED BY <2>1, <2>3
<1> HIDE DEF P
<1>4. SUBSET A \subseteq P  BY <1>1, <1>2, <1>3, SubsetInduction
<1> QED BY <1>4 DEF P

\* Equal summands have equal sums.
LEMMA SumCongruent ==
    ASSUME NEW S, IsFiniteSet(S), NEW w, NEW v, \A x \in S : w[x] \in Int /\ w[x] = v[x]
    PROVE  SumFunctionOnSet(w, S) = SumFunctionOnSet(v, S)
<1>1. PICK g : Unfolding(g, w, S) /\ SumFunctionOnSet(w, S) = g[S]  BY SumUnfolds
<1>2. PICK h : Unfolding(h, v, S) /\ SumFunctionOnSet(v, S) = h[S]  BY SumUnfolds
<1>3. \A s \in SUBSET S : g[s] = h[s]  BY <1>1, <1>2, UnfoldingsAgree
<1> QED BY <1>1, <1>2, <1>3

\* The sum of nothing.
LEMMA SumEmpty ==
    ASSUME NEW w PROVE SumFunctionOnSet(w, {}) = 0
<1>1. IsFiniteSet({})  BY FS_EmptySet
<1>2. PICK g : Unfolding(g, w, {}) /\ SumFunctionOnSet(w, {}) = g[{}]  BY <1>1, SumUnfolds
<1> QED BY <1>2 DEF Unfolding

\* Sums of integers are integers.
LEMMA SumInt ==
    ASSUME NEW S, IsFiniteSet(S), NEW w, \A x \in S : w[x] \in Int
    PROVE  SumFunctionOnSet(w, S) \in Int
<1>1. PICK g : Unfolding(g, w, S) /\ SumFunctionOnSet(w, S) = g[S]  BY SumUnfolds
<1> QED BY <1>1 DEF Unfolding

\* The recursion takes some summand out.
LEMMA SumPicked ==
    ASSUME NEW S, IsFiniteSet(S), NEW w, \A x \in S : w[x] \in Int, S # {}
    PROVE  \E c \in S : SumFunctionOnSet(w, S) = w[c] + SumFunctionOnSet(w, S \ {c})
<1> DEFINE c == CHOOSE x \in S : TRUE
<1>1. c \in S  OBVIOUS
<1>2. PICK g : Unfolding(g, w, S) /\ SumFunctionOnSet(w, S) = g[S]  BY SumUnfolds
<1>3. g[S] = w[c] + g[S \ {c}]  BY <1>2 DEF Unfolding
<1> HIDE DEF c
<1> DEFINE A == S \ {c}
<1>4. A \in SUBSET S /\ IsFiniteSet(A) /\ \A x \in A : w[x] \in Int  BY FS_Subset
<1> HIDE DEF A
<1>5. PICK h : Unfolding(h, w, A) /\ SumFunctionOnSet(w, A) = h[A]  BY <1>4, SumUnfolds
<1>6. \A s \in SUBSET A : g[s] = h[s]  BY <1>2, <1>4, <1>5, UnfoldingsAgree
<1> QED BY <1>1, <1>2, <1>3, <1>5, <1>6 DEF A

\* The order of the summands does not matter.
LEMMA SumRemove ==
    ASSUME NEW S, IsFiniteSet(S), NEW w, \A x \in S : w[x] \in Int, NEW y \in S
    PROVE  SumFunctionOnSet(w, S) = w[y] + SumFunctionOnSet(w, S \ {y})
<1> DEFINE P == {s \in SUBSET S : \A x \in s :
                    SumFunctionOnSet(w, s) = w[x] + SumFunctionOnSet(w, s \ {x})}
<1>1. \A s \in SUBSET S : IsFiniteSet(s) /\ SumFunctionOnSet(w, s) \in Int
  BY FS_Subset, SumInt
<1>2. ASSUME NEW s \in SUBSET S, \A x \in s : SUBSET (s \ {x}) \subseteq P PROVE s \in P
  <2> SUFFICES ASSUME NEW x \in s
               PROVE  SumFunctionOnSet(w, s) = w[x] + SumFunctionOnSet(w, s \ {x})
    OBVIOUS
  <2>1. PICK c \in s : SumFunctionOnSet(w, s) = w[c] + SumFunctionOnSet(w, s \ {c})
    BY <1>1, SumPicked
  <2>2. CASE x = c  BY <2>1, <2>2
  <2>3. CASE x # c
    <3>1. s \ {c} \in P /\ s \ {x} \in P  BY <1>2
    <3>2. SumFunctionOnSet(w, s \ {c}) = w[x] + SumFunctionOnSet(w, (s \ {c}) \ {x})
      BY <3>1, <2>3
    <3>3. SumFunctionOnSet(w, s \ {x}) = w[c] + SumFunctionOnSet(w, (s \ {x}) \ {c})
      BY <3>1, <2>3
    <3>4. (s \ {c}) \ {x} = (s \ {x}) \ {c}  OBVIOUS
    <3>5. w[x] \in Int /\ w[c] \in Int /\ SumFunctionOnSet(w, (s \ {x}) \ {c}) \in Int
      BY <1>1
    <3>6. PICK a \in Int, b \in Int, r \in Int :
            a = w[x] /\ b = w[c] /\ r = SumFunctionOnSet(w, (s \ {x}) \ {c})
      BY <3>5
    <3>7. SumFunctionOnSet(w, s) = b + (a + r)  BY <2>1, <3>2, <3>4, <3>6
    <3>8. w[x] + SumFunctionOnSet(w, s \ {x}) = a + (b + r)  BY <3>3, <3>6
    <3> QED BY <3>7, <3>8
  <2> QED BY <2>2, <2>3
<1>3. SUBSET S \subseteq P
  <2> HIDE DEF P
  <2> QED BY <1>2, SubsetStrongInduction
<1> QED BY <1>3

\* One more summand.
LEMMA SumAdd ==
    ASSUME NEW S, IsFiniteSet(S), NEW y, y \notin S, NEW w, \A x \in S \union {y} : w[x] \in Int
    PROVE  SumFunctionOnSet(w, S \union {y}) = w[y] + SumFunctionOnSet(w, S)
<1> DEFINE T == S \union {y}
<1>1. IsFiniteSet(T)  BY FS_AddElement
<1>2. T \ {y} = S /\ y \in T /\ \A x \in T : w[x] \in Int  OBVIOUS
<1> HIDE DEF T
<1>3. SumFunctionOnSet(w, T) = w[y] + SumFunctionOnSet(w, T \ {y})  BY <1>1, <1>2, SumRemove
<1> QED BY <1>2, <1>3 DEF T

\* Sums of natural numbers are natural numbers.
LEMMA SumNat ==
    ASSUME NEW S, IsFiniteSet(S), NEW w, \A x \in S : w[x] \in Nat
    PROVE  SumFunctionOnSet(w, S) \in Nat
<1> DEFINE P == {s \in SUBSET S : SumFunctionOnSet(w, s) \in Nat}
<1>1. {} \in P  BY SumEmpty
<1>2. ASSUME NEW s \in SUBSET S, s # {} PROVE \E x \in s : s \ {x} \in P => s \in P
  <2>1. IsFiniteSet(s)  BY FS_Subset
  <2>2. PICK c \in s : SumFunctionOnSet(w, s) = w[c] + SumFunctionOnSet(w, s \ {c})
    BY <2>1, <1>2, SumPicked
  <2>3. s \ {c} \in P => s \in P  BY <2>2
  <2> QED BY <2>3
<1>3. SUBSET S \subseteq P
  <2> HIDE DEF P
  <2> QED BY <1>1, <1>2, SubsetInduction
<1> QED BY <1>3

\* Summands that are all zero.
LEMMA SumZero ==
    ASSUME NEW S, IsFiniteSet(S), NEW w, \A x \in S : w[x] = 0
    PROVE  SumFunctionOnSet(w, S) = 0
<1> DEFINE P == {s \in SUBSET S : SumFunctionOnSet(w, s) = 0}
<1>1. {} \in P  BY SumEmpty
<1>2. ASSUME NEW s \in SUBSET S, s # {} PROVE \E x \in s : s \ {x} \in P => s \in P
  <2>1. IsFiniteSet(s)  BY FS_Subset
  <2>2. PICK c \in s : SumFunctionOnSet(w, s) = w[c] + SumFunctionOnSet(w, s \ {c})
    BY <2>1, <1>2, SumPicked
  <2>3. s \ {c} \in P => s \in P  BY <2>2
  <2> QED BY <2>3
<1>3. SUBSET S \subseteq P
  <2> HIDE DEF P
  <2> QED BY <1>1, <1>2, SubsetInduction
<1> QED BY <1>3

\* One summand grows.
LEMMA SumBump ==
    ASSUME NEW S, IsFiniteSet(S), NEW D, S \subseteq D, NEW w \in [D -> Int],
           NEW c \in D, NEW n \in Int, NEW v \in [D -> Int],
           v[c] = w[c] + n, \A x \in D : x # c => v[x] = w[x]
    PROVE  SumFunctionOnSet(v, S) = SumFunctionOnSet(w, S) + (IF c \in S THEN n ELSE 0)
<1>1. \A x \in S : w[x] \in Int /\ v[x] \in Int  OBVIOUS
<1>2. SumFunctionOnSet(w, S) \in Int  BY <1>1, SumInt
<1>3. CASE c \notin S
  <2>1. \A x \in S : w[x] \in Int /\ w[x] = v[x]  BY <1>3
  <2>2. SumFunctionOnSet(w, S) = SumFunctionOnSet(v, S)  BY <2>1, SumCongruent
  <2> QED BY <1>2, <1>3, <2>2
<1>4. CASE c \in S
  <2> DEFINE T == S \ {c}
  <2>1. IsFiniteSet(T) /\ \A x \in T : w[x] \in Int /\ w[x] = v[x]  BY <1>1, FS_Subset
  <2>2. SumFunctionOnSet(w, S) = w[c] + SumFunctionOnSet(w, T)  BY <1>1, <1>4, SumRemove
  <2>3. SumFunctionOnSet(v, S) = v[c] + SumFunctionOnSet(v, T)  BY <1>1, <1>4, SumRemove
  <2>4. SumFunctionOnSet(w, T) \in Int  BY <2>1, SumInt
  <2>5. SumFunctionOnSet(w, T) = SumFunctionOnSet(v, T)  BY <2>1, SumCongruent
  <2>6. v[c] = w[c] + n /\ w[c] \in Int  BY <1>4
  <2> HIDE DEF T
  <2>7. PICK a \in Int, b \in Int : a = w[c] /\ b = SumFunctionOnSet(w, T)  BY <2>4, <2>6
  <2>8. SumFunctionOnSet(w, S) = a + b  BY <2>2, <2>7
  <2>9. SumFunctionOnSet(v, S) = (a + n) + b  BY <2>3, <2>5, <2>6, <2>7
  <2>10. SumFunctionOnSet(v, S) = SumFunctionOnSet(w, S) + n  BY <2>8, <2>9
  <2> QED BY <1>4, <2>10
<1> QED BY <1>3, <1>4

-----------------------------------------------------------------------------
(* Sequences of numbers *)

\* Induction over the natural numbers.
LEMMA NatSetInduction ==
    ASSUME NEW P, 0 \in P, \A n \in Nat : n \in P => n + 1 \in P
    PROVE  Nat \subseteq P
<1> SUFFICES ASSUME NEW w \in Nat, w \notin P PROVE FALSE
  OBVIOUS
<1> DEFINE T == {n \in Nat : n \notin P}
<1>1. T \subseteq Nat /\ T # {}  OBVIOUS
<1> HIDE DEF T
<1>2. PICK m \in T : \A k \in T : m <= k  BY <1>1, LeastNumber
<1>3. m \in Nat /\ m \notin P /\ m # 0  BY <1>2 DEF T
<1>4. m - 1 \in Nat /\ (m - 1) + 1 = m  BY <1>3
<1>5. m - 1 \notin P  BY <1>3, <1>4
<1>6. m - 1 \in T  BY <1>4, <1>5 DEF T
<1> QED BY <1>2, <1>3, <1>6

\* One number more.
LEMMA NextInterval ==
    ASSUME NEW n \in Nat
    PROVE  1 .. n + 1 = (1 .. n) \union {n + 1} /\ n + 1 \notin 1 .. n
OBVIOUS

\* The sum of a concatenation.
LEMMA SumConcat ==
    ASSUME NEW u \in Seq(Int), NEW v \in Seq(Int)
    PROVE  SumFunction(u \o v) = SumFunction(u) + SumFunction(v)
<1> DEFINE m == Len(u)
           w == u \o v
           P == {k \in Nat : k <= Len(v) =>
                    SumFunctionOnSet(w, 1 .. m + k) = SumFunctionOnSet(u, 1 .. m)
                                                          + SumFunctionOnSet(v, 1 .. k)}
<1>1. m \in Nat /\ Len(v) \in Nat /\ Len(w) = m + Len(v) /\ w \in Seq(Int)
      /\ DOMAIN u = 1 .. m /\ DOMAIN v = 1 .. Len(v) /\ DOMAIN w = 1 .. m + Len(v)
  OBVIOUS
<1>2. /\ \A i \in 1 .. m : w[i] = u[i] /\ u[i] \in Int
      /\ \A i \in 1 .. Len(v) : w[m + i] = v[i] /\ v[i] \in Int
  OBVIOUS
<1>3. \A k \in Nat : IsFiniteSet(1 .. k)  BY FS_Interval
<1> HIDE DEF m, w
<1>4. 0 \in P
  <2>1. SumFunctionOnSet(w, 1 .. m) = SumFunctionOnSet(u, 1 .. m)
    BY <1>1, <1>2, <1>3, SumCongruent
  <2>2. 1 .. 0 = {} /\ 1 .. m + 0 = 1 .. m  BY <1>1
  <2>3. SumFunctionOnSet(v, 1 .. 0) = 0  BY <2>2, SumEmpty
  <2>4. SumFunctionOnSet(u, 1 .. m) \in Int  BY <1>1, <1>2, <1>3, SumInt
  <2> QED BY <2>1, <2>2, <2>3, <2>4
<1>5. ASSUME NEW k \in Nat, k \in P PROVE k + 1 \in P
  <2> SUFFICES ASSUME k + 1 <= Len(v)
               PROVE  SumFunctionOnSet(w, 1 .. m + (k + 1)) = SumFunctionOnSet(u, 1 .. m)
                                                          + SumFunctionOnSet(v, 1 .. k + 1)
    OBVIOUS
  <2> DEFINE A == 1 .. m + k
             B == 1 .. k
             x == m + (k + 1)
             y == k + 1
  <2>0. m + k \in Nat /\ m + (k + 1) = (m + k) + 1  BY <1>1
  <2>1. /\ 1 .. m + (k + 1) = A \union {x} /\ x \notin A
        /\ 1 .. k + 1 = B \union {y} /\ y \notin B
    BY <2>0, NextInterval
  <2>2. IsFiniteSet(A) /\ IsFiniteSet(B)  BY <1>1, <1>3
  <2>3. \A i \in A \union {x} : w[i] \in Int
    <3> SUFFICES ASSUME NEW i \in 1 .. m + (k + 1) PROVE w[i] \in Int
      BY <2>1
    <3>1. CASE i <= m  BY <3>1, <1>1, <1>2
    <3>2. CASE ~(i <= m)
      <4>1. i - m \in 1 .. Len(v) /\ i = m + (i - m)  BY <3>2, <1>1
      <4> QED BY <4>1, <1>2
    <3> QED BY <3>1, <3>2
  <2>4. \A i \in B \union {y} : v[i] \in Int  BY <1>1, <1>2
  <2>5. w[x] = v[y]  BY <1>1, <1>2
  <2>6. v[y] \in Int  BY <2>4
  <2>7. SumFunctionOnSet(w, A) = SumFunctionOnSet(u, 1 .. m) + SumFunctionOnSet(v, B)
    BY <1>5
  <2>8. SumFunctionOnSet(u, 1 .. m) \in Int /\ SumFunctionOnSet(v, B) \in Int
    BY <1>1, <1>2, <1>3, <2>2, <2>4, SumInt
  <2> HIDE DEF A, B, x, y
  <2>9. SumFunctionOnSet(w, A \union {x}) = w[x] + SumFunctionOnSet(w, A)
    BY <2>1, <2>2, <2>3, SumAdd
  <2>10. SumFunctionOnSet(v, B \union {y}) = v[y] + SumFunctionOnSet(v, B)
    BY <2>1, <2>2, <2>4, SumAdd
  <2>11. PICK a \in Int, b \in Int, c \in Int :
            a = v[y] /\ b = SumFunctionOnSet(u, 1 .. m) /\ c = SumFunctionOnSet(v, B)
    BY <2>6, <2>8
  <2>12. SumFunctionOnSet(w, A \union {x}) = a + (b + c)  BY <2>5, <2>7, <2>9, <2>11
  <2>13. SumFunctionOnSet(v, B \union {y}) = a + c  BY <2>10, <2>11
  <2>14. SumFunctionOnSet(w, A \union {x}) = b + SumFunctionOnSet(v, B \union {y})
    BY <2>12, <2>13
  <2> QED BY <2>1, <2>11, <2>14
<1>6. Nat \subseteq P
  <2> HIDE DEF P
  <2> QED BY <1>4, <1>5, NatSetInduction
<1>7. Len(v) \in P  BY <1>1, <1>6
<1> QED BY <1>1, <1>7 DEF SumFunction, w

\* The sum of one number.
LEMMA SumOne ==
    ASSUME NEW a \in Int
    PROVE  SumFunction(<<a>>) = a
<1> DEFINE w == <<a>>
<1>1. DOMAIN w = {} \union {1} /\ w[1] = a  OBVIOUS
<1> HIDE DEF w
<1>2. IsFiniteSet({})  BY FS_EmptySet
<1>3. \A x \in {} \union {1} : w[x] \in Int  BY <1>1
<1>4. 1 \notin {}  OBVIOUS
<1>5. SumFunctionOnSet(w, {} \union {1}) = w[1] + SumFunctionOnSet(w, {})
  BY <1>2, <1>3, <1>4, SumAdd
<1>6. SumFunctionOnSet(w, {}) = 0  BY SumEmpty
<1> QED BY <1>1, <1>5, <1>6 DEF SumFunction, w

\* The sum of nothing.
LEMMA SumNone == SumFunction(<<>>) = 0
BY SumEmpty DEF SumFunction

\* Sums of sequences of natural numbers are natural numbers.
LEMMA SumOfNats ==
    ASSUME NEW u \in Seq(Nat)
    PROVE  SumFunction(u) \in Nat
<1>1. DOMAIN u = 1 .. Len(u) /\ Len(u) \in Nat /\ \A i \in 1 .. Len(u) : u[i] \in Nat
  OBVIOUS
<1>2. IsFiniteSet(1 .. Len(u))  BY <1>1, FS_Interval
<1> QED BY <1>1, <1>2, SumNat DEF SumFunction
-----------------------------------------------------------------------------
(* What the elements of a sequence weigh together *)

Weight(u, g) == SumFunction([i \in DOMAIN u |-> g[u[i]]])

\* Weights are numbers.
LEMMA WeightNat ==
    ASSUME NEW R, NEW g \in [R -> Nat], NEW u \in Seq(R)
    PROVE  Weight(u, g) \in Nat /\ [i \in DOMAIN u |-> g[u[i]]] \in Seq(Nat)
<1> DEFINE w == [i \in DOMAIN u |-> g[u[i]]]
<1>0. DOMAIN u = 1 .. Len(u) /\ Len(u) \in Nat /\ \A i \in 1 .. Len(u) : u[i] \in R
  OBVIOUS
<1>1. \A i \in 1 .. Len(u) : g[u[i]] \in Nat  BY <1>0
<1>2. w \in Seq(Nat)  BY <1>0, <1>1, IsASeq
<1> QED BY <1>2, SumOfNats DEF Weight

\* One sequence after another weighs what both weigh.
LEMMA WeightConcat ==
    ASSUME NEW R, NEW g \in [R -> Nat], NEW u \in Seq(R), NEW v \in Seq(R)
    PROVE  Weight(u \o v, g) = Weight(u, g) + Weight(v, g)
<1> DEFINE a == [i \in DOMAIN u |-> g[u[i]]]
           b == [i \in DOMAIN v |-> g[v[i]]]
           c == [i \in DOMAIN (u \o v) |-> g[(u \o v)[i]]]
<1>1. a \in Seq(Nat) /\ b \in Seq(Nat) /\ c \in Seq(Nat)
  <2>1. u \o v \in Seq(R)  BY ConcatProperties
  <2> QED BY <2>1, WeightNat
<1>2. a \in Seq(Int) /\ b \in Seq(Int) /\ c \in Seq(Int)  BY <1>1
<1>3. Len(a) = Len(u) /\ Len(b) = Len(v) /\ Len(c) = Len(u) + Len(v)
  BY <1>1, ConcatProperties, LenProperties
<1>4. /\ \A i \in 1 .. Len(u) : c[i] = a[i]
      /\ \A i \in Len(u) + 1 .. Len(u) + Len(v) : c[i] = b[i - Len(u)]
      /\ Len(u) \in Nat /\ Len(v) \in Nat
  <2>1. /\ DOMAIN u = 1 .. Len(u) /\ DOMAIN v = 1 .. Len(v) /\ Len(u) \in Nat /\ Len(v) \in Nat
        /\ DOMAIN (u \o v) = 1 .. Len(u) + Len(v)
    OBVIOUS
  <2>2. \A i \in 1 .. Len(u) + Len(v) :
            (u \o v)[i] = IF i <= Len(u) THEN u[i] ELSE v[i - Len(u)]
    BY ConcatProperties
  <2> QED BY <2>1, <2>2
<1> HIDE DEF a, b, c
<1>5. a \o b \in Seq(Int) /\ Len(a \o b) = Len(c)
  <2>1. a \o b \in Seq(Int) /\ Len(a \o b) = Len(a) + Len(b)  BY <1>2, ConcatProperties
  <2> QED BY <1>3, <2>1, Zenon
<1>6. \A i \in 1 .. Len(c) : c[i] = (a \o b)[i]
  <2>1. \A i \in 1 .. Len(a) + Len(b) :
            (a \o b)[i] = IF i <= Len(a) THEN a[i] ELSE b[i - Len(a)]
    BY <1>2, ConcatProperties
  <2> SUFFICES ASSUME NEW i \in 1 .. Len(u) + Len(v) PROVE c[i] = (a \o b)[i]
    BY <1>3
  <2>2. (a \o b)[i] = IF i <= Len(u) THEN a[i] ELSE b[i - Len(u)]  BY <1>3, <2>1
  <2>3. CASE i <= Len(u)  BY <2>2, <2>3, <1>4
  <2>4. CASE ~(i <= Len(u))
    <3>1. i \in Len(u) + 1 .. Len(u) + Len(v)  BY <1>4, <2>4
    <3> QED BY <2>2, <2>4, <3>1, <1>4
  <2> QED BY <2>3, <2>4
<1>7. c = a \o b  BY <1>2, <1>5, <1>6, SeqEqual
<1>8. SumFunction(a \o b) = SumFunction(a) + SumFunction(b)  BY <1>2, SumConcat
<1> QED BY <1>7, <1>8 DEF Weight, a, b, c

\* Nothing weighs nothing.
LEMMA WeightNone == \A g : Weight(<<>>, g) = 0
<1> TAKE g
<1>1. [i \in DOMAIN <<>> |-> g[<<>>[i]]] = <<>>  OBVIOUS
<1> QED BY <1>1, SumNone DEF Weight

\* A sequence of one.
LEMMA WeightOne ==
    ASSUME NEW R, NEW g \in [R -> Nat], NEW r \in R
    PROVE  Weight(<<r>>, g) = g[r]
<1> DEFINE w == [i \in DOMAIN <<r>> |-> g[<<r>>[i]]]
<1>1. w = <<g[r]>>  OBVIOUS
<1>2. g[r] \in Int  OBVIOUS
<1> QED BY <1>1, <1>2, SumOne DEF Weight

\* One more at the end.
LEMMA WeightAppend ==
    ASSUME NEW R, NEW g \in [R -> Nat], NEW u \in Seq(R), NEW r \in R
    PROVE  Weight(Append(u, r), g) = Weight(u, g) + g[r]
<1>1. Append(u, r) = u \o <<r>> /\ <<r>> \in Seq(R)  BY AppendIsConcat
<1> QED BY <1>1, WeightConcat, WeightOne

\* One less at the front.
LEMMA WeightTail ==
    ASSUME NEW R, NEW g \in [R -> Nat], NEW u \in Seq(R), u # <<>>
    PROVE  /\ Head(u) \in R /\ Tail(u) \in Seq(R)
           /\ Weight(u, g) = g[Head(u)] + Weight(Tail(u), g)
<1>1. Head(u) \in R /\ Tail(u) \in Seq(R)  BY HeadTailProperties
<1>2. u = <<Head(u)>> \o Tail(u)  BY <1>1, HeadTailProperties
<1>3. <<Head(u)>> \in Seq(R)  BY <1>1
<1>4. Weight(<<Head(u)>> \o Tail(u), g) = Weight(<<Head(u)>>, g) + Weight(Tail(u), g)
  BY <1>1, <1>3, WeightConcat
<1> QED BY <1>1, <1>2, <1>4, WeightOne
=============================================================================
